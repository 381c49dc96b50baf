----------------------------- MODULE HttpClient -----------------------------
(***************************************************************************)
(* http_request_stop_json() and send_http_request() of                     *)
(* app/src/net/custom_http_client.c, call after call: attempts, retries,   *)
(* redirects and the buffers that outlive them.                            *)
(*                                                                         *)
(* pc names the statement reached; "ready" is outside the function.  The   *)
(* request text and the response headers share headers_buf; host and path  *)
(* are pointers, to the static strings or into redirect_hostname_buf.      *)
(* rc > 1 (a partial transfer) is left out: parse_response() returns 0 or  *)
(* less, so the branch at lines 391-394 is never taken.                    *)
(***************************************************************************)
EXTENDS Integers

CONSTANTS
  RetryCount,  \* CONFIG_HTTP_REQUEST_RETRY_COUNT
  ApiHost,     \* CONFIG_SWIFTLY_API_HOSTNAME
  ApiPath,     \* FULL_API_PATH
  OtherHosts,  \* host names a Location: header may name
  OtherPaths   \* and paths

ASSUME RetryAssumption == RetryCount \in Nat

VARIABLES
  pc,
  result,    \* what the last call returned; "none" since power-on
  rc,        \* the local of that name, carried from one attempt to the next
  retries,   \* retry_client_error
  errno,     \* 0 until some call fails, never cleared
  secTag,    \* TRUE: SWIFTLY_SEC_TAG; FALSE: NO_SEC_TAG
  hostPtr,   \* "static" or "buf0", the start of redirect_hostname_buf
  pathPtr,   \* "static", "buf0" or "buf1", behind the host in that buffer
  buf,       \* the strings at buf0 and buf1
  headers,   \* what headers_buf holds
  sock,      \* a socket is open
  addrInf,   \* an address list is allocated
  body,      \* what recv_body_buf holds
  lteSem,    \* lte_connected_sem
  answered   \* history: the last attempt received the headers of an answer

local == <<rc, retries, secTag, hostPtr, pathPtr, buf>>
vars  == <<pc, result, rc, retries, errno, secTag, hostPtr, pathPtr, buf,
           headers, sock, addrInf, body, lteSem, answered>>

Hosts == {ApiHost} \cup OtherHosts
Paths == {ApiPath} \cup OtherPaths

Unset == "unset"

\* Where a Location: header may point, and the headers that carry one or not.
Locations ==
  [kind : {"relative"}, path : Paths]
    \cup [kind : {"https", "http"}, host : Hosts, path : Paths]
    \cup [kind : {"missing", "no_path", "bad"}]

Request  == [kind |-> "request"]
Response == [kind |-> "response"]

\* The strings host and path point to.
Host == IF hostPtr = "static" THEN ApiHost ELSE buf.at0
Path == CASE pathPtr = "static" -> ApiPath
          [] pathPtr = "buf0"   -> buf.at0
          [] pathPtr = "buf1"   -> buf.at1

\* Statements that wait on the modem or a server.
Waiting == {"resolve", "connect", "send", "headers", "body"}

Goto(from, to) == pc = from /\ pc' = to

\* A call of the socket library that fails sets errno; one that works does not.
Fails  == errno' = 1
Works  == UNCHANGED errno

-----------------------------------------------------------------------------
Init ==
  /\ pc = "ready" /\ result = "none"
  /\ rc = 0 /\ retries = 0 /\ errno = 0
  /\ secTag = TRUE /\ hostPtr = "static" /\ pathPtr = "static"
  /\ buf = [at0 |-> Unset, at1 |-> Unset]
  /\ headers = Request
  /\ sock = FALSE /\ addrInf = FALSE
  /\ body = "empty" /\ lteSem = 1 /\ answered = FALSE

\* The board restarts: main() resets after a failure, the watchdog bites a wait.
Restart ==
  /\ \/ pc = "ready" /\ result = "failure"
     \/ pc \in Waiting
  /\ pc' = "ready" /\ result' = "none"
  /\ rc' = 0 /\ retries' = 0 /\ errno' = 0
  /\ secTag' = TRUE /\ hostPtr' = "static" /\ pathPtr' = "static"
  /\ buf' = [at0 |-> Unset, at1 |-> Unset]
  /\ headers' = Request
  /\ sock' = FALSE /\ addrInf' = FALSE
  /\ body' = "empty" /\ lteSem' = 1 /\ answered' = FALSE

\* The caller comes back after a success (or for the first time); what it did in
\* between may have set errno.
Call ==
  /\ Goto("ready", "retry")
  /\ result \in {"none", "ok"}
  /\ lteSem = 1 /\ lteSem' = 0
  /\ rc' = 0 /\ retries' = 0 /\ secTag' = TRUE
  /\ hostPtr' = "static" /\ pathPtr' = "static"
  /\ buf' = [at0 |-> Unset, at1 |-> Unset]
  /\ body' = IF body = "empty" THEN "empty" ELSE "old"
  /\ Works \/ Fails
  /\ UNCHANGED <<result, headers, sock, addrInf, answered>>

\* Seeded fault: an error return skips k_sem_give().
ReturnHolding(from, r) ==
  /\ Goto(from, "ready")
  /\ result' = r
  /\ lteSem' = IF r = "ok" THEN 1 ELSE lteSem
  /\ UNCHANGED <<local, body, answered>>

\* Any return of send_http_request(); http_request_stop_json() then gives.
Return(from, r) ==
  /\ Goto(from, "ready")
  /\ result' = r
  /\ lteSem' = 1
  /\ UNCHANGED <<local, body, answered>>

\* Seeded fault: the request is written to a buffer of its own.
BuildRequestApart ==
  \/ /\ Goto("retry", "resolve")
     /\ answered' = FALSE
     /\ UNCHANGED <<result, local, errno, headers, sock, addrInf, body, lteSem>>
  \/ /\ Return("retry", "failure")
     /\ UNCHANGED <<errno, headers, sock, addrInf>>

\* retry: feed the watchdog and write the request over headers_buf.
BuildRequest ==
  \/ /\ Goto("retry", "resolve")
     /\ headers' = Request /\ answered' = FALSE
     /\ UNCHANGED <<result, local, errno, sock, addrInf, body, lteSem>>
  \/ /\ Return("retry", "failure")
     /\ UNCHANGED <<errno, headers, sock, addrInf>>

\* getaddrinfo() reports its error by its result and need not set errno, which
\* is what is returned; inet_ntop() sets it, and its failure frees nothing.
Resolve ==
  \/ /\ Goto("resolve", "socket")
     /\ addrInf' = TRUE
     /\ Works
     /\ UNCHANGED <<result, local, headers, sock, body, lteSem, answered>>
  \/ /\ Fails \/ Works
     /\ Return("resolve", IF errno' = 0 THEN "ok" ELSE "failure")
     /\ UNCHANGED <<headers, sock, addrInf>>
  \/ /\ Fails
     /\ addrInf' = TRUE
     /\ Return("resolve", "failure")
     /\ UNCHANGED <<headers, sock>>

\* tls_setup(): one of its socket options is refused.
TlsSetupFails == secTag /\ Fails

\* zsock_socket() and tls_setup(); their failure leaves rc as it was.
OpenSocket ==
  /\ \/ Goto("socket", "connect") /\ sock' = TRUE /\ Works
     \/ Goto("socket", "clean_up") /\ sock' = TRUE /\ TlsSetupFails
     \/ Goto("socket", "clean_up") /\ UNCHANGED sock /\ Fails
  /\ UNCHANGED <<result, local, headers, addrInf, body, lteSem, answered>>

Connect ==
  /\ \/ Goto("connect", "send") /\ Works /\ UNCHANGED rc
     \/ Goto("connect", "clean_up") /\ Fails /\ rc' = -3
  /\ UNCHANGED <<result, retries, secTag, hostPtr, pathPtr, buf, headers, sock,
                 addrInf, body, lteSem, answered>>

\* The send loop; its failure leaves rc as it was.
Send ==
  /\ \/ Goto("send", "headers") /\ Works
     \/ Goto("send", "clean_up") /\ Fails
  /\ UNCHANGED <<result, local, headers, sock, addrInf, body, lteSem, answered>>

\* parse_headers(): the end of the stream or an error before the blank line (-1,
\* made -3 by the caller), a status that ends the attempt, or one that does not.
ReceiveHeaders ==
  /\ \/ Goto("headers", "clean_up") /\ rc' = -3 /\ (Fails \/ Works)
        /\ headers' \in {Request, Response} /\ UNCHANGED answered
     \/ Goto("headers", "clean_up") /\ rc' = -2 /\ Works
        /\ headers' \in Locations /\ answered' = TRUE
     \/ Goto("headers", "clean_up") /\ rc' \in {-3, -4, -5} /\ Works
        /\ headers' = Response /\ answered' = TRUE
     \/ Goto("headers", "body") /\ UNCHANGED rc /\ Works
        /\ headers' = Response /\ answered' = TRUE
  /\ UNCHANGED <<result, retries, secTag, hostPtr, pathPtr, buf, sock, addrInf,
                 body, lteSem>>

\* Seeded fault: an error while receiving ends the body like the end of stream.
ReceiveBodyLenient ==
  /\ Goto("body", "clean_up")
  /\ rc' = 0
  /\ \/ Works /\ body' \in {"fresh", "cut"}
     \/ Fails /\ body' \in {body, "torn"}
  /\ UNCHANGED <<result, retries, secTag, hostPtr, pathPtr, buf, headers, sock,
                 addrInf, lteSem, answered>>

\* The body up to the end of the stream, the buffer full or not: nothing tells a
\* whole one from one cut short.  An error in between leaves it half written.
ReceiveBody ==
  /\ Goto("body", "clean_up")
  /\ \/ rc' = 0 /\ Works /\ body' \in {"fresh", "cut"}
     \/ rc' = -3 /\ Fails /\ body' \in {body, "torn"}
  /\ UNCHANGED <<result, retries, secTag, hostPtr, pathPtr, buf, headers, sock,
                 addrInf, lteSem, answered>>

-----------------------------------------------------------------------------
\* Seeded fault: the address list is not freed.
CleanUpKeepingList ==
  /\ pc = "clean_up"
  /\ sock' = FALSE
  /\ Fails \/ (sock /\ Works)
  /\ UNCHANGED <<headers, addrInf>>

\* clean_up: close and free, then what rc says.  Closing socket -1 fails; an open
\* one is taken to be released even if zsock_close() reports an error, which is
\* only logged.
CleanUp ==
  /\ pc = "clean_up"
  /\ sock' = FALSE /\ addrInf' = FALSE
  /\ Fails \/ (sock /\ Works)
  /\ UNCHANGED headers

Succeed     == rc = 0 /\ CleanUp /\ Return("clean_up", "ok")
GiveUp      == rc < 0 /\ rc # -2 /\ (rc # -3 \/ retries >= RetryCount)
               /\ CleanUp /\ Return("clean_up", "failure")
\* Seeded faults: the count of retries is not compared, or not kept.
RetryAlways == /\ rc = -3
               /\ CleanUp /\ Goto("clean_up", "retry")
               /\ retries' = retries + 1
               /\ UNCHANGED <<result, rc, secTag, hostPtr, pathPtr, buf, body, lteSem,
                             answered>>
RetryUncounted ==
               /\ rc = -3 /\ retries < RetryCount
               /\ CleanUp /\ Goto("clean_up", "retry")
               /\ UNCHANGED <<result, local, body, lteSem, answered>>

Retry       == /\ rc = -3 /\ retries < RetryCount
               /\ CleanUp /\ Goto("clean_up", "retry")
               /\ retries' = retries + 1
               /\ UNCHANGED <<result, rc, secTag, hostPtr, pathPtr, buf, body, lteSem,
                             answered>>
ToRedirect  == /\ rc = -2
               /\ CleanUp /\ Goto("clean_up", "redirect")
               /\ UNCHANGED <<result, local, body, lteSem, answered>>

\* Seeded fault: the new path is copied and path left where it pointed.
RelativeRedirectUnset ==
  /\ Goto("redirect", "retry")
  /\ headers.kind = "relative"
  /\ buf' = [at0 |-> headers.path, at1 |-> Unset]
  /\ UNCHANGED <<result, rc, retries, errno, secTag, hostPtr, pathPtr, headers,
                 sock, addrInf, body, lteSem, answered>>

\* redirect: a path alone keeps hostname where it is, and overwrites buf0.
RelativeRedirect ==
  /\ Goto("redirect", "retry")
  /\ headers.kind = "relative"
  /\ pathPtr' = "buf0"
  /\ buf' = [at0 |-> headers.path, at1 |-> Unset]
  /\ UNCHANGED <<result, rc, retries, errno, secTag, hostPtr, headers, sock,
                 addrInf, body, lteSem, answered>>

\* A URL replaces both; http:// drops TLS for the rest of the call.
AbsoluteRedirect ==
  /\ Goto("redirect", "retry")
  /\ \/ headers.kind = "https" /\ secTag /\ UNCHANGED secTag
     \/ headers.kind = "http" /\ secTag' = FALSE
  /\ hostPtr' = "buf0" /\ pathPtr' = "buf1"
  /\ buf' = [at0 |-> headers.host, at1 |-> headers.path]
  /\ UNCHANGED <<result, rc, retries, errno, headers, sock, addrInf, body, lteSem,
                 answered>>

\* No Location: (as in the request itself), no path, another scheme, TLS wanted.
BadRedirect ==
  /\ \/ headers.kind \in {"request", "response", "missing", "no_path", "bad"}
     \/ headers.kind = "https" /\ ~secTag
  /\ Return("redirect", "failure")
  /\ UNCHANGED <<errno, headers, sock, addrInf>>

Redirect == RelativeRedirect \/ AbsoluteRedirect

-----------------------------------------------------------------------------
Cpu == \/ Call \/ BuildRequest \/ OpenSocket
       \/ Succeed \/ GiveUp \/ Retry \/ ToRedirect \/ Redirect \/ BadRedirect

Network == Resolve \/ Connect \/ Send \/ ReceiveHeaders \/ ReceiveBody

Next == Cpu \/ Network \/ Restart

Spec == Init /\ [][Next]_vars

(* The processor runs, and the watchdog ends a wait that nobody ends.      *)
FairSpec == Spec /\ WF_vars(Cpu) /\ WF_vars(Restart)

-----------------------------------------------------------------------------
TypeOK ==
  /\ pc \in Waiting \cup {"ready", "retry", "socket", "clean_up", "redirect"}
  /\ result \in {"none", "ok", "failure"}
  /\ rc \in -5 .. 0 /\ rc # -1
  /\ retries \in 0 .. RetryCount
  /\ errno \in {0, 1}
  /\ secTag \in BOOLEAN
  /\ hostPtr \in {"static", "buf0"} /\ pathPtr \in {"static", "buf0", "buf1"}
  /\ buf \in [at0 : Hosts \cup Paths \cup {Unset}, at1 : Paths \cup {Unset}]
  /\ headers \in Locations \cup {Request, Response}
  /\ sock \in BOOLEAN /\ addrInf \in BOOLEAN
  /\ body \in {"fresh", "cut", "old", "torn", "empty"}
  /\ answered \in BOOLEAN
  /\ lteSem \in {0, 1}

(* A success whose last attempt got an answer leaves that answer's body in  *)
(* the buffer; one with a body of another call had no answer at all.  Never *)
(* is a half written, unterminated buffer handed to the parser.             *)
SuccessBody ==
  (pc = "ready" /\ result = "ok") =>
    body \in (IF answered THEN {"fresh", "cut"} ELSE {"old", "empty"})

(* However the call ends, no socket stays open, and only a call that failed *)
(* (after which main() resets) may leave an address list allocated.         *)
Released ==
  pc = "ready" => ~sock /\ (addrInf => result = "failure")

(* A redirect is followed only from headers this very attempt received: the *)
(* rc of -2 that an attempt leaves behind for the next never makes the      *)
(* client follow the same Location: twice or read one out of its request.   *)
FollowsAnswer ==
  [][(pc = "redirect" /\ pc' = "retry") => answered]_vars

(* Whatever redirects led here, relative after absolute or the reverse, the *)
(* path an attempt asks for is one a redirect or the settings named.        *)
PathIsPath == pc \in Waiting => Path \in Paths

(* With finitely many redirects every call returns or the board restarts.  *)
CallEnds ==
  (<>[][~Redirect]_vars) => ((pc # "ready") ~> (pc = "ready"))

(* The caller sees the interface StopFetch.                                *)
Fetched == INSTANCE StopFetch WITH busy <- (pc # "ready")
ImplementsStopFetch == Fetched!Spec

-----------------------------------------------------------------------------
(* What the comments say and the code does not do.                         *)

(* custom_http_client.h:8-10: the call "returns ... the HTTP response body":  *)
(* a request that reaches the end with a success has received one.          *)
SuccessHasResponse == [][Succeed => body \in {"fresh", "cut"}]_vars

(* Line 415, on a Location: without a host: "Assume the host is the same".  *)
RelativeKeepsHost == [][RelativeRedirect => Host' = Host]_vars

(* Line 250: attempts are tracked "so we don't get in a loop".             *)
NoLoop == (pc # "ready") ~> (pc = "ready")
=============================================================================
