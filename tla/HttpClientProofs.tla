-------------------------- MODULE HttpClientProofs --------------------------
(* Machine-checked proofs about HttpClient, for every number of retries and *)
(* every set of hosts and paths a server may send the client to.            *)
EXTENDS HttpClient, TLAPS

\* Statements of an attempt before and after its answer, and with what is open.
Unanswered == {"resolve", "socket", "connect", "send", "headers"}
Connected  == {"connect", "send", "headers", "body", "clean_up"}
Resolved   == Connected \cup {"socket"}

\* What is open is closed on the way out; main() resets where it is not.
Owned ==
  /\ sock => pc \in Connected
  /\ addrInf => pc \in Resolved \/ (pc = "ready" /\ result = "failure")
  /\ lteSem = (IF pc = "ready" THEN 1 ELSE 0)

(* The body of this call is there only once rc is 0 for good; a torn one    *)
(* leaves a trace in rc, and in errno for the error return of getaddrinfo().*)
BodyHistory ==
  /\ pc \in Unanswered => ~answered
  /\ pc = "body" => answered
  /\ body \in {"fresh", "cut"} /\ pc # "ready" => pc = "clean_up" /\ rc = 0 /\ answered
  /\ pc = "clean_up" /\ rc = 0 /\ answered => body \in {"fresh", "cut"}
  /\ body = "torn" => errno = 1 /\ (pc = "ready" => result = "failure")
                      /\ (pc # "ready" => rc # 0)
  /\ SuccessBody

\* headers_buf holds a Location: only if this attempt received it.
HeadersHistory == headers.kind \notin {"request", "response"} => answered

\* pathPtr points at a path, also after the buffer was written over.
PathPointer ==
  /\ pathPtr = "buf0" => buf.at0 \in Paths
  /\ pathPtr = "buf1" => buf.at1 \in Paths

Inv == TypeOK /\ Owned /\ BodyHistory /\ HeadersHistory /\ PathPointer

\* TypeOK in four parts, each of which every step preserves.
TypeCounters ==
  /\ pc \in Waiting \cup {"ready", "retry", "socket", "clean_up", "redirect"}
  /\ result \in {"none", "ok", "failure"}
  /\ rc \in -5 .. 0 /\ rc # -1
  /\ retries \in 0 .. RetryCount
  /\ errno \in {0, 1}

TypeFlags ==
  /\ secTag \in BOOLEAN
  /\ hostPtr \in {"static", "buf0"} /\ pathPtr \in {"static", "buf0", "buf1"}
  /\ sock \in BOOLEAN /\ addrInf \in BOOLEAN /\ answered \in BOOLEAN
  /\ body \in {"fresh", "cut", "old", "torn", "empty"}
  /\ lteSem \in {0, 1}

TypeBuf == buf \in [at0 : Hosts \cup Paths \cup {Unset}, at1 : Paths \cup {Unset}]

TypeHeaders == headers \in Locations \cup {Request, Response}

LEMMA TypeParts == TypeOK <=> TypeCounters /\ TypeFlags /\ TypeBuf /\ TypeHeaders
BY DEF TypeOK, TypeCounters, TypeFlags, TypeBuf, TypeHeaders

(* What a Location: names is a host and a path.                            *)
LEMMA LocationFields ==
  ASSUME TypeHeaders
  PROVE  /\ headers.kind \in {"relative", "https", "http"} => headers.path \in Paths
         /\ headers.kind \in {"https", "http"} => headers.host \in Hosts
<1>1. CASE headers \in [kind : {"relative"}, path : Paths]
  BY <1>1
<1>2. CASE headers \in [kind : {"https", "http"}, host : Hosts, path : Paths]
  BY <1>2
<1>3. CASE headers \in [kind : {"missing", "no_path", "bad"}]
  BY <1>3
<1>4. CASE headers \in {Request, Response}
  BY <1>4 DEF Request, Response
<1> QED
  BY <1>1, <1>2, <1>3, <1>4 DEF TypeHeaders, Locations

-----------------------------------------------------------------------------
(* The initial state satisfies the invariant.                              *)
LEMMA InitInv == Init => Inv
<1> SUFFICES ASSUME Init PROVE Inv
  OBVIOUS
<1>1. TypeCounters
  <2>1. 0 \in 0 .. RetryCount /\ 0 \in -5 .. 0
    BY RetryAssumption
  <2> QED
    BY <2>1 DEF Init, TypeCounters
<1>4. TypeFlags
  BY DEF Init, TypeFlags
<1>2. TypeBuf /\ TypeHeaders
  BY DEF Init, TypeBuf, TypeHeaders
<1>3. Owned /\ BodyHistory /\ HeadersHistory /\ PathPointer
  BY DEF Init, Owned, BodyHistory, HeadersHistory, PathPointer, SuccessBody, Request,
         Unanswered
<1> QED
  BY <1>1, <1>2, <1>3, <1>4, TypeParts DEF Inv

(* Counters and program counter stay in their ranges.                      *)
LEMMA TypeCountersStep == TypeOK /\ [Next]_vars => TypeCounters'
<1> SUFFICES ASSUME TypeOK, [Next]_vars PROVE TypeCounters'
  OBVIOUS
<1> USE RetryAssumption DEF TypeOK, TypeCounters, Waiting, local
<1>1. CASE Call
  BY <1>1 DEF Call, Goto, Works, Fails
<1>2. CASE BuildRequest
  BY <1>2 DEF BuildRequest, Return, Goto
<1>3. CASE OpenSocket
  BY <1>3 DEF OpenSocket, TlsSetupFails, Goto, Works, Fails
<1>4. CASE Succeed
  BY <1>4 DEF Succeed, CleanUp, Return, Goto, Works, Fails
<1>5. CASE GiveUp
  BY <1>5 DEF GiveUp, CleanUp, Return, Goto, Works, Fails
<1>6. CASE Retry
  BY <1>6 DEF Retry, CleanUp, Goto, Works, Fails
<1>7. CASE ToRedirect
  BY <1>7 DEF ToRedirect, CleanUp, Goto, Works, Fails
<1>8. CASE RelativeRedirect
  BY <1>8 DEF RelativeRedirect, Goto
<1>9. CASE AbsoluteRedirect
  BY <1>9 DEF AbsoluteRedirect, Goto
<1>10. CASE BadRedirect
  BY <1>10 DEF BadRedirect, Return, Goto
<1>11. CASE Resolve
  BY <1>11 DEF Resolve, Return, Goto, Works, Fails
<1>12. CASE Connect
  BY <1>12 DEF Connect, Goto, Works, Fails
<1>13. CASE Send
  BY <1>13 DEF Send, Goto, Works, Fails
<1>14. CASE ReceiveHeaders
  BY <1>14 DEF ReceiveHeaders, Goto, Works, Fails, Request, Response
<1>15. CASE ReceiveBody
  BY <1>15 DEF ReceiveBody, Goto, Works, Fails
<1>16. CASE Restart
  BY <1>16 DEF Restart, Request
<1>17. CASE UNCHANGED vars
  BY <1>17 DEF vars
<1> QED
  BY <1>1, <1>2, <1>3, <1>4, <1>5, <1>6, <1>7, <1>8, <1>9, <1>10, <1>11, <1>12, <1>13, <1>14, <1>15, <1>16, <1>17
     DEF Next, Cpu, Network, Redirect

(* Flags, pointers and the kind of body.                                   *)
LEMMA TypeFlagsStep == TypeOK /\ [Next]_vars => TypeFlags'
<1> SUFFICES ASSUME TypeOK, [Next]_vars PROVE TypeFlags'
  OBVIOUS
<1> USE RetryAssumption DEF TypeOK, TypeFlags, Waiting, local
<1>1. CASE Call
  BY <1>1 DEF Call, Goto, Works, Fails
<1>2. CASE BuildRequest
  BY <1>2 DEF BuildRequest, Return, Goto
<1>3. CASE OpenSocket
  BY <1>3 DEF OpenSocket, TlsSetupFails, Goto, Works, Fails
<1>4. CASE Succeed
  BY <1>4 DEF Succeed, CleanUp, Return, Goto, Works, Fails
<1>5. CASE GiveUp
  BY <1>5 DEF GiveUp, CleanUp, Return, Goto, Works, Fails
<1>6. CASE Retry
  BY <1>6 DEF Retry, CleanUp, Goto, Works, Fails
<1>7. CASE ToRedirect
  BY <1>7 DEF ToRedirect, CleanUp, Goto, Works, Fails
<1>8. CASE RelativeRedirect
  BY <1>8 DEF RelativeRedirect, Goto
<1>9. CASE AbsoluteRedirect
  BY <1>9 DEF AbsoluteRedirect, Goto
<1>10. CASE BadRedirect
  BY <1>10 DEF BadRedirect, Return, Goto
<1>11. CASE Resolve
  BY <1>11 DEF Resolve, Return, Goto, Works, Fails
<1>12. CASE Connect
  BY <1>12 DEF Connect, Goto, Works, Fails
<1>13. CASE Send
  BY <1>13 DEF Send, Goto, Works, Fails
<1>14. CASE ReceiveHeaders
  BY <1>14 DEF ReceiveHeaders, Goto, Works, Fails, Request, Response
<1>15. CASE ReceiveBody
  BY <1>15 DEF ReceiveBody, Goto, Works, Fails
<1>16. CASE Restart
  BY <1>16 DEF Restart, Request
<1>17. CASE UNCHANGED vars
  BY <1>17 DEF vars
<1> QED
  BY <1>1, <1>2, <1>3, <1>4, <1>5, <1>6, <1>7, <1>8, <1>9, <1>10, <1>11, <1>12, <1>13, <1>14, <1>15, <1>16, <1>17
     DEF Next, Cpu, Network, Redirect

(* The redirect buffer holds hosts and paths that headers named.           *)
LEMMA TypeBufStep == TypeBuf /\ TypeHeaders /\ [Next]_vars => TypeBuf'
<1> SUFFICES ASSUME TypeBuf, TypeHeaders, [Next]_vars PROVE TypeBuf'
  OBVIOUS
<1> USE LocationFields DEF TypeBuf, local
<1>1. CASE Call
  BY <1>1 DEF Call, Goto, Works, Fails
<1>2. CASE BuildRequest
  BY <1>2 DEF BuildRequest, Return, Goto
<1>3. CASE OpenSocket
  BY <1>3 DEF OpenSocket, TlsSetupFails, Goto, Works, Fails
<1>4. CASE Succeed
  BY <1>4 DEF Succeed, CleanUp, Return, Goto, Works, Fails
<1>5. CASE GiveUp
  BY <1>5 DEF GiveUp, CleanUp, Return, Goto, Works, Fails
<1>6. CASE Retry
  BY <1>6 DEF Retry, CleanUp, Goto, Works, Fails
<1>7. CASE ToRedirect
  BY <1>7 DEF ToRedirect, CleanUp, Goto, Works, Fails
<1>8. CASE RelativeRedirect
  BY <1>8 DEF RelativeRedirect, Goto
<1>9. CASE AbsoluteRedirect
  BY <1>9 DEF AbsoluteRedirect, Goto
<1>10. CASE BadRedirect
  BY <1>10 DEF BadRedirect, Return, Goto
<1>11. CASE Resolve
  BY <1>11 DEF Resolve, Return, Goto, Works, Fails
<1>12. CASE Connect
  BY <1>12 DEF Connect, Goto, Works, Fails
<1>13. CASE Send
  BY <1>13 DEF Send, Goto, Works, Fails
<1>14. CASE ReceiveHeaders
  BY <1>14 DEF ReceiveHeaders, Goto, Works, Fails, Request, Response
<1>15. CASE ReceiveBody
  BY <1>15 DEF ReceiveBody, Goto, Works, Fails
<1>16. CASE Restart
  BY <1>16 DEF Restart, Request
<1>17. CASE UNCHANGED vars
  BY <1>17 DEF vars
<1> QED
  BY <1>1, <1>2, <1>3, <1>4, <1>5, <1>6, <1>7, <1>8, <1>9, <1>10, <1>11, <1>12, <1>13, <1>14, <1>15, <1>16, <1>17
     DEF Next, Cpu, Network, Redirect

(* headers_buf holds a request or an answer.                               *)
LEMMA TypeHeadersStep == TypeOK /\ [Next]_vars => TypeHeaders'
<1> SUFFICES ASSUME TypeOK, [Next]_vars PROVE TypeHeaders'
  OBVIOUS
<1> USE RetryAssumption DEF TypeOK, TypeHeaders, Waiting, local
<1>1. CASE Call
  BY <1>1 DEF Call, Goto, Works, Fails
<1>2. CASE BuildRequest
  BY <1>2 DEF BuildRequest, Return, Goto
<1>3. CASE OpenSocket
  BY <1>3 DEF OpenSocket, TlsSetupFails, Goto, Works, Fails
<1>4. CASE Succeed
  BY <1>4 DEF Succeed, CleanUp, Return, Goto, Works, Fails
<1>5. CASE GiveUp
  BY <1>5 DEF GiveUp, CleanUp, Return, Goto, Works, Fails
<1>6. CASE Retry
  BY <1>6 DEF Retry, CleanUp, Goto, Works, Fails
<1>7. CASE ToRedirect
  BY <1>7 DEF ToRedirect, CleanUp, Goto, Works, Fails
<1>8. CASE RelativeRedirect
  BY <1>8 DEF RelativeRedirect, Goto
<1>9. CASE AbsoluteRedirect
  BY <1>9 DEF AbsoluteRedirect, Goto
<1>10. CASE BadRedirect
  BY <1>10 DEF BadRedirect, Return, Goto
<1>11. CASE Resolve
  BY <1>11 DEF Resolve, Return, Goto, Works, Fails
<1>12. CASE Connect
  BY <1>12 DEF Connect, Goto, Works, Fails
<1>13. CASE Send
  BY <1>13 DEF Send, Goto, Works, Fails
<1>14. CASE ReceiveHeaders
  BY <1>14 DEF ReceiveHeaders, Goto, Works, Fails, Request, Response
<1>15. CASE ReceiveBody
  BY <1>15 DEF ReceiveBody, Goto, Works, Fails
<1>16. CASE Restart
  BY <1>16 DEF Restart, Request
<1>17. CASE UNCHANGED vars
  BY <1>17 DEF vars
<1> QED
  BY <1>1, <1>2, <1>3, <1>4, <1>5, <1>6, <1>7, <1>8, <1>9, <1>10, <1>11, <1>12, <1>13, <1>14, <1>15, <1>16, <1>17
     DEF Next, Cpu, Network, Redirect

(* The four parts make the type invariant.                                 *)
LEMMA TypeStep == TypeOK /\ [Next]_vars => TypeOK'
<1> SUFFICES ASSUME TypeOK, [Next]_vars PROVE TypeOK'
  OBVIOUS
<1>1. TypeCounters' /\ TypeFlags' /\ TypeBuf' /\ TypeHeaders'
  BY TypeParts, TypeCountersStep, TypeFlagsStep, TypeBufStep, TypeHeadersStep
<1> QED
  BY <1>1 DEF TypeOK, TypeCounters, TypeFlags, TypeBuf, TypeHeaders

(* Every path out of the function closes, frees and gives what it must.    *)
LEMMA OwnedStep == Inv /\ [Next]_vars => Owned'
<1> SUFFICES ASSUME Inv, [Next]_vars PROVE Owned'
  OBVIOUS
<1> USE DEF Inv, TypeOK, Owned, Connected, Resolved, Waiting, local
<1>1. CASE Call
  BY <1>1 DEF Call, Goto, Works, Fails
<1>2. CASE BuildRequest
  BY <1>2 DEF BuildRequest, Return, Goto
<1>3. CASE OpenSocket
  BY <1>3 DEF OpenSocket, TlsSetupFails, Goto, Works, Fails
<1>4. CASE Succeed
  BY <1>4 DEF Succeed, CleanUp, Return, Goto, Works, Fails
<1>5. CASE GiveUp
  BY <1>5 DEF GiveUp, CleanUp, Return, Goto, Works, Fails
<1>6. CASE Retry
  BY <1>6 DEF Retry, CleanUp, Goto, Works, Fails
<1>7. CASE ToRedirect
  BY <1>7 DEF ToRedirect, CleanUp, Goto, Works, Fails
<1>8. CASE RelativeRedirect
  BY <1>8 DEF RelativeRedirect, Goto
<1>9. CASE AbsoluteRedirect
  BY <1>9 DEF AbsoluteRedirect, Goto
<1>10. CASE BadRedirect
  BY <1>10 DEF BadRedirect, Return, Goto
<1>11. CASE Resolve
  BY <1>11 DEF Resolve, Return, Goto, Works, Fails
<1>12. CASE Connect
  BY <1>12 DEF Connect, Goto, Works, Fails
<1>13. CASE Send
  BY <1>13 DEF Send, Goto, Works, Fails
<1>14. CASE ReceiveHeaders
  BY <1>14 DEF ReceiveHeaders, Goto, Works, Fails, Request, Response
<1>15. CASE ReceiveBody
  BY <1>15 DEF ReceiveBody, Goto, Works, Fails
<1>16. CASE Restart
  BY <1>16 DEF Restart, Request
<1>17. CASE UNCHANGED vars
  BY <1>17 DEF vars
<1> QED
  BY <1>1, <1>2, <1>3, <1>4, <1>5, <1>6, <1>7, <1>8, <1>9, <1>10, <1>11, <1>12, <1>13, <1>14, <1>15, <1>16, <1>17
     DEF Next, Cpu, Network, Redirect

(* A half written body is never taken for a success.                       *)
LEMMA BodyStep == Inv /\ [Next]_vars => BodyHistory'
<1> SUFFICES ASSUME Inv, [Next]_vars PROVE BodyHistory'
  OBVIOUS
<1> USE DEF Inv, TypeOK, BodyHistory, SuccessBody, Unanswered, Waiting, local
<1>1. CASE Call
  BY <1>1 DEF Call, Goto, Works, Fails
<1>2. CASE BuildRequest
  BY <1>2 DEF BuildRequest, Return, Goto
<1>3. CASE OpenSocket
  BY <1>3 DEF OpenSocket, TlsSetupFails, Goto, Works, Fails
<1>4. CASE Succeed
  BY <1>4 DEF Succeed, CleanUp, Return, Goto, Works, Fails
<1>5. CASE GiveUp
  BY <1>5 DEF GiveUp, CleanUp, Return, Goto, Works, Fails
<1>6. CASE Retry
  BY <1>6 DEF Retry, CleanUp, Goto, Works, Fails
<1>7. CASE ToRedirect
  BY <1>7 DEF ToRedirect, CleanUp, Goto, Works, Fails
<1>8. CASE RelativeRedirect
  BY <1>8 DEF RelativeRedirect, Goto
<1>9. CASE AbsoluteRedirect
  BY <1>9 DEF AbsoluteRedirect, Goto
<1>10. CASE BadRedirect
  BY <1>10 DEF BadRedirect, Return, Goto
<1>11. CASE Resolve
  BY <1>11 DEF Resolve, Return, Goto, Works, Fails
<1>12. CASE Connect
  BY <1>12 DEF Connect, Goto, Works, Fails
<1>13. CASE Send
  BY <1>13 DEF Send, Goto, Works, Fails
<1>14. CASE ReceiveHeaders
  BY <1>14 DEF ReceiveHeaders, Goto, Works, Fails, Request, Response
<1>15. CASE ReceiveBody
  BY <1>15 DEF ReceiveBody, Goto, Works, Fails
<1>16. CASE Restart
  BY <1>16 DEF Restart, Request
<1>17. CASE UNCHANGED vars
  BY <1>17 DEF vars
<1> QED
  BY <1>1, <1>2, <1>3, <1>4, <1>5, <1>6, <1>7, <1>8, <1>9, <1>10, <1>11, <1>12, <1>13, <1>14, <1>15, <1>16, <1>17
     DEF Next, Cpu, Network, Redirect

(* A Location: is forgotten when the next request is written over it.      *)
LEMMA HeadersStep == Inv /\ [Next]_vars => HeadersHistory'
<1> SUFFICES ASSUME Inv, [Next]_vars PROVE HeadersHistory'
  OBVIOUS
<1> USE DEF Inv, TypeOK, HeadersHistory, Waiting, Locations, Request, Response, local
<1>1. CASE Call
  BY <1>1 DEF Call, Goto, Works, Fails
<1>2. CASE BuildRequest
  BY <1>2 DEF BuildRequest, Return, Goto
<1>3. CASE OpenSocket
  BY <1>3 DEF OpenSocket, TlsSetupFails, Goto, Works, Fails
<1>4. CASE Succeed
  BY <1>4 DEF Succeed, CleanUp, Return, Goto, Works, Fails
<1>5. CASE GiveUp
  BY <1>5 DEF GiveUp, CleanUp, Return, Goto, Works, Fails
<1>6. CASE Retry
  BY <1>6 DEF Retry, CleanUp, Goto, Works, Fails
<1>7. CASE ToRedirect
  BY <1>7 DEF ToRedirect, CleanUp, Goto, Works, Fails
<1>8. CASE RelativeRedirect
  BY <1>8 DEF RelativeRedirect, Goto
<1>9. CASE AbsoluteRedirect
  BY <1>9 DEF AbsoluteRedirect, Goto
<1>10. CASE BadRedirect
  BY <1>10 DEF BadRedirect, Return, Goto
<1>11. CASE Resolve
  BY <1>11 DEF Resolve, Return, Goto, Works, Fails
<1>12. CASE Connect
  BY <1>12 DEF Connect, Goto, Works, Fails
<1>13. CASE Send
  BY <1>13 DEF Send, Goto, Works, Fails
<1>14. CASE ReceiveHeaders
  BY <1>14 DEF ReceiveHeaders, Goto, Works, Fails, Request, Response
<1>15. CASE ReceiveBody
  BY <1>15 DEF ReceiveBody, Goto, Works, Fails
<1>16. CASE Restart
  BY <1>16 DEF Restart, Request
<1>17. CASE UNCHANGED vars
  BY <1>17 DEF vars
<1> QED
  BY <1>1, <1>2, <1>3, <1>4, <1>5, <1>6, <1>7, <1>8, <1>9, <1>10, <1>11, <1>12, <1>13, <1>14, <1>15, <1>16, <1>17
     DEF Next, Cpu, Network, Redirect

(* The buffer is written over only together with the pointer into it.      *)
LEMMA PathStep == Inv /\ [Next]_vars => PathPointer'
<1> SUFFICES ASSUME Inv, [Next]_vars PROVE PathPointer'
  OBVIOUS
<1> TypeHeaders /\ PathPointer
  BY TypeParts DEF Inv
<1> USE LocationFields DEF PathPointer, local
<1>1. CASE Call
  BY <1>1 DEF Call, Goto, Works, Fails
<1>2. CASE BuildRequest
  BY <1>2 DEF BuildRequest, Return, Goto
<1>3. CASE OpenSocket
  BY <1>3 DEF OpenSocket, TlsSetupFails, Goto, Works, Fails
<1>4. CASE Succeed
  BY <1>4 DEF Succeed, CleanUp, Return, Goto, Works, Fails
<1>5. CASE GiveUp
  BY <1>5 DEF GiveUp, CleanUp, Return, Goto, Works, Fails
<1>6. CASE Retry
  BY <1>6 DEF Retry, CleanUp, Goto, Works, Fails
<1>7. CASE ToRedirect
  BY <1>7 DEF ToRedirect, CleanUp, Goto, Works, Fails
<1>8. CASE RelativeRedirect
  BY <1>8 DEF RelativeRedirect, Goto
<1>9. CASE AbsoluteRedirect
  BY <1>9 DEF AbsoluteRedirect, Goto
<1>10. CASE BadRedirect
  BY <1>10 DEF BadRedirect, Return, Goto
<1>11. CASE Resolve
  BY <1>11 DEF Resolve, Return, Goto, Works, Fails
<1>12. CASE Connect
  BY <1>12 DEF Connect, Goto, Works, Fails
<1>13. CASE Send
  BY <1>13 DEF Send, Goto, Works, Fails
<1>14. CASE ReceiveHeaders
  BY <1>14 DEF ReceiveHeaders, Goto, Works, Fails, Request, Response
<1>15. CASE ReceiveBody
  BY <1>15 DEF ReceiveBody, Goto, Works, Fails
<1>16. CASE Restart
  BY <1>16 DEF Restart, Request
<1>17. CASE UNCHANGED vars
  BY <1>17 DEF vars
<1> QED
  BY <1>1, <1>2, <1>3, <1>4, <1>5, <1>6, <1>7, <1>8, <1>9, <1>10, <1>11, <1>12, <1>13, <1>14, <1>15, <1>16, <1>17
     DEF Next, Cpu, Network, Redirect

-----------------------------------------------------------------------------
(* The inductive invariant holds in every behaviour of the client.         *)
THEOREM Invariant == Spec => []Inv
<1>1. Inv /\ [Next]_vars => Inv'
  BY TypeStep, OwnedStep, BodyStep, HeadersStep, PathStep DEF Inv
<1> QED
  BY InitInv, <1>1, PTL DEF Spec

(* Every variable keeps its type; retries never exceed the configured count. *)
THEOREM TypeCorrect == Spec => []TypeOK
<1>1. Inv => TypeOK
  BY DEF Inv
<1> QED
  BY Invariant, <1>1, PTL

(* A success hands over an answer's body or, unanswered, an untouched buffer. *)
THEOREM SuccessBodyHolds == Spec => []SuccessBody
<1>1. Inv => SuccessBody
  BY DEF Inv, BodyHistory
<1> QED
  BY Invariant, <1>1, PTL

(* Sockets are closed on every return, address lists freed unless it failed. *)
THEOREM ReleasedHolds == Spec => []Released
<1>1. Inv => Released
  BY DEF Inv, Owned, Released, Connected, Resolved
<1> QED
  BY Invariant, <1>1, PTL

(* Whatever the redirects, an attempt asks for a path it was told.         *)
THEOREM PathHolds == Spec => []PathIsPath
<1>1. Inv => PathIsPath
  BY DEF Inv, TypeOK, PathPointer, PathIsPath, Path, Paths
<1> QED
  BY Invariant, <1>1, PTL

(* No attempt follows a Location: that another attempt received.           *)
THEOREM FollowsOwnAnswer == Spec => FollowsAnswer
<1>1. Inv /\ [Next]_vars => [(pc = "redirect" /\ pc' = "retry") => answered]_vars
  <2> SUFFICES ASSUME Inv, [Next]_vars, pc = "redirect", pc' = "retry" PROVE answered
    OBVIOUS
  <2>1. Redirect
    BY DEF Next, Cpu, Network, vars, Goto, Restart, Call, BuildRequest, OpenSocket, TlsSetupFails,
           Succeed, GiveUp, Retry, ToRedirect, BadRedirect, Return, Resolve, Connect,
           Send, ReceiveHeaders, ReceiveBody, CleanUp
  <2> QED
    BY <2>1 DEF Redirect, RelativeRedirect, AbsoluteRedirect, Inv, HeadersHistory
<1> QED
  BY Invariant, <1>1, PTL DEF Spec, FollowsAnswer

-----------------------------------------------------------------------------
(* Refinement: the caller of the client sees the interface StopFetch.      *)

\* Initially no call is under way and the buffer is zeroed.
LEMMA FetchInit == Init => Fetched!Init
BY DEF Init, Fetched!Init

(* A step starts a call, writes to the buffer, returns, restarts or stutters. *)
LEMMA FetchStep == Inv /\ [Next]_vars => [Fetched!Next]_Fetched!fetchVars
<1> SUFFICES ASSUME Inv, [Next]_vars PROVE [Fetched!Next]_Fetched!fetchVars
  OBVIOUS
<1> USE DEF Fetched!Next, Fetched!fetchVars, Fetched!Bodies, Inv, TypeOK, Owned, Waiting, local
<1>1. CASE Call
  <2>1. body' = Fetched!Aged(body)
    BY <1>1 DEF Call, Fetched!Aged
  <2> QED
    BY <1>1, <2>1 DEF Call, Goto, Fetched!Call
<1>2. CASE BuildRequest
  BY <1>2 DEF BuildRequest, Return, Goto, Fetched!Return
<1>3. CASE OpenSocket
  BY <1>3 DEF OpenSocket, TlsSetupFails, Goto
<1>4. CASE Succeed
  BY <1>4 DEF Succeed, CleanUp, Return, Goto, BodyHistory, Fetched!Return
<1>5. CASE GiveUp
  BY <1>5 DEF GiveUp, CleanUp, Return, Goto, Fetched!Return
<1>6. CASE Retry
  BY <1>6 DEF Retry, CleanUp, Goto
<1>7. CASE ToRedirect
  BY <1>7 DEF ToRedirect, CleanUp, Goto
<1>8. CASE RelativeRedirect
  BY <1>8 DEF RelativeRedirect, Goto
<1>9. CASE AbsoluteRedirect
  BY <1>9 DEF AbsoluteRedirect, Goto
<1>10. CASE BadRedirect
  BY <1>10 DEF BadRedirect, Return, Goto, Fetched!Return
<1>11. CASE Resolve
  BY <1>11 DEF Resolve, Return, Goto, Works, Fails, BodyHistory, Fetched!Return
<1>12. CASE Connect
  BY <1>12 DEF Connect, Goto
<1>13. CASE Send
  BY <1>13 DEF Send, Goto
<1>14. CASE ReceiveHeaders
  BY <1>14 DEF ReceiveHeaders, Goto
<1>15. CASE ReceiveBody
  BY <1>15 DEF ReceiveBody, Goto, Fetched!Receive
<1>16. CASE Restart
  BY <1>16 DEF Restart, Fetched!Restart
<1>17. CASE UNCHANGED vars
  BY <1>17 DEF vars
<1> QED
  BY <1>1, <1>2, <1>3, <1>4, <1>5, <1>6, <1>7, <1>8, <1>9, <1>10, <1>11, <1>12, <1>13, <1>14, <1>15, <1>16, <1>17
     DEF Next, Cpu, Network, Redirect

(* The client implements what StopFetch promises update_stop().            *)
THEOREM Implements == Spec => ImplementsStopFetch
<1>1. Inv /\ [Next]_vars => [Fetched!Next]_Fetched!fetchVars
  BY FetchStep
<1> QED
  BY FetchInit, Invariant, <1>1, PTL DEF Spec, ImplementsStopFetch, Fetched!Spec
=============================================================================
