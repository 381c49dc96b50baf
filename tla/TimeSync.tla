------------------------------ MODULE TimeSync ------------------------------
(***************************************************************************)
(* Setting the clock: set_rtc_time() of app/src/real_time_counter.c and    *)
(* the SNTP requests of app/src/net/ntp.c, called once at boot and once a  *)
(* day.  Requests go to the primary server first, then to the fallback,    *)
(* and each leaves its address list allocated.                             *)
(*                                                                         *)
(* Time is counted in ticks.  Looking up a name is given MaxResolve ticks, *)
(* an assumption on the network: the code sets no limit.                   *)
(***************************************************************************)
EXTENDS Integers

CONSTANTS
  Retries,      \* CONFIG_NTP_FETCH_RETRY_COUNT
  Timeout,      \* CONFIG_NTP_REQUEST_TIMEOUT_MS, in ticks
  MaxResolve,   \* ticks a name look-up may take
  RebootTicks,  \* ticks from a failed call to the next one: 1 s + 3 s, and more
  Pool          \* address lists the heap has room for

\* With a count of 0 the code returns an uninitialized err.
ASSUME RetriesAssumption == Retries \in Nat \ {0}
ASSUME TimesAssumption   == /\ Timeout \in Nat \ {0} /\ MaxResolve \in Nat
                            /\ RebootTicks \in Nat /\ RebootTicks >= Timeout
ASSUME PoolAssumption    == Pool \in Nat

VARIABLES
  pc,       \* "idle" in main, "resolve", "query", "nap", "start"
  result,   \* what the last call returned: "none", "ok", "failed"
  attempt,  \* rc of get_ntp_time()
  errno,    \* 0, or 1 for any error number
  spent,    \* ticks in the wait main is in
  topSet,   \* the 24 h top value and its callback are set
  running,  \* the counter is started
  leaked,   \* address lists allocated since the boot
  fresh,    \* history: time_stamp was written by the current or last call
  silent,   \* history: a look-up failed in that call with errno 0
  elapsed,  \* history: ticks since the call
  calls,    \* history: calls since the boot, up to MaxCalls
  since,    \* history: for each server, ticks since it was queried, up to Timeout
  ended     \* history: how that query ended

vars == <<pc, result, attempt, errno, spent, topSet, running, leaked,
          fresh, silent, elapsed, calls, since, ended>>

Servers  == {"primary", "fallback"}
Attempts == 2 * Retries
MaxCalls == Pool  \* a bound on the calls between two boots

Server == IF attempt < Retries THEN "primary" ELSE "fallback"

\* How long a call may take.
Budget == Attempts * (MaxResolve + Timeout) + Timeout

Capped(n) == IF n > Timeout THEN Timeout ELSE n

-----------------------------------------------------------------------------
Init ==
  /\ pc = "idle" /\ result = "none" /\ attempt = 0 /\ spent = 0
  /\ errno \in {0, 1}
  /\ topSet = FALSE /\ running = FALSE /\ leaked = 0
  /\ fresh = FALSE /\ silent = FALSE /\ elapsed = 0 /\ calls = 0
  /\ since = [s \in Servers |-> Timeout]
  /\ ended = [s \in Servers |-> "none"]

Forget ==
  /\ pc' = "idle" /\ result' = "none" /\ attempt' = 0 /\ spent' = 0
  /\ errno' \in {0, 1}
  /\ topSet' = FALSE /\ running' = FALSE /\ leaked' = 0
  /\ fresh' = FALSE /\ silent' = FALSE /\ elapsed' = 0 /\ calls' = 0

\* main() resets after a failure, of this or of something else: the servers
\* remember, the board does not.
Restart ==
  /\ pc = "idle"
  /\ Forget
  /\ since' = [s \in Servers |-> Capped(since[s] + RebootTicks)]
  /\ UNCHANGED ended

\* A call is not fed: the watchdog may end it in any of its waits, and a query
\* with it.  What follows may come at once.
WatchdogReset ==
  /\ pc \in {"resolve", "query", "nap"}
  /\ Forget
  /\ ended' = [s \in Servers |-> IF ended[s] = "pending" THEN "cut" ELSE ended[s]]
  /\ UNCHANGED since

\* clean_up: unlocks rtc_mutex, which nobody but main takes.
Return(r) == pc' = "idle" /\ result' = r

\* set_rtc_time() up to get_ntp_time(): a day after the last one, or at boot.
\* A top value that cannot be set is logged, and its error overwritten.
Call ==
  /\ pc = "idle" /\ calls < MaxCalls
  /\ \/ result = "none"
     \/ result = "ok" /\ topSet
  /\ calls' = calls + 1
  /\ attempt' = 0 /\ spent' = 0 /\ elapsed' = 0
  /\ fresh' = FALSE /\ silent' = FALSE
  /\ since' = IF result = "ok" THEN [s \in Servers |-> Timeout] ELSE since
  /\ \/ /\ pc' = "resolve"
        /\ topSet' \in {topSet, TRUE}
        /\ UNCHANGED result
     \/ Return("failed") /\ UNCHANGED topSet
  /\ UNCHANGED <<errno, running, leaked, ended>>

-----------------------------------------------------------------------------
(* get_ntp_time(): what follows a request that returned err.               *)

\* Seeded fault: one attempt more than twice the retry count.
EndRequestLate(err) ==
  /\ spent' = 0
  /\ \/ err = 0 /\ pc' = "start" /\ UNCHANGED attempt
     \/ err # 0 /\ attempt < Attempts /\ pc' = "resolve" /\ attempt' = attempt + 1
     \/ err # 0 /\ attempt = Attempts /\ pc' = "nap" /\ UNCHANGED attempt

EndRequest(err) ==
  /\ spent' = 0
  /\ \/ err = 0 /\ pc' = "start" /\ UNCHANGED attempt
     \/ err # 0 /\ attempt < Attempts - 1 /\ pc' = "resolve" /\ attempt' = attempt + 1
     \/ err # 0 /\ attempt = Attempts - 1 /\ pc' = "nap" /\ UNCHANGED attempt

\* Seeded fault: any failed look-up returns 0.
ResolveFailsQuietly ==
  /\ pc = "resolve"
  /\ errno' \in {errno, 1}
  /\ silent' = (silent \/ errno' = 0)
  /\ EndRequest(0)
  /\ UNCHANGED <<result, topSet, running, leaked, fresh, elapsed, calls,
                 since, ended>>

\* getaddrinfo() fails: errno is returned, whether or not the call set it.
ResolveFails ==
  /\ pc = "resolve"
  /\ errno' \in {errno, 1}
  /\ silent' = (silent \/ errno' = 0)
  /\ EndRequest(errno')
  /\ UNCHANGED <<result, topSet, running, leaked, fresh, elapsed, calls,
                 since, ended>>

\* The address list is allocated, and sntp_init() succeeds or does not.
Resolve ==
  /\ pc = "resolve"
  /\ leaked < Pool
  /\ leaked' = leaked + 1
  /\ \/ /\ pc' = "query" /\ spent' = 0
        /\ since' = [since EXCEPT ![Server] = 0]
        /\ ended' = [ended EXCEPT ![Server] = "pending"]
        /\ UNCHANGED <<attempt, errno>>
     \/ EndRequest(1) /\ errno' = 1 /\ UNCHANGED <<since, ended>>
  /\ UNCHANGED <<result, topSet, running, fresh, silent, elapsed, calls>>

QueryAnswered ==
  /\ pc = "query"
  /\ EndRequest(0)
  /\ fresh' = TRUE
  /\ ended' = [ended EXCEPT ![Server] = "answered"]
  /\ UNCHANGED <<result, errno, topSet, running, leaked, silent, elapsed,
                 calls, since>>

\* Seeded fault: the time limit is passed in the wrong unit.
QueryTimesOutEarly ==
  /\ pc = "query"
  /\ EndRequest(1)
  /\ errno' = 1
  /\ ended' = [ended EXCEPT ![Server] = "timeout"]
  /\ UNCHANGED <<result, topSet, running, leaked, fresh, silent, elapsed,
                 calls, since>>

QueryTimesOut ==
  /\ pc = "query" /\ spent = Timeout
  /\ EndRequest(1)
  /\ errno' = 1
  /\ ended' = [ended EXCEPT ![Server] = "timeout"]
  /\ UNCHANGED <<result, topSet, running, leaked, fresh, silent, elapsed,
                 calls, since>>

\* The socket fails, or the server answers with what is not a time.
QueryFails ==
  /\ pc = "query"
  /\ EndRequest(1)
  /\ errno' = 1
  /\ ended' = [ended EXCEPT ![Server] = "failed"]
  /\ UNCHANGED <<result, topSet, running, leaked, fresh, silent, elapsed,
                 calls, since>>

-----------------------------------------------------------------------------
(* The end of set_rtc_time().                                              *)

\* k_msleep(CONFIG_NTP_REQUEST_TIMEOUT_MS), then the error.
NapEnds ==
  /\ pc = "nap" /\ spent = Timeout
  /\ Return("failed")
  /\ UNCHANGED <<attempt, errno, spent, topSet, running, leaked, fresh, silent,
                 elapsed, calls, since, ended>>

StartCounter ==
  /\ pc = "start"
  /\ \/ Return("ok") /\ running' = TRUE
     \/ Return("failed") /\ UNCHANGED running
  /\ UNCHANGED <<attempt, errno, spent, topSet, leaked, fresh, silent, elapsed,
                 calls, since, ended>>

\* A tick falls into a call that waits.
Tick ==
  /\ \/ pc = "resolve" /\ spent < MaxResolve
     \/ pc \in {"query", "nap"} /\ spent < Timeout
  /\ spent' = spent + 1
  /\ elapsed' = elapsed + 1
  /\ since' = [s \in Servers |-> Capped(since[s] + 1)]
  /\ UNCHANGED <<pc, result, attempt, errno, topSet, running, leaked,
                 fresh, silent, calls, ended>>

Next == \/ Restart \/ WatchdogReset \/ Call \/ Resolve \/ ResolveFails \/ QueryAnswered
        \/ QueryTimesOut \/ QueryFails \/ NapEnds \/ StartCounter \/ Tick

Spec == Init /\ [][Next]_vars

-----------------------------------------------------------------------------
TypeOK ==
  /\ pc \in {"idle", "resolve", "query", "nap", "start"}
  /\ result \in {"none", "ok", "failed"}
  /\ attempt \in 0 .. Attempts - 1
  /\ errno \in {0, 1}
  /\ spent \in 0 .. Timeout + MaxResolve
  /\ topSet \in BOOLEAN /\ running \in BOOLEAN /\ fresh \in BOOLEAN /\ silent \in BOOLEAN
  /\ leaked \in 0 .. Pool
  /\ elapsed \in Nat
  /\ calls \in 0 .. MaxCalls
  /\ since \in [Servers -> 0 .. Timeout]
  /\ ended \in [Servers -> {"none", "pending", "answered", "timeout", "failed", "cut"}]

(* set_rtc_time() reports success only with a time a server has sent during *)
(* this call - or when a name could not be looked up and errno, which       *)
(* ntp_request() returns in its place, happened to be 0.                    *)
SuccessIsFresh == result = "ok" /\ pc = "idle" => fresh \/ silent

(* As long as names are looked up in MaxResolve ticks a call takes no more  *)
(* than twice the retry count of requests and one nap: what the daily call, *)
(* during which nothing feeds the watchdog, takes out of its window.        *)
InTime == elapsed <= Budget

(* A server is asked again sooner than the time limit of a request only if  *)
(* the query before failed by itself or was cut off by the watchdog: other  *)
(* resets, the fallback and the daily repetition included.                  *)
Spaced ==
  [][\A s \in Servers :
       ended'[s] = "pending" /\ ended[s] # "pending" =>
         since[s] = Timeout \/ ended[s] \in {"failed", "cut"}]_vars

(* The address lists a sync leaves behind are bounded: two for each of the  *)
(* configured retries, so a board that is not reset loses at most that many *)
(* a day.                                                                   *)
LeakPerCall == leaked <= Attempts * calls

=============================================================================
