--------------------------- MODULE TimeSyncProofs ---------------------------
(* Machine-checked proofs about TimeSync, for every retry count, time      *)
(* limit, look-up time, reboot time of at least the limit, and heap.       *)
EXTENDS TimeSync, TLAPS

\* Ticks a request may take.
Cost == MaxResolve + Timeout

\* Address lists the calls before this one may have left.
LeftBefore == Attempts * (calls - 1)

(* How long a call has taken, by the requests behind it and the wait it is *)
(* in.                                                                     *)
Paced ==
  /\ pc = "resolve" => spent <= MaxResolve /\ elapsed <= attempt * Cost + spent
  /\ pc = "query"   => spent <= Timeout /\ elapsed <= attempt * Cost + MaxResolve + spent
  /\ pc = "nap"     => spent <= Timeout /\ elapsed <= Attempts * Cost + spent
  /\ pc = "start"   => elapsed <= Attempts * Cost
  /\ pc = "idle"    => elapsed <= Budget

(* One list for each request that has looked its server up.                *)
Counted ==
  /\ pc # "idle" => calls >= 1
  /\ pc = "resolve" => leaked <= LeftBefore + attempt
  /\ pc \in {"query", "nap", "start"} => leaked <= LeftBefore + attempt + 1
  /\ pc = "idle" => leaked <= Attempts * calls

(* The counter is started only on a time, or on a look-up taken for one.   *)
StartsFresh ==
  (pc = "start" \/ (pc = "idle" /\ result = "ok")) => fresh \/ silent

(* How long ago the servers were asked.  A time limit that has run out, a  *)
(* day and a reset are each long enough; an answer is followed by one of   *)
(* the last two before the next call.                                      *)
Resting ==
  /\ pc = "query" => since[Server] = spent
  /\ \A s \in Servers : ended[s] \in {"none", "timeout"} => since[s] = Timeout
  /\ \A s \in Servers : ended[s] = "answered" =>
       \/ since[s] = Timeout
       \/ pc = "start"
       \/ pc = "idle" /\ result # "none"

Inv == TypeOK /\ Paced /\ Counted /\ StartsFresh /\ Resting

-----------------------------------------------------------------------------
(* The constants and what is counted with them are natural numbers.        *)
LEMMA Constants ==
  /\ Retries \in Nat /\ Retries >= 1 /\ Timeout \in Nat /\ Timeout >= 1
  /\ MaxResolve \in Nat /\ RebootTicks \in Nat /\ RebootTicks >= Timeout /\ Pool \in Nat
  /\ Attempts \in Nat /\ Attempts >= 2 /\ MaxCalls = Pool
  /\ Cost \in Nat /\ Cost = MaxResolve + Timeout
  /\ 0 \in 0 .. Attempts - 1 /\ 0 \in 0 .. Timeout + MaxResolve
  /\ 0 \in 0 .. Pool /\ 0 \in 0 .. MaxCalls /\ Timeout \in 0 .. Timeout
BY RetriesAssumption, TimesAssumption, PoolAssumption DEF Attempts, MaxCalls, Cost

(* A request more costs Cost more, and none goes beyond the last.          *)
LEMMA Costs ==
  ASSUME NEW n \in 0 .. Attempts - 1
  PROVE  /\ n * Cost \in Nat /\ Attempts * Cost \in Nat
         /\ (n + 1) * Cost = n * Cost + Cost
         /\ (n + 1) * Cost <= Attempts * Cost
         /\ 0 * Cost = 0
         /\ Budget = Attempts * Cost + Timeout
<1>1. n \in Nat /\ n + 1 <= Attempts
  BY Constants
<1>2. \A k \in Nat : k * Cost \in Nat
  BY Constants
<1>3. Attempts * Cost = (n + 1) * Cost + (Attempts - (n + 1)) * Cost
  BY <1>1, Constants
<1>4. (Attempts - (n + 1)) * Cost \in Nat
  BY <1>1, <1>2, Constants
<1> QED
  BY <1>1, <1>2, <1>3, <1>4, Constants DEF Budget, Cost

(* A call more may leave one list for each of its requests.                *)
LEMMA Lists ==
  ASSUME NEW n \in Nat
  PROVE  /\ Attempts * n \in Nat
         /\ Attempts * (n + 1) = Attempts * n + Attempts
         /\ Attempts * ((n + 1) - 1) = Attempts * n
         /\ n >= 1 => Attempts * n = Attempts * (n - 1) + Attempts
         /\ Attempts * 0 = 0
BY Constants

(* The initial state satisfies the invariant.                              *)
LEMMA InitInv == Init => Inv
<1> SUFFICES ASSUME Init PROVE Inv
  OBVIOUS
<1>1. TypeOK
  BY Constants DEF Init, TypeOK
<1>2. Paced /\ Counted
  BY Constants, Costs, Lists DEF Init, Paced, Counted
<1>3. StartsFresh /\ Resting
  BY Constants DEF Init, StartsFresh, Resting
<1> QED
  BY <1>1, <1>2, <1>3 DEF Inv

(* Every step keeps the variables in their types; that of a wait holds it   *)
(* within its limit.                                                       *)
LEMMA TypeStep == TypeOK /\ Paced /\ [Next]_vars => TypeOK'
<1> SUFFICES ASSUME TypeOK, Paced, [Next]_vars PROVE TypeOK'
  OBVIOUS
<1> USE Constants DEF TypeOK, Paced
<1>1. CASE Restart
  <2>1. since' \in [Servers -> 0 .. Timeout]
    BY <1>1 DEF Restart, Capped
  <2> QED
    BY <1>1, <2>1 DEF Restart, Forget
<1>2. CASE WatchdogReset
  BY <1>2 DEF WatchdogReset, Forget
<1>3. CASE Call
  <2>1. since' \in [Servers -> 0 .. Timeout]
    BY <1>3 DEF Call
  <2>2. calls' \in 0 .. MaxCalls
    BY <1>3 DEF Call
  <2> QED
    BY <1>3, <2>1, <2>2 DEF Call, Return
<1>4. CASE Resolve
  BY <1>4 DEF Resolve, EndRequest, Server, Servers
<1>5. CASE ResolveFails
  BY <1>5 DEF ResolveFails, EndRequest
<1>6. CASE QueryAnswered
  BY <1>6 DEF QueryAnswered, EndRequest, Server, Servers
<1>7. CASE QueryTimesOut
  BY <1>7 DEF QueryTimesOut, EndRequest, Server, Servers
<1>8. CASE QueryFails
  BY <1>8 DEF QueryFails, EndRequest, Server, Servers
<1>9. CASE NapEnds
  BY <1>9 DEF NapEnds, Return
<1>10. CASE StartCounter
  BY <1>10 DEF StartCounter, Return
<1>11. CASE Tick
  BY <1>11 DEF Tick, Capped, Server, Servers
<1>12. CASE UNCHANGED vars
  BY <1>12 DEF vars, Server
<1> QED
    BY <1>1, <1>2, <1>3, <1>4, <1>5, <1>6, <1>7, <1>8, <1>9, <1>10, <1>11,
     <1>12 DEF Next

(* A tick is counted in the wait it falls into, and each wait ends in time. *)
LEMMA PacedStep == Inv /\ [Next]_vars => Paced'
<1> SUFFICES ASSUME Inv, [Next]_vars PROVE Paced'
  OBVIOUS
<1> USE Constants, Costs DEF Inv, TypeOK, Paced
<1>1. CASE Restart
  BY <1>1 DEF Restart, Forget, Capped
<1>2. CASE WatchdogReset
  BY <1>2 DEF WatchdogReset, Forget
<1>3. CASE Call
  BY <1>3 DEF Call, Return
<1>4. CASE Resolve
  BY <1>4 DEF Resolve, EndRequest, Server, Servers
<1>5. CASE ResolveFails
  BY <1>5 DEF ResolveFails, EndRequest
<1>6. CASE QueryAnswered
  BY <1>6 DEF QueryAnswered, EndRequest, Server, Servers
<1>7. CASE QueryTimesOut
  BY <1>7 DEF QueryTimesOut, EndRequest, Server, Servers
<1>8. CASE QueryFails
  BY <1>8 DEF QueryFails, EndRequest, Server, Servers
<1>9. CASE NapEnds
  BY <1>9 DEF NapEnds, Return
<1>10. CASE StartCounter
  BY <1>10 DEF StartCounter, Return
<1>11. CASE Tick
  BY <1>11 DEF Tick, Capped, Server, Servers
<1>12. CASE UNCHANGED vars
  BY <1>12 DEF vars, Server
<1> QED
    BY <1>1, <1>2, <1>3, <1>4, <1>5, <1>6, <1>7, <1>8, <1>9, <1>10, <1>11,
     <1>12 DEF Next

(* A request leaves one list, and a call makes no more than its attempts.  *)
LEMMA CountedStep == Inv /\ [Next]_vars => Counted'
<1> SUFFICES ASSUME Inv, [Next]_vars PROVE Counted'
  OBVIOUS
<1> USE Constants, Lists DEF Inv, TypeOK, Counted, LeftBefore
<1>1. CASE Restart
  BY <1>1 DEF Restart, Forget, Capped
<1>2. CASE WatchdogReset
  BY <1>2 DEF WatchdogReset, Forget
<1>3. CASE Call
  BY <1>3 DEF Call, Return
<1>4. CASE Resolve
  BY <1>4 DEF Resolve, EndRequest, Server, Servers
<1>5. CASE ResolveFails
  BY <1>5 DEF ResolveFails, EndRequest
<1>6. CASE QueryAnswered
  BY <1>6 DEF QueryAnswered, EndRequest, Server, Servers
<1>7. CASE QueryTimesOut
  BY <1>7 DEF QueryTimesOut, EndRequest, Server, Servers
<1>8. CASE QueryFails
  BY <1>8 DEF QueryFails, EndRequest, Server, Servers
<1>9. CASE NapEnds
  BY <1>9 DEF NapEnds, Return
<1>10. CASE StartCounter
  BY <1>10 DEF StartCounter, Return
<1>11. CASE Tick
  BY <1>11 DEF Tick, Capped, Server, Servers
<1>12. CASE UNCHANGED vars
  BY <1>12 DEF vars, Server
<1> QED
    BY <1>1, <1>2, <1>3, <1>4, <1>5, <1>6, <1>7, <1>8, <1>9, <1>10, <1>11,
     <1>12 DEF Next

(* Only an answer and a quiet failure lead to the start of the counter.    *)
LEMMA FreshStep == Inv /\ [Next]_vars => StartsFresh'
<1> SUFFICES ASSUME Inv, [Next]_vars PROVE StartsFresh'
  OBVIOUS
<1> USE DEF Inv, TypeOK, StartsFresh
<1>1. CASE Restart
  BY <1>1 DEF Restart, Forget, Capped
<1>2. CASE WatchdogReset
  BY <1>2 DEF WatchdogReset, Forget
<1>3. CASE Call
  BY <1>3 DEF Call, Return
<1>4. CASE Resolve
  BY <1>4 DEF Resolve, EndRequest, Server, Servers
<1>5. CASE ResolveFails
  BY <1>5 DEF ResolveFails, EndRequest
<1>6. CASE QueryAnswered
  BY <1>6 DEF QueryAnswered, EndRequest, Server, Servers
<1>7. CASE QueryTimesOut
  BY <1>7 DEF QueryTimesOut, EndRequest, Server, Servers
<1>8. CASE QueryFails
  BY <1>8 DEF QueryFails, EndRequest, Server, Servers
<1>9. CASE NapEnds
  BY <1>9 DEF NapEnds, Return
<1>10. CASE StartCounter
  BY <1>10 DEF StartCounter, Return
<1>11. CASE Tick
  BY <1>11 DEF Tick, Capped, Server, Servers
<1>12. CASE UNCHANGED vars
  BY <1>12 DEF vars, Server
<1> QED
    BY <1>1, <1>2, <1>3, <1>4, <1>5, <1>6, <1>7, <1>8, <1>9, <1>10, <1>11,
     <1>12 DEF Next

(* A query that ends by its time limit has lasted it, and time only adds.  *)
LEMMA RestingStep == Inv /\ [Next]_vars => Resting'
<1> SUFFICES ASSUME Inv, [Next]_vars PROVE Resting'
  OBVIOUS
<1> USE Constants DEF Inv, TypeOK, Resting, Paced
<1>1. CASE Restart
  BY <1>1 DEF Restart, Forget, Capped
<1>2. CASE WatchdogReset
  BY <1>2 DEF WatchdogReset, Forget
<1>3. CASE Call
  BY <1>3 DEF Call, Return
<1>4. CASE Resolve
  BY <1>4 DEF Resolve, EndRequest, Server, Servers
<1>5. CASE ResolveFails
  BY <1>5 DEF ResolveFails, EndRequest
<1>6. CASE QueryAnswered
  BY <1>6 DEF QueryAnswered, EndRequest, Server, Servers
<1>7. CASE QueryTimesOut
  BY <1>7 DEF QueryTimesOut, EndRequest, Server, Servers
<1>8. CASE QueryFails
  BY <1>8 DEF QueryFails, EndRequest, Server, Servers
<1>9. CASE NapEnds
  BY <1>9 DEF NapEnds, Return
<1>10. CASE StartCounter
  BY <1>10 DEF StartCounter, Return
<1>11. CASE Tick
  BY <1>11 DEF Tick, Capped, Server, Servers
<1>12. CASE UNCHANGED vars
  BY <1>12 DEF vars, Server
<1> QED
    BY <1>1, <1>2, <1>3, <1>4, <1>5, <1>6, <1>7, <1>8, <1>9, <1>10, <1>11,
     <1>12 DEF Next

-----------------------------------------------------------------------------
(* The inductive invariant holds in every behaviour.                       *)
THEOREM Invariant == Spec => []Inv
<1>1. Inv /\ [Next]_vars => Inv'
  BY TypeStep, PacedStep, CountedStep, FreshStep, RestingStep DEF Inv
<1> QED
  BY InitInv, <1>1, PTL DEF Spec

(* Every variable keeps its type: attempts and lists are bounded.          *)
THEOREM TypeCorrect == Spec => []TypeOK
<1>1. Inv => TypeOK
  BY DEF Inv
<1> QED
  BY Invariant, <1>1, PTL

(* set_rtc_time() succeeds only with a time of this call, or after the     *)
(* look-up that failed with errno 0.                                       *)
THEOREM Fresh == Spec => []SuccessIsFresh
<1>1. Inv => SuccessIsFresh
  BY DEF Inv, StartsFresh, SuccessIsFresh
<1> QED
  BY Invariant, <1>1, PTL

(* A call ends within the time of its requests and one nap.                *)
THEOREM WithinBudget == Spec => []InTime
<1>1. Inv => InTime
  <2> SUFFICES ASSUME Inv PROVE elapsed <= Budget
    BY DEF InTime
  <2>1. attempt \in 0 .. Attempts - 1 /\ elapsed \in Nat /\ spent \in Nat
    BY Constants DEF Inv, TypeOK
  <2> QED
    BY <2>1, Constants, Costs DEF Inv, TypeOK, Paced
<1> QED
  BY Invariant, <1>1, PTL

(* A board that has made n calls has lost at most n times the attempts.    *)
THEOREM LeaksBounded == Spec => []LeakPerCall
<1>1. Inv => LeakPerCall
  <2> SUFFICES ASSUME Inv PROVE leaked <= Attempts * calls
    BY DEF LeakPerCall
  <2>1. /\ attempt \in Nat /\ attempt + 1 <= Attempts
        /\ leaked \in Nat /\ calls \in Nat
    BY Constants DEF Inv, TypeOK
  <2> QED
    BY <2>1, Constants, Lists DEF Inv, TypeOK, Counted, LeftBefore
<1> QED
  BY Invariant, <1>1, PTL

(* No server is asked again within the time limit unless its query failed   *)
(* by itself or was cut off.                                               *)
THEOREM Paces == Spec => Spaced
<1>1. Inv /\ [Next]_vars =>
        [\A s \in Servers :
           ended'[s] = "pending" /\ ended[s] # "pending" =>
             since[s] = Timeout \/ ended[s] \in {"failed", "cut"}]_vars
  <2> SUFFICES ASSUME Inv, [Next]_vars, NEW s \in Servers,
                      ended'[s] = "pending", ended[s] # "pending"
               PROVE  since[s] = Timeout \/ ended[s] \in {"failed", "cut"}
    OBVIOUS
  <2> USE DEF Inv, TypeOK, Resting
  <2>1. CASE Restart
    BY <2>1 DEF Restart, Forget, Capped
  <2>2. CASE WatchdogReset
    BY <2>2 DEF WatchdogReset, Forget
  <2>3. CASE Call
    BY <2>3 DEF Call, Return
  <2>4. CASE Resolve
    BY <2>4 DEF Resolve, EndRequest, Server, Servers
  <2>5. CASE ResolveFails
    BY <2>5 DEF ResolveFails, EndRequest
  <2>6. CASE QueryAnswered
    BY <2>6 DEF QueryAnswered, EndRequest, Server, Servers
  <2>7. CASE QueryTimesOut
    BY <2>7 DEF QueryTimesOut, EndRequest, Server, Servers
  <2>8. CASE QueryFails
    BY <2>8 DEF QueryFails, EndRequest, Server, Servers
  <2>9. CASE NapEnds
    BY <2>9 DEF NapEnds, Return
  <2>10. CASE StartCounter
    BY <2>10 DEF StartCounter, Return
  <2>11. CASE Tick
    BY <2>11 DEF Tick, Capped, Server, Servers
  <2>12. CASE UNCHANGED vars
    BY <2>12 DEF vars, Server
  <2> QED
    BY <2>1, <2>2, <2>3, <2>4, <2>5, <2>6, <2>7, <2>8, <2>9, <2>10, <2>11, <2>12 DEF Next
<1> QED
  BY Invariant, <1>1, PTL DEF Spec, Spaced
=============================================================================
