----------------------------- MODULE SignProofs -----------------------------
(***************************************************************************)
(* Proofs about the control loop, for every period, window that is at      *)
(* least two periods, retry count, nap and build; and on them about Sign,  *)
(* for every set of boxes, every sensor and every number of redirects.     *)
(***************************************************************************)
EXTENDS Sign, TLAPS

-----------------------------------------------------------------------------
(* The control loop, MainControl.                                          *)

\* The statements of the loop: update_stop_timer runs, the watchdog counts.
InLoop == {"loop", "sync_ntp", "check_update", "fetch", "attempt",
           "after_update", "sleep", "idle"}

\* Calls between lte_connect() and the loop, made with the watchdog running.
Armed == InLoop \cup {"lte", "lte_connect", "boot_take", "boot_ntp"}

LoopArmed ==
  /\ pc \in Armed => wdtOn
  /\ pc \in InLoop => timerOn

(* How old the last feed is, measured by the phase of the update timer.    *)
(* With the semaphore down, main has fed since the last expiry; asleep     *)
(* with it up, one whole period may have been lost.                        *)
FedSinceExpiry ==
  /\ (pc \in InLoop \ {"fetch"} /\ updateSem = 0) => age <= phase
  /\ (pc = "sleep" /\ ~ticked) => age <= phase
  /\ pc \in {"sleep", "idle"} => age <= phase + UpdatePeriod

\* main holds lte_connected_sem only inside a network call or past an error.
HeldByCall ==
  pc \in {"boot", "start_wdt", "lte", "boot_take", "loop", "sync_ntp",
          "check_update", "fetch", "after_update", "sleep", "idle"} => lteSem = 1

Inv == TypeOK /\ LoopArmed /\ FedSinceExpiry /\ HeldByCall

-----------------------------------------------------------------------------
(* Every counter can start from zero, and two periods fit in the window.   *)
LEMMA Bounds ==
  /\ UpdatePeriod \in Nat /\ WdtWindow \in Nat /\ RetryCount \in Nat /\ HaltNap \in Nat
  /\ UpdatePeriod >= 1 /\ WdtWindow >= 2 * UpdatePeriod
  /\ 0 \in 0 .. WdtWindow /\ 0 \in 0 .. UpdatePeriod - 1
  /\ 0 \in 0 .. RetryCount /\ 0 \in 0 .. HaltNap /\ HaltNap \in 0 .. HaltNap
BY PeriodAssumption, WindowAssumption, RetryAssumption, HaltAssumption

(* The initial state satisfies the invariant.                              *)
LEMMA InitInv == Init => Inv
<1> SUFFICES ASSUME Init PROVE Inv
  OBVIOUS
<1>1. TypeOK
  BY Bounds DEF Init, TypeOK, Waiting, Running, NetworkCalls
<1>2. LoopArmed /\ FedSinceExpiry /\ HeldByCall
  BY DEF Init, LoopArmed, FedSinceExpiry, HeldByCall, Armed, InLoop
<1> QED
  BY <1>1, <1>2 DEF Inv

(* Every step keeps the variables in their types.                          *)
LEMMA TypeStep == TypeOK /\ [Next]_vars => TypeOK'
<1> SUFFICES ASSUME TypeOK, [Next]_vars PROVE TypeOK'
  OBVIOUS
<1> USE Bounds DEF TypeOK, Waiting, Running, NetworkCalls
<1>1. CASE Boot
  BY <1>1 DEF Boot, Goto
<1>2. CASE StartWatchdog
  BY <1>2 DEF StartWatchdog, Goto, Feed, NoFeed
<1>3. CASE LteStart
  BY <1>3 DEF LteStart, Goto, Feed, NoFeed
<1>4. CASE LteConnected
  BY <1>4 DEF LteConnected, Goto
<1>5. CASE TakeLte
  BY <1>5 DEF TakeLte, Goto
<1>6. CASE BootTimeSet
  BY <1>6 DEF BootTimeSet, Goto, Feed, NoFeed
<1>7. CASE CheckRtc
  BY <1>7 DEF CheckRtc, Goto
<1>8. CASE SyncDone
  BY <1>8 DEF SyncDone, Goto
<1>9. CASE CheckUpdate
  BY <1>9 DEF CheckUpdate, Goto
<1>10. CASE Fetch
  BY <1>10 DEF Fetch, Goto, Feed, NoFeed
<1>11. CASE Retry
  BY <1>11 DEF Retry, Goto, Feed, NoFeed
<1>12. CASE Redirect
  BY <1>12 DEF Redirect, Goto, Feed, NoFeed
<1>13. CASE FetchDone
  BY <1>13 DEF FetchDone, Goto
<1>14. CASE AfterUpdate
  BY <1>14 DEF AfterUpdate, Goto, Feed, NoFeed
<1>15. CASE EnterIdle
  BY <1>15 DEF EnterIdle, Goto
<1>16. CASE Reset
  BY <1>16 DEF Reset, Goto
<1>17. CASE PowerOff
  BY <1>17 DEF PowerOff, Goto
<1>18. CASE HaltFeed
  BY <1>18 DEF HaltFeed, Goto, Feed, NoFeed
<1>19. CASE Reboot
  BY <1>19 DEF Reboot, Restart
<1>20. CASE Tick
  BY <1>20 DEF Tick, Expires
<1>21. CASE RtcTop
  BY <1>21 DEF RtcTop, WakeIdle
<1>22. CASE OtherInterrupt
  BY <1>22 DEF OtherInterrupt, WakeIdle
<1>23. CASE WatchdogReset
  BY <1>23 DEF WatchdogReset, Restart
<1>24. CASE UNCHANGED vars
  BY <1>24 DEF vars
<1>25. QED
  BY <1>1, <1>2, <1>3, <1>4, <1>5, <1>6, <1>7, <1>8, <1>9, <1>10, <1>11, <1>12, <1>13, <1>14, <1>15, <1>16, <1>17, <1>18, <1>19, <1>20, <1>21, <1>22, <1>23, <1>24 DEF Next, Cpu, EndOfMain, Network, Environment

(* The watchdog and the timer, once started, run until the restart.        *)
LEMMA ArmedStep == Inv /\ [Next]_vars => LoopArmed'
<1> SUFFICES ASSUME Inv, [Next]_vars PROVE LoopArmed'
  OBVIOUS
<1> USE DEF Inv, TypeOK, LoopArmed, Armed, InLoop, Waiting, Running, NetworkCalls
<1>1. CASE Boot
  BY <1>1 DEF Boot, Goto
<1>2. CASE StartWatchdog
  BY <1>2 DEF StartWatchdog, Goto, Feed, NoFeed
<1>3. CASE LteStart
  BY <1>3 DEF LteStart, Goto, Feed, NoFeed
<1>4. CASE LteConnected
  BY <1>4 DEF LteConnected, Goto
<1>5. CASE TakeLte
  BY <1>5 DEF TakeLte, Goto
<1>6. CASE BootTimeSet
  BY <1>6 DEF BootTimeSet, Goto, Feed, NoFeed
<1>7. CASE CheckRtc
  BY <1>7 DEF CheckRtc, Goto
<1>8. CASE SyncDone
  BY <1>8 DEF SyncDone, Goto
<1>9. CASE CheckUpdate
  BY <1>9 DEF CheckUpdate, Goto
<1>10. CASE Fetch
  BY <1>10 DEF Fetch, Goto, Feed, NoFeed
<1>11. CASE Retry
  BY <1>11 DEF Retry, Goto, Feed, NoFeed
<1>12. CASE Redirect
  BY <1>12 DEF Redirect, Goto, Feed, NoFeed
<1>13. CASE FetchDone
  BY <1>13 DEF FetchDone, Goto
<1>14. CASE AfterUpdate
  BY <1>14 DEF AfterUpdate, Goto, Feed, NoFeed
<1>15. CASE EnterIdle
  BY <1>15 DEF EnterIdle, Goto
<1>16. CASE Reset
  BY <1>16 DEF Reset, Goto
<1>17. CASE PowerOff
  BY <1>17 DEF PowerOff, Goto
<1>18. CASE HaltFeed
  BY <1>18 DEF HaltFeed, Goto, Feed, NoFeed
<1>19. CASE Reboot
  BY <1>19 DEF Reboot, Restart
<1>20. CASE Tick
  BY <1>20 DEF Tick, Expires
<1>21. CASE RtcTop
  BY <1>21 DEF RtcTop, WakeIdle
<1>22. CASE OtherInterrupt
  BY <1>22 DEF OtherInterrupt, WakeIdle
<1>23. CASE WatchdogReset
  BY <1>23 DEF WatchdogReset, Restart
<1>24. CASE UNCHANGED vars
  BY <1>24 DEF vars
<1>25. QED
  BY <1>1, <1>2, <1>3, <1>4, <1>5, <1>6, <1>7, <1>8, <1>9, <1>10, <1>11, <1>12, <1>13, <1>14, <1>15, <1>16, <1>17, <1>18, <1>19, <1>20, <1>21, <1>22, <1>23, <1>24 DEF Next, Cpu, EndOfMain, Network, Environment

(* Time passes for age and phase alike; a feed can only help.              *)
LEMMA FedStep == Inv /\ [Next]_vars => FedSinceExpiry'
<1> SUFFICES ASSUME Inv, [Next]_vars PROVE FedSinceExpiry'
  OBVIOUS
<1> USE Bounds DEF Inv, TypeOK, LoopArmed, FedSinceExpiry, Armed, InLoop, Waiting, Running,
        NetworkCalls
<1>1. CASE Boot
  BY <1>1 DEF Boot, Goto
<1>2. CASE StartWatchdog
  BY <1>2 DEF StartWatchdog, Goto, Feed, NoFeed
<1>3. CASE LteStart
  BY <1>3 DEF LteStart, Goto, Feed, NoFeed
<1>4. CASE LteConnected
  BY <1>4 DEF LteConnected, Goto
<1>5. CASE TakeLte
  BY <1>5 DEF TakeLte, Goto
<1>6. CASE BootTimeSet
  BY <1>6 DEF BootTimeSet, Goto, Feed, NoFeed
<1>7. CASE CheckRtc
  BY <1>7 DEF CheckRtc, Goto
<1>8. CASE SyncDone
  BY <1>8 DEF SyncDone, Goto
<1>9. CASE CheckUpdate
  BY <1>9 DEF CheckUpdate, Goto
<1>10. CASE Fetch
  BY <1>10 DEF Fetch, Goto, Feed, NoFeed
<1>11. CASE Retry
  BY <1>11 DEF Retry, Goto, Feed, NoFeed
<1>12. CASE Redirect
  BY <1>12 DEF Redirect, Goto, Feed, NoFeed
<1>13. CASE FetchDone
  BY <1>13 DEF FetchDone, Goto
<1>14. CASE AfterUpdate
  BY <1>14 DEF AfterUpdate, Goto, Feed, NoFeed
<1>15. CASE EnterIdle
  BY <1>15 DEF EnterIdle, Goto
<1>16. CASE Reset
  BY <1>16 DEF Reset, Goto
<1>17. CASE PowerOff
  BY <1>17 DEF PowerOff, Goto
<1>18. CASE HaltFeed
  BY <1>18 DEF HaltFeed, Goto, Feed, NoFeed
<1>19. CASE Reboot
  BY <1>19 DEF Reboot, Restart
<1>20. CASE Tick
  BY <1>20 DEF Tick, Expires
<1>21. CASE RtcTop
  BY <1>21 DEF RtcTop, WakeIdle
<1>22. CASE OtherInterrupt
  BY <1>22 DEF OtherInterrupt, WakeIdle
<1>23. CASE WatchdogReset
  BY <1>23 DEF WatchdogReset, Restart
<1>24. CASE UNCHANGED vars
  BY <1>24 DEF vars
<1>25. QED
  BY <1>1, <1>2, <1>3, <1>4, <1>5, <1>6, <1>7, <1>8, <1>9, <1>10, <1>11, <1>12, <1>13, <1>14, <1>15, <1>16, <1>17, <1>18, <1>19, <1>20, <1>21, <1>22, <1>23, <1>24 DEF Next, Cpu, EndOfMain, Network, Environment

(* The semaphore is taken only where it is available, and comes back.      *)
LEMMA HeldStep == Inv /\ [Next]_vars => HeldByCall'
<1> SUFFICES ASSUME Inv, [Next]_vars PROVE HeldByCall'
  OBVIOUS
<1> USE DEF Inv, TypeOK, HeldByCall, Waiting, Running, NetworkCalls
<1>1. CASE Boot
  BY <1>1 DEF Boot, Goto
<1>2. CASE StartWatchdog
  BY <1>2 DEF StartWatchdog, Goto, Feed, NoFeed
<1>3. CASE LteStart
  BY <1>3 DEF LteStart, Goto, Feed, NoFeed
<1>4. CASE LteConnected
  BY <1>4 DEF LteConnected, Goto
<1>5. CASE TakeLte
  BY <1>5 DEF TakeLte, Goto
<1>6. CASE BootTimeSet
  BY <1>6 DEF BootTimeSet, Goto, Feed, NoFeed
<1>7. CASE CheckRtc
  BY <1>7 DEF CheckRtc, Goto
<1>8. CASE SyncDone
  BY <1>8 DEF SyncDone, Goto
<1>9. CASE CheckUpdate
  BY <1>9 DEF CheckUpdate, Goto
<1>10. CASE Fetch
  BY <1>10 DEF Fetch, Goto, Feed, NoFeed
<1>11. CASE Retry
  BY <1>11 DEF Retry, Goto, Feed, NoFeed
<1>12. CASE Redirect
  BY <1>12 DEF Redirect, Goto, Feed, NoFeed
<1>13. CASE FetchDone
  BY <1>13 DEF FetchDone, Goto
<1>14. CASE AfterUpdate
  BY <1>14 DEF AfterUpdate, Goto, Feed, NoFeed
<1>15. CASE EnterIdle
  BY <1>15 DEF EnterIdle, Goto
<1>16. CASE Reset
  BY <1>16 DEF Reset, Goto
<1>17. CASE PowerOff
  BY <1>17 DEF PowerOff, Goto
<1>18. CASE HaltFeed
  BY <1>18 DEF HaltFeed, Goto, Feed, NoFeed
<1>19. CASE Reboot
  BY <1>19 DEF Reboot, Restart
<1>20. CASE Tick
  BY <1>20 DEF Tick, Expires
<1>21. CASE RtcTop
  BY <1>21 DEF RtcTop, WakeIdle
<1>22. CASE OtherInterrupt
  BY <1>22 DEF OtherInterrupt, WakeIdle
<1>23. CASE WatchdogReset
  BY <1>23 DEF WatchdogReset, Restart
<1>24. CASE UNCHANGED vars
  BY <1>24 DEF vars
<1>25. QED
  BY <1>1, <1>2, <1>3, <1>4, <1>5, <1>6, <1>7, <1>8, <1>9, <1>10, <1>11, <1>12, <1>13, <1>14, <1>15, <1>16, <1>17, <1>18, <1>19, <1>20, <1>21, <1>22, <1>23, <1>24 DEF Next, Cpu, EndOfMain, Network, Environment

-----------------------------------------------------------------------------
(* The inductive invariant holds in every behaviour of main().             *)
THEOREM Invariant == Spec => []Inv
<1>1. Inv /\ [Next]_vars => Inv'
  BY TypeStep, ArmedStep, FedStep, HeldStep DEF Inv
<1> QED
  BY InitInv, <1>1, PTL DEF Spec

(* Every variable keeps its type; the counters keep their bounds.          *)
THEOREM TypeCorrect == Spec => []TypeOK
<1>1. Inv => TypeOK
  BY DEF Inv
<1> QED
  BY Invariant, <1>1, PTL

(* main() never idles towards a watchdog reset, lost wake-ups included,    *)
(* for every window of at least two periods.                               *)
THEOREM IdleFed == Spec => []IdleIsFed
<1>1. Inv => IdleIsFed
  BY Bounds DEF Inv, TypeOK, FedSinceExpiry, IdleIsFed
<1> QED
  BY Invariant, <1>1, PTL

(* No k_sem_take(&lte_connected_sem, K_FOREVER) ever waits.                *)
THEOREM NeverBlocks == Spec => []SemaphoreAvailable
<1>1. Inv => SemaphoreAvailable
  BY DEF Inv, HeldByCall, SemaphoreAvailable
<1> QED
  BY Invariant, <1>1, PTL

(* No network call is made before the watchdog counts.                     *)
THEOREM CallsArmed == Spec => []WatchdogArmed
<1>1. Inv => WatchdogArmed
  BY DEF Inv, LoopArmed, Armed, InLoop, WatchdogArmed, NetworkCalls
<1> QED
  BY Invariant, <1>1, PTL

(* A daily sync starts with more than an update period to go, for every     *)
(* window of at least two periods, if no update is pending.                 *)
THEOREM SyncSlack == Spec => []SyncHasSlack
<1>1. Inv => SyncHasSlack
  BY Bounds DEF Inv, TypeOK, FedSinceExpiry, InLoop, SyncHasSlack
<1> QED
  BY Invariant, <1>1, PTL

-----------------------------------------------------------------------------
(* The sign.                                                               *)

\* Only a debug build halts, only another one reboots at the end of main().
Built == (pc = "halt" => Debug) /\ (pc = "rebooting" => ~Debug)

\* Windows a request has used up with its retries and redirects.
Attempts == 2 + retries + hops
AllAttempts == 2 + RetryCount + MaxRedirects

(* How long ago the sign was set, by the feeds main has made since: each   *)
(* is worth a window.  The first of a boot follows the start of the        *)
(* watchdog within a burst, so it is worth a single tick.                  *)
Clocked ==
  /\ pc \in {"boot", "start_wdt"} => ~wdtOn
  /\ ~wdtOn => since = 0
  /\ pc = "lte" => since <= age /\ (age = 0 \/ (age = 1 /\ ticked))
  /\ pc \in {"lte_connect", "boot_take", "boot_ntp"} => since <= age + 1
  /\ pc \in InLoop \ {"attempt", "after_update"} => since <= age + WdtWindow + 1
  /\ pc \in {"attempt", "after_update"} => since <= age + WdtWindow * Attempts + 1
  /\ pc \in {"reset", "power_off", "rebooting"} => since <= age + WdtWindow * AllAttempts + 1

\* An image on trial has not reached the watchdog.
Tried ==
  image = "trial" =>
    ~wdtOn /\ pc \in {"boot", "reset", "power_off", "rebooting", "halt"}

\* A board left half set is on its way to a reset, or halted.
Torn ==
  stage = "torn" => pc \in {"after_update", "reset", "power_off", "rebooting", "halt"}

SignTypes ==
  /\ stage \in {"settled", "updating", "updated", "torn"}
  /\ lit \in [Positions -> BOOLEAN] /\ stuck \in BOOLEAN /\ lamp \in BOOLEAN
  /\ since \in Nat
  /\ hops \in 0 .. MaxRedirects
  /\ image \in {"trial", "confirmed", "unwritten", "reverted"}

SignInv == Inv /\ SignTypes /\ Built /\ Clocked /\ Tried /\ Torn

-----------------------------------------------------------------------------
(* Every step of the sign is one of its control loop, or none; so what is  *)
(* proved of the loop holds of it.                                         *)
LEMMA LoopStep == Built /\ [SignNext]_whole => [Next]_vars
<1> SUFFICES ASSUME Built, [SignNext]_whole PROVE [Next]_vars
  OBVIOUS
<1> USE DEF Next, Cpu, Network, Environment, EndOfMain, Built
<1>1. CASE PowerUp \/ Request \/ Follow \/ Settle \/ TimePasses
  BY <1>1 DEF PowerUp, Request, Follow, Settle, TimePasses
<1>2. CASE Sweep \/ Light \/ EndUpdate
  BY <1>2 DEF Sweep, Light, EndUpdate, InUpdate
<1>3. CASE StartAgain
  <2>1. CASE Reboot
    <3>1. ~Debug
      BY <2>1 DEF Reboot
    <3> QED
      BY <2>1, <3>1
  <2>2. CASE WatchdogReset
    BY <2>2
  <2> QED
    BY <1>3, <2>1, <2>2 DEF StartAgain
<1>4. CASE Elsewhere
  <2>1. CASE HaltFeed
    <3>1. Debug
      BY <2>1 DEF HaltFeed, Goto
    <3> QED
      BY <2>1, <3>1
  <2>2. CASE ~HaltFeed
    BY <1>4, <2>2 DEF Elsewhere
  <2> QED
    BY <2>1, <2>2
<1>5. CASE UNCHANGED whole
  BY <1>5 DEF whole
<1> QED
  BY <1>1, <1>2, <1>3, <1>4, <1>5 DEF SignNext

LEMMA BuiltStep == Built /\ [Next]_vars => Built'
BY DEF Built, Next, Cpu, Network, Environment, EndOfMain, Boot, StartWatchdog, LteStart,
       TakeLte, CheckRtc, CheckUpdate, Fetch, AfterUpdate, EnterIdle, Reset, HaltFeed, Reboot,
       LteConnected, BootTimeSet, SyncDone, Retry, Redirect, FetchDone, PowerOff, Tick, RtcTop,
       OtherInterrupt, WakeIdle, WatchdogReset, Restart, Goto, vars

\* A lamp is on or off after it was set.
LEMMA LampTyped == SetLamp => lamp' \in BOOLEAN
<1> SUFFICES ASSUME SetLamp PROVE lamp' \in BOOLEAN
  OBVIOUS
<1>1. PICK lux \in Lux : lamp' = (lux < TriggerLux)
  BY DEF SetLamp
<1>2. (lux < TriggerLux) \in BOOLEAN
  OBVIOUS
<1> QED
  BY <1>1, <1>2

LEMMA SignTypesStep == SignTypes /\ [SignNext]_whole => SignTypes'
<1> SUFFICES ASSUME SignTypes, [SignNext]_whole PROVE SignTypes'
  OBVIOUS
<1> USE DEF SignTypes
<1>0. 0 \in 0 .. MaxRedirects
  BY RedirectsAssumption
<1>1. CASE PowerUp
  <2>1. lit' \in [Positions -> BOOLEAN] /\ stuck' = stuck
    BY <1>1 DEF PowerUp, Boxes!GoDark, Boxes!Dark
  <2>2. image' \in {"trial", "confirmed", "unwritten", "reverted"}
    BY <1>1 DEF PowerUp, Validate
  <2> QED
    BY <1>1, <2>1, <2>2, LampTyped DEF PowerUp
<1>2. CASE Request
  BY <1>0, <1>2 DEF Request
<1>3. CASE Follow
  BY <1>3, RedirectsAssumption DEF Follow
<1>4. CASE Sweep
  <2>1. lit' \in [Positions -> BOOLEAN]
    BY <1>4 DEF Sweep, Boxes!Sweep, Boxes!Swept, Boxes!Dark
  <2> QED
    BY <1>4, <2>1 DEF Sweep, InUpdate, Boxes!Sweep
<1>5. CASE Light
  BY <1>5 DEF Light, InUpdate, Boxes!Light
<1>6. CASE EndUpdate
  BY <1>6 DEF EndUpdate, InUpdate, Boxes!EndUpdate
<1>7. CASE Settle
  BY <1>7, LampTyped DEF Settle
<1>8. CASE TimePasses
  BY <1>8 DEF TimePasses
<1>9. CASE StartAgain
  <2>1. lit' \in [Positions -> BOOLEAN] /\ stuck' = stuck
    BY <1>9 DEF StartAgain, Boxes!GoDark, Boxes!Dark
  <2>2. image' \in {"trial", "confirmed", "unwritten", "reverted"}
    BY <1>9 DEF StartAgain
  <2> QED
    BY <1>0, <1>9, <2>1, <2>2 DEF StartAgain
<1>10. CASE Elsewhere
  BY <1>10 DEF Elsewhere, sign
<1>11. CASE UNCHANGED whole
  BY <1>11 DEF whole, sign
<1> QED
  BY <1>1, <1>2, <1>3, <1>4, <1>5, <1>6, <1>7, <1>8, <1>9, <1>10, <1>11 DEF SignNext

LEMMA TriedStep == Tried /\ [SignNext]_whole => Tried'
<1> SUFFICES ASSUME Tried, [SignNext]_whole PROVE Tried'
  OBVIOUS
<1> USE DEF Tried
<1>1. CASE PowerUp
  BY <1>1 DEF PowerUp, Boot, Goto, Validate
<1>2. CASE Request \/ Follow \/ Settle
  BY <1>2 DEF Request, Fetch, Follow, Redirect, Settle, AfterUpdate, Goto
<1>3. CASE Sweep \/ Light \/ EndUpdate
  BY <1>3 DEF Sweep, Light, EndUpdate, InUpdate, vars
<1>4. CASE TimePasses
  BY <1>4 DEF TimePasses, Tick
<1>5. CASE StartAgain
  BY <1>5 DEF StartAgain
<1>6. CASE Elsewhere
  BY <1>6 DEF Elsewhere, sign, StartWatchdog, LteStart, LteConnected, TakeLte, BootTimeSet,
              CheckRtc, SyncDone, CheckUpdate, Retry, FetchDone, EnterIdle, Reset, PowerOff,
              HaltFeed, RtcTop, OtherInterrupt, WakeIdle, Goto
<1>7. CASE UNCHANGED whole
  BY <1>7 DEF whole, vars, sign
<1> QED
  BY <1>1, <1>2, <1>3, <1>4, <1>5, <1>6, <1>7 DEF SignNext

LEMMA TornStep == Torn /\ [SignNext]_whole => Torn'
<1> SUFFICES ASSUME Torn, [SignNext]_whole PROVE Torn'
  OBVIOUS
<1> USE DEF Torn
<1>1. CASE PowerUp
  BY <1>1 DEF PowerUp, Boot, Goto
<1>2. CASE Request \/ Follow \/ Settle
  BY <1>2 DEF Request, Fetch, Follow, Redirect, Settle, AfterUpdate, Goto
<1>3. CASE Sweep \/ Light \/ EndUpdate
  BY <1>3 DEF Sweep, Light, EndUpdate, InUpdate, vars
<1>4. CASE TimePasses
  BY <1>4 DEF TimePasses, Tick
<1>5. CASE StartAgain
  BY <1>5 DEF StartAgain
<1>6. CASE Elsewhere
  BY <1>6 DEF Elsewhere, sign, StartWatchdog, LteStart, LteConnected, TakeLte, BootTimeSet,
              CheckRtc, SyncDone, CheckUpdate, Retry, FetchDone, EnterIdle, Reset, PowerOff,
              HaltFeed, RtcTop, OtherInterrupt, WakeIdle, Goto
<1>7. CASE UNCHANGED whole
  BY <1>7 DEF whole, vars, sign
<1> QED
  BY <1>1, <1>2, <1>3, <1>4, <1>5, <1>6, <1>7 DEF SignNext

-----------------------------------------------------------------------------
\* Counting in windows.
LEMMA Windows ==
  ASSUME NEW m \in Nat, NEW n \in Nat
  PROVE  /\ WdtWindow * n \in Nat
         /\ WdtWindow * (n + 1) = WdtWindow * n + WdtWindow
         /\ m <= n => WdtWindow * m <= WdtWindow * n
         /\ WdtWindow * 2 = WdtWindow + WdtWindow
<1>1. \A k \in Nat : WdtWindow * k \in Nat
  BY Bounds
<1>2. WdtWindow * n = WdtWindow * m + WdtWindow * (n - m)
  BY Bounds
<1>3. m <= n => n - m \in Nat
  OBVIOUS
<1> QED
  BY <1>1, <1>2, <1>3, Bounds

\* No request has more windows than AllAttempts.
LEMMA RequestWindows ==
  ASSUME Inv, SignTypes
  PROVE  /\ Attempts \in Nat /\ AllAttempts \in Nat /\ age \in Nat /\ age <= WdtWindow
         /\ since \in Nat
         /\ WdtWindow * Attempts \in Nat /\ WdtWindow * AllAttempts \in Nat
         /\ WdtWindow * Attempts <= WdtWindow * AllAttempts
         /\ WdtWindow + WdtWindow <= WdtWindow * AllAttempts
         /\ retries = 0 /\ hops = 0 => WdtWindow * Attempts = WdtWindow + WdtWindow
         /\ WdtWindow * (Attempts + 1) = WdtWindow * Attempts + WdtWindow
<1>1. retries \in 0 .. RetryCount /\ hops \in 0 .. MaxRedirects /\ age \in 0 .. WdtWindow
      /\ since \in Nat
  BY DEF Inv, TypeOK, SignTypes
<1>2. Attempts \in Nat /\ AllAttempts \in Nat /\ Attempts <= AllAttempts /\ 2 <= AllAttempts
      /\ age \in Nat /\ age <= WdtWindow
  BY <1>1, Bounds, RedirectsAssumption DEF Attempts, AllAttempts
<1>3. retries = 0 /\ hops = 0 => Attempts = 2
  BY DEF Attempts
<1> QED
  BY <1>1, <1>2, <1>3, Windows

LEMMA ClockedStep == Inv /\ SignTypes /\ Clocked /\ [SignNext]_whole => Clocked'
<1> SUFFICES ASSUME Inv, SignTypes, Clocked, [SignNext]_whole PROVE Clocked'
  OBVIOUS
<1> USE DEF Clocked, InLoop
<1>0. /\ Attempts \in Nat /\ AllAttempts \in Nat /\ age \in Nat /\ age <= WdtWindow
      /\ since \in Nat /\ WdtWindow \in Nat
      /\ WdtWindow * Attempts \in Nat /\ WdtWindow * AllAttempts \in Nat
      /\ WdtWindow * Attempts <= WdtWindow * AllAttempts
      /\ WdtWindow + WdtWindow <= WdtWindow * AllAttempts
      /\ AllAttempts' = AllAttempts
  BY RequestWindows, Bounds DEF AllAttempts
<1>1. CASE PowerUp
  <2>1. wdtOn = FALSE /\ since = 0
    BY <1>1 DEF PowerUp, Boot, Goto
  <2> QED
    BY <1>0, <1>1, <2>1 DEF PowerUp, Boot, Goto
<1>2. CASE Request
  <2>1. pc = "fetch" /\ wdtOn' = wdtOn /\ since' = since /\ since <= age + WdtWindow + 1
        /\ (wdtOn = FALSE => since = 0)
    BY <1>2 DEF Request, Fetch, Goto
  <2>2. CASE pc' = "attempt"
    <3>1. age' = 0 /\ retries' = 0 /\ hops' = 0
      BY <1>2, <2>2 DEF Request, Fetch, Goto, Feed
    <3>2. WdtWindow * Attempts' = WdtWindow + WdtWindow
      BY <3>1, Windows DEF Attempts
    <3> QED
      BY <1>0, <2>1, <2>2, <3>1, <3>2
  <2>3. CASE pc' = "reset" /\ age' = age
    BY <1>0, <2>1, <2>3
  <2> QED
    BY <1>2, <2>2, <2>3 DEF Request, Fetch, Goto, NoFeed
<1>3. CASE Follow \/ (Retry /\ UNCHANGED sign)
  <2>1. /\ pc = "attempt" /\ pc' = "attempt" /\ age' = 0 /\ wdtOn' = wdtOn /\ since' = since
    BY <1>3 DEF Follow, Redirect, Retry, Goto, Feed, sign
  <2>2. Attempts' = Attempts + 1
    BY <1>3, Bounds, RedirectsAssumption DEF Follow, Redirect, Retry, sign, Attempts, Inv, TypeOK, SignTypes
  <2>3. WdtWindow * Attempts' = WdtWindow * Attempts + WdtWindow
    BY <1>0, <2>2, Windows
  <2> QED
    BY <1>0, <2>1, <2>3
<1>4. CASE Sweep \/ Light \/ EndUpdate
  BY <1>4 DEF Sweep, Light, EndUpdate, InUpdate, vars, Attempts, AllAttempts
<1>5. CASE Settle
  <2>1. pc = "after_update" /\ wdtOn' = wdtOn /\ since <= age + WdtWindow * Attempts + 1
    BY <1>5 DEF Settle, AfterUpdate, Goto
  <2>2. CASE pc' = "sleep"
    <3>1. since' = 0 /\ age' = 0
      BY <1>5, <2>2 DEF Settle, AfterUpdate, Goto, Feed
    <3> QED
      BY <1>0, <2>1, <2>2, <3>1
  <2>3. CASE pc' = "reset" /\ age' = age /\ since' = since
    BY <1>0, <2>1, <2>3
  <2> QED
    BY <1>5, <2>2, <2>3 DEF Settle, AfterUpdate, Goto, NoFeed
<1>6. CASE TimePasses
  <2>1. /\ wdtOn' = wdtOn /\ retries' = retries /\ hops' = hops /\ ~ticked
        /\ age' = (IF wdtOn THEN age + 1 ELSE age)
        /\ since' = (IF wdtOn /\ pc # "halt" THEN since + 1 ELSE since)
        /\ pc' = pc \/ (pc = "idle" /\ pc' = "loop")
        /\ pc = "lte" => ticked' = TRUE
    BY <1>6 DEF TimePasses, Tick, Waiting, NetworkCalls
  <2>2. Attempts' = Attempts
    BY <2>1 DEF Attempts
  <2> HIDE DEF Attempts, AllAttempts
  <2>3. CASE wdtOn /\ pc # "halt"
    <3>1. age' = age + 1 /\ since' = since + 1
      BY <2>1, <2>3
    <3>2. pc = "lte" => age = 0
      BY <2>1
    <3> QED
      BY <1>0, <2>1, <2>2, <2>3, <3>1, <3>2
  <2>4. CASE ~wdtOn /\ pc # "halt"
    <3>1. age' = age /\ since' = 0 /\ since = 0
      BY <2>1, <2>4
    <3>2. pc = "lte" => age = 0
      BY <2>1
    <3> QED
      BY <1>0, <2>1, <2>2, <2>4, <3>1, <3>2
  <2>5. CASE pc = "halt"
    BY <2>1, <2>5
  <2> QED
    BY <2>3, <2>4, <2>5
<1>7. CASE StartAgain
  BY <1>7 DEF StartAgain, Reboot, WatchdogReset, Restart
<1>8. CASE Elsewhere /\ ~Retry
  <2>1. since' = since /\ hops' = hops
    BY <1>8 DEF Elsewhere, sign
  <2>2. CASE StartWatchdog
    <3>1. wdtOn = FALSE /\ since = 0
      BY <2>2 DEF StartWatchdog, Goto
    <3>2. pc' \in {"lte", "reset"} /\ age' \in {0, age} /\ (pc' = "lte" => age' = 0)
      BY <2>2 DEF StartWatchdog, Goto, Feed, NoFeed
    <3>3. CASE pc' = "lte"
      BY <2>1, <3>1, <3>2, <3>3
    <3>4. CASE pc' = "reset"
      <4>1. since' = 0 /\ age' \in Nat
        BY <1>0, <2>1, <3>1, <3>2
      <4>2. since' <= age' + WdtWindow * AllAttempts' + 1
        <5> HIDE DEF AllAttempts
        <5>1. WdtWindow * AllAttempts' \in Nat
          BY <1>0
        <5> QED
          BY <4>1, <5>1
      <4> QED
        BY <3>4, <4>1, <4>2
    <3> QED
      BY <3>2, <3>3, <3>4
  <2>3. CASE LteStart
    BY <1>0, <2>1, <2>3 DEF LteStart, Goto, Feed, NoFeed, Attempts, AllAttempts
  <2>4. CASE LteConnected
    BY <1>0, <2>1, <2>4 DEF LteConnected, Goto, Attempts, AllAttempts
  <2>5. CASE TakeLte
    BY <1>0, <2>1, <2>5 DEF TakeLte, Goto, Attempts, AllAttempts
  <2>6. CASE BootTimeSet
    BY <1>0, <2>1, <2>6 DEF BootTimeSet, Goto, Feed, NoFeed, Attempts, AllAttempts
  <2>7. CASE CheckRtc
    BY <1>0, <2>1, <2>7 DEF CheckRtc, Goto, Attempts, AllAttempts
  <2>8. CASE SyncDone
    BY <1>0, <2>1, <2>8 DEF SyncDone, Goto, Attempts, AllAttempts
  <2>9. CASE CheckUpdate
    BY <1>0, <2>1, <2>9 DEF CheckUpdate, Goto, Attempts, AllAttempts
  <2>10. CASE FetchDone
    BY <1>0, <2>1, <2>10 DEF FetchDone, Goto, Attempts, AllAttempts
  <2>11. CASE EnterIdle
    BY <1>0, <2>1, <2>11 DEF EnterIdle, Goto, Attempts, AllAttempts
  <2>12. CASE Reset
    BY <1>0, <2>1, <2>12 DEF Reset, Goto, Attempts, AllAttempts
  <2>13. CASE PowerOff
    BY <1>0, <2>1, <2>13 DEF PowerOff, Goto, Attempts, AllAttempts
  <2>14. CASE HaltFeed
    BY <1>0, <2>1, <2>14 DEF HaltFeed, Goto, Attempts, AllAttempts
  <2>15. CASE RtcTop
    BY <1>0, <2>1, <2>15 DEF RtcTop, WakeIdle, Attempts, AllAttempts
  <2>16. CASE OtherInterrupt
    BY <1>0, <2>1, <2>16 DEF OtherInterrupt, WakeIdle, Attempts, AllAttempts
  <2> QED
    BY <1>8, <2>2, <2>3, <2>4, <2>5, <2>6, <2>7, <2>8, <2>9, <2>10, <2>11, <2>12, <2>13, <2>14, <2>15, <2>16 DEF Elsewhere
<1>9. CASE UNCHANGED whole
  BY <1>9 DEF whole, vars, sign, Attempts, AllAttempts
<1> QED
  BY <1>1, <1>2, <1>3, <1>4, <1>5, <1>6, <1>7, <1>8, <1>9 DEF SignNext, Elsewhere

-----------------------------------------------------------------------------
LEMMA SignInvInit == SignInit => SignInv
<1> SUFFICES ASSUME SignInit PROVE SignInv
  OBVIOUS
<1>1. Inv
  BY InitInv DEF SignInit
<1>2. pc = "boot" /\ wdtOn = FALSE
  BY DEF SignInit, Init
<1>3. SignTypes
  <2>1. lit \in [Positions -> BOOLEAN] /\ stuck \in BOOLEAN
    BY DEF SignInit, Boxes!BoardInit, Boxes!Dark
  <2>2. hops \in 0 .. MaxRedirects
    BY RedirectsAssumption DEF SignInit
  <2> QED
    BY <2>1, <2>2 DEF SignInit, SignTypes
<1>4. Built /\ Clocked /\ Tried /\ Torn
  BY <1>2 DEF SignInit, Built, Clocked, Tried, Torn, InLoop
<1> QED
  BY <1>1, <1>3, <1>4 DEF SignInv

LEMMA SignInvStep == SignInv /\ [SignNext]_whole => SignInv'
<1> SUFFICES ASSUME SignInv, [SignNext]_whole PROVE SignInv'
  OBVIOUS
<1>1. [Next]_vars
  BY LoopStep DEF SignInv
<1>2. Inv'
  BY <1>1, TypeStep, ArmedStep, FedStep, HeldStep DEF SignInv, Inv
<1>3. SignTypes' /\ Built' /\ Clocked' /\ Tried' /\ Torn'
  BY <1>1, SignTypesStep, BuiltStep, ClockedStep, TriedStep, TornStep DEF SignInv
<1> QED
  BY <1>2, <1>3 DEF SignInv

(* The inductive invariant of the sign, that of its control loop included. *)
THEOREM SignInvariant == SignSpec => []SignInv
BY SignInvInit, SignInvStep, PTL DEF SignSpec

(* What main() does on the sign is what MainControl lets it do: the boxes,  *)
(* the lamp and the image only narrow it, so every safety property of the  *)
(* loop is one of the sign.                                                *)
THEOREM ImplementsLoop == SignSpec => Spec
<1>1. SignInit => Init
  BY DEF SignInit
<1>2. SignInv /\ [SignNext]_whole => [Next]_vars
  BY LoopStep DEF SignInv
<1> QED
  BY SignInvariant, <1>1, <1>2, PTL DEF SignSpec, Spec

(* Every variable of the sign keeps its type.                              *)
THEOREM SignTypeCorrect == SignSpec => []SignTypeOK
<1>1. SignInv => SignTypeOK
  BY DEF SignInv, Inv, SignTypes, SignTypeOK
<1> QED
  BY SignInvariant, <1>1, PTL

(* However many retries and redirects a request makes, and whatever fails, *)
(* nothing shows on a sign that was set more than a window for each feed   *)
(* and a tick ago.                                                         *)
THEOREM ShownRecently == SignSpec => []ShownIsRecent
<1>1. SignInv => ShownIsRecent
  <2> SUFFICES ASSUME SignInv, wdtOn, pc # "halt"
               PROVE  since <= WdtWindow * (3 + RetryCount + MaxRedirects) + 1
    BY DEF ShownIsRecent
  <2>1. /\ AllAttempts \in Nat /\ age \in Nat /\ age <= WdtWindow /\ since \in Nat
        /\ WdtWindow * Attempts \in Nat /\ WdtWindow * AllAttempts \in Nat
        /\ WdtWindow * Attempts <= WdtWindow * AllAttempts
        /\ WdtWindow + WdtWindow <= WdtWindow * AllAttempts
    BY RequestWindows DEF SignInv
  <2>2. since <= age + WdtWindow * AllAttempts + 1
    <3>1. pc \in Waiting \cup Running
      BY DEF SignInv, Inv, TypeOK
    <3>2. WdtWindow \in Nat
      BY Bounds
    <3> HIDE DEF AllAttempts, Attempts
    <3>3. CASE pc \in {"attempt", "after_update"}
      BY <2>1, <3>3 DEF SignInv, Clocked
    <3>4. CASE pc \in InLoop \ {"attempt", "after_update"}
      BY <2>1, <3>2, <3>4 DEF SignInv, Clocked
    <3>5. CASE pc \in {"reset", "power_off", "rebooting"}
      BY <2>1, <3>5 DEF SignInv, Clocked
    <3>6. CASE pc \in {"lte", "lte_connect", "boot_take", "boot_ntp", "boot", "start_wdt"}
      BY <2>1, <3>6 DEF SignInv, Clocked
    <3> QED
      BY <3>1, <3>3, <3>4, <3>5, <3>6 DEF InLoop, Waiting, Running, NetworkCalls
  <2>3. AllAttempts + 1 = 3 + RetryCount + MaxRedirects
    BY Bounds, RedirectsAssumption DEF AllAttempts
  <2>4. WdtWindow * (AllAttempts + 1) = WdtWindow * AllAttempts + WdtWindow
    BY <2>1, Windows
  <2> QED
    <3> HIDE DEF AllAttempts
    <3>1. WdtWindow \in Nat
      BY Bounds
    <3> QED
      BY <2>1, <2>2, <2>3, <2>4, <3>1
<1> QED
  BY SignInvariant, <1>1, PTL

(* Feeding takes leaving the statement a torn update ended in.             *)
LEMMA TornStill ==
  Inv /\ Torn /\ stage = "torn" /\ [SignNext]_whole =>
    \/ stage' = "torn" /\ lit' = lit /\ (age' >= age \/ pc = "halt")
    \/ stage' = "settled" /\ (\A p \in Positions : ~lit'[p])
<1> SUFFICES ASSUME Inv, Torn, stage = "torn", [SignNext]_whole
             PROVE  \/ stage' = "torn" /\ lit' = lit /\ (age' >= age \/ pc = "halt")
                    \/ stage' = "settled" /\ (\A p \in Positions : ~lit'[p])
  OBVIOUS
<1>0. pc \in {"after_update", "reset", "power_off", "rebooting", "halt"} /\ age \in Nat
  BY DEF Torn, Inv, TypeOK
<1>1. CASE PowerUp
  BY <1>0, <1>1 DEF PowerUp, Boot, Goto
<1>2. CASE Request \/ Follow
  BY <1>0, <1>2 DEF Request, Fetch, Follow, Redirect, Goto
<1>3. CASE Sweep \/ Light \/ EndUpdate
  BY <1>3 DEF Sweep, Light, EndUpdate, InUpdate, Boxes!Light, Boxes!EndUpdate
<1>4. CASE Settle
  BY <1>0, <1>4 DEF Settle, AfterUpdate, Goto, NoFeed
<1>5. CASE TimePasses
  BY <1>0, <1>5 DEF TimePasses, Tick
<1>6. CASE StartAgain
  BY <1>6 DEF StartAgain, Boxes!GoDark, Boxes!Dark
<1>7. CASE Elsewhere
  BY <1>0, <1>7 DEF Elsewhere, sign, StartWatchdog, LteStart, LteConnected, TakeLte, BootTimeSet,
              CheckRtc, SyncDone, CheckUpdate, Retry, FetchDone, EnterIdle, Reset, PowerOff,
              HaltFeed, RtcTop, OtherInterrupt, WakeIdle, Goto
<1>8. CASE UNCHANGED whole
  BY <1>0, <1>8 DEF whole, vars, sign
<1> QED
  BY <1>1, <1>2, <1>3, <1>4, <1>5, <1>6, <1>7, <1>8 DEF SignNext

(* A board whose update stopped at a failed switch or multiplexer stays as *)
(* it is, unfed, until a reset has darkened all of its boxes, however many *)
(* there are; a debug build that has halted is the exception.              *)
THEOREM TornDarkens == SignSpec => TornGoesDark
<1>1. SignInv /\ [SignNext]_whole =>
        [stage = "torn" =>
           \/ stage' = "torn" /\ lit' = lit /\ (age' >= age \/ pc = "halt")
           \/ stage' = "settled" /\ (\A p \in Positions : ~lit'[p])]_whole
  BY TornStill DEF SignInv
<1> QED
  BY SignInvariant, <1>1, PTL DEF SignSpec, TornGoesDark

(* The bootloader takes back an image on trial only while the watchdog has *)
(* not been started: one that got as far as the network stays.             *)
THEOREM RevertsEarly == SignSpec => RevertedEarly
<1>1. SignInv => (image = "trial" => ~wdtOn)
  BY DEF SignInv, Tried
<1>2. SignInv /\ [SignNext]_whole => [(image = "trial" /\ image' = "reverted") => ~wdtOn]_whole
  BY <1>1
<1> QED
  BY SignInvariant, <1>2, PTL DEF SignSpec, RevertedEarly
=============================================================================
