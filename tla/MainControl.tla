---------------------------- MODULE MainControl ----------------------------
(***************************************************************************)
(* The control loop of the departure board: main() of app/src/main.c, with *)
(* the watchdog, the periodic update timer, the RTC callback and the three *)
(* semaphores it shares with interrupt handlers and the network code.      *)
(*                                                                         *)
(* Time is counted in ticks.  The processor runs in bursts between two     *)
(* calls that wait (Waiting): a burst is shorter than a tick, so at most   *)
(* one tick falls into it (ticked).  The update timer expires on a tick,   *)
(* its handler running at whatever statement main has reached.             *)
(*                                                                         *)
(* The build modelled is CONFIG_LIGHT_SENSOR=y, CONFIG_LED_DISPLAY_TEST=n, *)
(* with CONFIG_DEBUG either way.                                           *)
(***************************************************************************)
EXTENDS Integers

CONSTANTS
  UpdatePeriod,  \* CONFIG_UPDATE_STOP_FREQUENCY_SECONDS, in ticks
  WdtWindow,     \* CONFIG_MAX_TIME_INACTIVE_BEFORE_RESET_MS, in ticks
  RetryCount,    \* CONFIG_HTTP_REQUEST_RETRY_COUNT
  HaltNap,       \* the k_msleep(29000) of the debug halt loop, in ticks
  Debug          \* CONFIG_DEBUG

\* The Kconfig defaults are a 30 s period and a 60 s window: exactly 2 to 1.
ASSUME PeriodAssumption == UpdatePeriod \in Nat \ {0}
ASSUME WindowAssumption == WdtWindow \in Nat /\ WdtWindow >= 2 * UpdatePeriod
ASSUME RetryAssumption  == RetryCount \in Nat
ASSUME HaltAssumption   == HaltNap \in Nat \ {0} /\ Debug \in BOOLEAN

VARIABLES
  pc,         \* the statement main has reached
  wdtOn,      \* the watchdog counts
  age,        \* ticks since it was last fed
  timerOn,    \* update_stop_timer is started
  phase,      \* ticks since it was started or last expired
  updateSem,  \* update_stop_sem
  rtcSem,     \* rtc_sync_sem
  rtcOn,      \* the RTC counts towards its 24 h top value
  lteSem,     \* lte_connected_sem
  retries,    \* retry_client_error of the request in progress
  nap,        \* ticks left of the k_msleep of the halt loop
  ticked      \* a tick has fallen into the current burst

vars == <<pc, wdtOn, age, timerOn, phase, updateSem, rtcSem, rtcOn, lteSem,
          retries, nap, ticked>>

\* Calls that wait for the network; the watchdog is their only time limit.
NetworkCalls == {"lte_connect", "boot_ntp", "sync_ntp", "attempt"}

Waiting == NetworkCalls \cup {"idle", "power_off", "rebooting", "halt"}

Running == {"boot", "start_wdt", "lte", "boot_take", "loop", "check_update",
            "fetch", "after_update", "sleep", "reset"}

Goto(from, to) ==
  /\ pc = from
  /\ pc' = to
  /\ ticked' = (ticked /\ from \notin Waiting /\ to \notin Waiting)

\* wdt_feed(): age restarts, or an error is returned and nothing changes.
Feed   == age' = 0
NoFeed == UNCHANGED age

-----------------------------------------------------------------------------
(* Start-up: what a reset leaves, then the statements before the loop.     *)

Init ==
  /\ pc = "boot"  /\ ticked = FALSE
  /\ wdtOn = FALSE  /\ age = 0
  /\ timerOn = FALSE  /\ phase = 0
  /\ updateSem = 1  /\ rtcSem = 0  /\ lteSem = 1
  /\ rtcOn = FALSE  /\ retries = 0  /\ nap = 0

\* The same state, entered again.
Restart ==
  /\ pc' = "boot"  /\ ticked' = FALSE
  /\ wdtOn' = FALSE  /\ age' = 0
  /\ timerOn' = FALSE  /\ phase' = 0
  /\ updateSem' = 1  /\ rtcSem' = 0  /\ lteSem' = 1
  /\ rtcOn' = FALSE  /\ retries' = 0  /\ nap' = 0

\* Display switches, then light sensor and PWM LEDs; either failure resets.
Boot ==
  /\ \/ Goto("boot", "start_wdt")
     \/ Goto("boot", "reset")
  /\ UNCHANGED <<wdtOn, age, timerOn, phase, updateSem, rtcSem, rtcOn, lteSem,
                 retries, nap>>

\* Seeded fault: a watchdog that could not be set up is only logged.
StartWatchdogLenient ==
  /\ \/ Goto("start_wdt", "lte")   /\ wdtOn' = TRUE /\ Feed
     \/ Goto("start_wdt", "reset") /\ wdtOn' = TRUE /\ Feed
     \/ Goto("start_wdt", "lte")   /\ UNCHANGED wdtOn /\ NoFeed
  /\ UNCHANGED <<timerOn, phase, updateSem, rtcSem, rtcOn, lteSem, retries, nap>>

\* watchdog_init() and the first feed.  Once set up the watchdog never stops.
StartWatchdog ==
  /\ \/ Goto("start_wdt", "lte")   /\ wdtOn' = TRUE /\ Feed
     \/ Goto("start_wdt", "reset") /\ wdtOn' = TRUE /\ Feed
     \/ Goto("start_wdt", "reset") /\ UNCHANGED wdtOn /\ NoFeed
  /\ UNCHANGED <<timerOn, phase, updateSem, rtcSem, rtcOn, lteSem, retries, nap>>

\* lte_connect() up to lte_lc_connect(); its error returns keep the semaphore.
LteStart ==
  /\ lteSem = 1
  /\ lteSem' = 0
  /\ \/ Goto("lte", "lte_connect") /\ Feed
     \/ Goto("lte", "reset") /\ NoFeed
  /\ UNCHANGED <<wdtOn, timerOn, phase, updateSem, rtcSem, rtcOn, retries, nap>>

LteConnected ==
  /\ \/ Goto("lte_connect", "boot_take") /\ lteSem' = 1
     \/ Goto("lte_connect", "reset") /\ UNCHANGED lteSem
  /\ UNCHANGED <<wdtOn, age, timerOn, phase, updateSem, rtcSem, rtcOn, retries, nap>>

TakeLte ==
  /\ Goto("boot_take", "boot_ntp")
  /\ lteSem = 1
  /\ lteSem' = 0
  /\ UNCHANGED <<wdtOn, age, timerOn, phase, updateSem, rtcSem, rtcOn, retries, nap>>

\* set_rtc_time() returns: give, feed and start the timer; or reset, holding it.
BootTimeSet ==
  /\ \/ /\ Goto("boot_ntp", "loop") /\ Feed
        /\ lteSem' = 1 /\ rtcOn' = TRUE
        /\ timerOn' = TRUE /\ phase' = 0
     \/ /\ Goto("boot_ntp", "reset") /\ NoFeed
        /\ lteSem' = 1 /\ rtcOn' = TRUE
        /\ UNCHANGED <<timerOn, phase>>
     \/ /\ Goto("boot_ntp", "reset") /\ NoFeed
        /\ UNCHANGED <<lteSem, rtcOn, timerOn, phase>>
  /\ UNCHANGED <<wdtOn, updateSem, rtcSem, retries, nap>>

-----------------------------------------------------------------------------
(* The loop: two semaphores polled with K_NO_WAIT, then k_cpu_idle().      *)

CheckRtc ==
  /\ \/ rtcSem = 1 /\ rtcSem' = 0 /\ Goto("loop", "sync_ntp")
     \/ rtcSem = 0 /\ UNCHANGED rtcSem /\ Goto("loop", "check_update")
  /\ UNCHANGED <<wdtOn, age, timerOn, phase, updateSem, rtcOn, lteSem, retries, nap>>

\* The daily set_rtc_time(): neither lte_connected_sem nor the watchdog is touched.
SyncDone ==
  /\ \/ Goto("sync_ntp", "check_update")
     \/ Goto("sync_ntp", "reset")
  /\ UNCHANGED <<wdtOn, age, timerOn, phase, updateSem, rtcSem, rtcOn, lteSem,
                 retries, nap>>

CheckUpdate ==
  /\ \/ updateSem = 1 /\ updateSem' = 0 /\ Goto("check_update", "fetch")
     \/ updateSem = 0 /\ UNCHANGED updateSem /\ Goto("check_update", "sleep")
  /\ UNCHANGED <<wdtOn, age, timerOn, phase, rtcSem, rtcOn, lteSem, retries, nap>>

\* update_stop() to the first attempt; a feed that fails ends the request.
Fetch ==
  /\ lteSem = 1
  /\ retries' = 0
  /\ \/ Goto("fetch", "attempt") /\ Feed /\ lteSem' = 0
     \/ Goto("fetch", "reset") /\ NoFeed /\ UNCHANGED lteSem
  /\ UNCHANGED <<wdtOn, timerOn, phase, updateSem, rtcSem, rtcOn, nap>>

\* Seeded fault: retries are not counted.
RetryUncounted ==
  /\ Goto("attempt", "attempt")
  /\ retries < RetryCount
  /\ Feed
  /\ UNCHANGED <<wdtOn, timerOn, phase, updateSem, rtcSem, rtcOn, lteSem, retries, nap>>

\* goto retry after a client error, and goto retry from redirect:.
Retry ==
  /\ Goto("attempt", "attempt")
  /\ retries < RetryCount
  /\ retries' = retries + 1
  /\ Feed
  /\ UNCHANGED <<wdtOn, timerOn, phase, updateSem, rtcSem, rtcOn, lteSem, nap>>

Redirect ==
  /\ Goto("attempt", "attempt")
  /\ Feed
  /\ UNCHANGED <<wdtOn, timerOn, phase, updateSem, rtcSem, rtcOn, lteSem, retries, nap>>

\* Seeded fault: the request returns without giving the semaphore.
FetchDoneHolding ==
  /\ \/ Goto("attempt", "after_update")
     \/ Goto("attempt", "reset")
  /\ UNCHANGED <<wdtOn, age, timerOn, phase, updateSem, rtcSem, rtcOn, lteSem,
                 retries, nap>>

\* The request ends, well or not, and the semaphore is given back.
FetchDone ==
  /\ \/ Goto("attempt", "after_update")
     \/ Goto("attempt", "reset")
  /\ lteSem' = 1
  /\ UNCHANGED <<wdtOn, age, timerOn, phase, updateSem, rtcSem, rtcOn, retries, nap>>

\* Seeded fault: the loop does not feed the watchdog.
AfterUpdateUnfed ==
  /\ \/ Goto("after_update", "sleep")
     \/ Goto("after_update", "reset")
  /\ UNCHANGED <<wdtOn, age, timerOn, phase, updateSem, rtcSem, rtcOn, lteSem,
                 retries, nap>>

\* Parsing, display and light writes, and the feed; any failure resets.
AfterUpdate ==
  /\ \/ Goto("after_update", "sleep") /\ Feed
     \/ Goto("after_update", "reset") /\ NoFeed
  /\ UNCHANGED <<wdtOn, timerOn, phase, updateSem, rtcSem, rtcOn, lteSem, retries, nap>>

\* k_cpu_idle() is entered whatever happened since the semaphores were polled.
EnterIdle ==
  /\ Goto("sleep", "idle")
  /\ UNCHANGED <<wdtOn, age, timerOn, phase, updateSem, rtcSem, rtcOn, lteSem,
                 retries, nap>>

-----------------------------------------------------------------------------
(* reset: lte_disconnect(), then the debug halt loop or sys_reboot().      *)

Reset ==
  /\ Goto("reset", "power_off")
  /\ UNCHANGED <<wdtOn, age, timerOn, phase, updateSem, rtcSem, rtcOn, lteSem,
                 retries, nap>>

PowerOff ==
  /\ Goto("power_off", IF Debug THEN "halt" ELSE "rebooting")
  /\ UNCHANGED <<wdtOn, age, timerOn, phase, updateSem, rtcSem, rtcOn, lteSem,
                 retries, nap>>

\* One turn of the halt loop: nap has run out (or the loop is just entered).
HaltFeed ==
  /\ Goto("halt", "halt")
  /\ nap = 0
  /\ nap' = HaltNap
  /\ Feed \/ NoFeed
  /\ UNCHANGED <<wdtOn, timerOn, phase, updateSem, rtcSem, rtcOn, lteSem, retries>>

Reboot ==
  /\ pc = "rebooting"
  /\ Restart

\* #ifdef CONFIG_DEBUG of the reset path.
EndOfMain == IF Debug THEN HaltFeed ELSE Reboot

-----------------------------------------------------------------------------
(* Interrupts and time.                                                    *)

Expires == timerOn /\ phase = UpdatePeriod - 1

\* Seeded fault: the timer is started without a period.
TickOneShot ==
  /\ ~ticked
  /\ wdtOn => age < WdtWindow
  /\ pc = "halt" => nap > 0
  /\ age' = IF wdtOn THEN age + 1 ELSE age
  /\ nap' = IF nap > 0 THEN nap - 1 ELSE 0
  /\ phase' = IF timerOn /\ ~Expires THEN phase + 1 ELSE 0
  /\ timerOn' = (timerOn /\ ~Expires)
  /\ updateSem' = IF Expires THEN 1 ELSE updateSem
  /\ pc' = IF Expires /\ pc = "idle" THEN "loop" ELSE pc
  /\ ticked' = (pc' \notin Waiting)
  /\ UNCHANGED <<wdtOn, rtcSem, rtcOn, lteSem, retries>>

\* Seeded fault: update_stop_sem is defined without its limit of 1.
TickUnlimited ==
  /\ ~ticked
  /\ wdtOn => age < WdtWindow
  /\ pc = "halt" => nap > 0
  /\ age' = IF wdtOn THEN age + 1 ELSE age
  /\ nap' = IF nap > 0 THEN nap - 1 ELSE 0
  /\ phase' = IF timerOn /\ ~Expires THEN phase + 1 ELSE 0
  /\ updateSem' = IF Expires THEN updateSem + 1 ELSE updateSem
  /\ pc' = IF Expires /\ pc = "idle" THEN "loop" ELSE pc
  /\ ticked' = (pc' \notin Waiting)
  /\ UNCHANGED <<wdtOn, timerOn, rtcSem, rtcOn, lteSem, retries>>

\* update_stop_timeout_handler() gives the semaphore and ends k_cpu_idle().
Tick ==
  /\ ~ticked
  /\ wdtOn => age < WdtWindow
  /\ pc = "halt" => nap > 0
  /\ age' = IF wdtOn THEN age + 1 ELSE age
  /\ nap' = IF nap > 0 THEN nap - 1 ELSE 0
  /\ phase' = IF timerOn /\ ~Expires THEN phase + 1 ELSE 0
  /\ updateSem' = IF Expires THEN 1 ELSE updateSem
  /\ pc' = IF Expires /\ pc = "idle" THEN "loop" ELSE pc
  /\ ticked' = (pc' \notin Waiting)
  /\ UNCHANGED <<wdtOn, timerOn, rtcSem, rtcOn, lteSem, retries>>

WakeIdle ==
  /\ pc' = IF pc = "idle" THEN "loop" ELSE pc
  /\ UNCHANGED <<wdtOn, age, timerOn, phase, updateSem, rtcOn, lteSem, retries,
                 nap, ticked>>

\* counter_top_callback() gives rtc_sync_sem.
RtcTop ==
  /\ rtcOn
  /\ rtcSem' = 1
  /\ WakeIdle

\* Any other interrupt (the modem's, a driver's) ends k_cpu_idle().
OtherInterrupt ==
  /\ pc = "idle"
  /\ UNCHANGED rtcSem
  /\ WakeIdle

\* A burst ends before the watchdog does: it bites where main waits.
WatchdogReset ==
  /\ wdtOn
  /\ age = WdtWindow
  /\ pc \in Waiting
  /\ Restart

-----------------------------------------------------------------------------
(* Steps main takes by itself, the outcomes of network calls, and the rest. *)

Cpu == \/ Boot \/ StartWatchdog \/ LteStart \/ TakeLte \/ CheckRtc \/ CheckUpdate
       \/ Fetch \/ AfterUpdate \/ EnterIdle \/ Reset \/ EndOfMain

Network == \/ LteConnected \/ BootTimeSet \/ SyncDone \/ Retry \/ Redirect
           \/ FetchDone \/ PowerOff

Environment == Tick \/ RtcTop \/ OtherInterrupt \/ WatchdogReset

Next == Cpu \/ Network \/ Environment

Spec == Init /\ [][Next]_vars

(* The processor runs, time passes, the watchdog bites.  No network call is *)
(* assumed to return; with no watchdog yet (so no modem) power-off does.    *)
Fairness ==
  /\ WF_vars(Cpu)
  /\ WF_vars(Tick)
  /\ WF_vars(WatchdogReset)
  /\ WF_vars(PowerOff /\ ~wdtOn)

FairSpec == Spec /\ Fairness

-----------------------------------------------------------------------------
TypeOK ==
  /\ pc \in Waiting \cup Running
  /\ wdtOn \in BOOLEAN /\ timerOn \in BOOLEAN
  /\ rtcOn \in BOOLEAN /\ ticked \in BOOLEAN
  /\ updateSem \in {0, 1} /\ rtcSem \in {0, 1} /\ lteSem \in {0, 1}
  /\ age \in 0 .. WdtWindow
  /\ phase \in 0 .. UpdatePeriod - 1
  /\ retries \in 0 .. RetryCount
  /\ nap \in 0 .. HaltNap

(* An update comes round before the watchdog does: while main idles, even  *)
(* after a wake-up that fell between the K_NO_WAIT poll and k_cpu_idle()    *)
(* and was lost, the watchdog is not about to expire.                       *)
IdleIsFed == pc = "idle" => age < WdtWindow

(* main never blocks on lte_connected_sem: wherever it is taken with        *)
(* K_FOREVER the count is 1, though the error paths never give it back.     *)
SemaphoreAvailable == pc \in {"lte", "boot_take", "fetch"} => lteSem = 1

(* Every call that waits on the modem or a server without a time limit of   *)
(* its own is made with the watchdog running.                               *)
WatchdogArmed == pc \in NetworkCalls => wdtOn

(* A daily sync that no pending update follows has more than a whole update *)
(* period until the watchdog bites, though it never feeds it.  (How long a  *)
(* sync may take: TimeSync.)                                                *)
SyncHasSlack ==
  (pc = "loop" /\ rtcSem = 1 /\ updateSem = 0) => age + UpdatePeriod < WdtWindow

(* An expiry that k_cpu_idle() slept through is made good by the next one:  *)
(* the pending update (or a time sync before it) starts.                    *)
LostWakeupRecovered ==
  (pc = "idle" /\ updateSem = 1) ~> (pc \in {"fetch", "sync_ntp"})

(* The board keeps working: with finitely many redirects, again and again   *)
(* it starts an update, reboots, or has halted for a developer - whatever   *)
(* the network does, answers included that never come.                      *)
UpdatesRecur ==
  (<>[][~Redirect]_vars) => []<>(pc \in {"fetch", "boot", "halt"})
=============================================================================
