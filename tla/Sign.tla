-------------------------------- MODULE Sign --------------------------------
(***************************************************************************)
(* The whole sign: the control loop of MainControl with what it drives -   *)
(* the boxes as Board allows update_stop() to switch them (UpdateStop      *)
(* implements it), the lamp of app/src/display/pwm_leds.c with its light   *)
(* sensor, and the firmware image that app/src/net/fota.c confirms to the  *)
(* bootloader.  A step of this module is a step of main(), of a box inside *)
(* its after_update statement, or of time.                                 *)
(***************************************************************************)
EXTENDS MainControl

CONSTANTS
  Positions,     \* the display boxes
  MaxRedirects,  \* redirects a server makes in one request; no limit in the code
  Readings       \* values the light sensor may hold

ASSUME RedirectsAssumption == MaxRedirects \in Nat
ASSUME ReadingsAssumption  == Readings \subseteq 0 .. 65535

VARIABLES
  stage,  \* of the boxes: "settled" by an update, "updating", "updated", "torn"
  lit,    \* the box is switched on
  stuck,  \* switches may fail
  lamp,   \* the PWM lights are on
  since,  \* ticks under the watchdog since the start or an update last set the sign
  hops,   \* redirects of the request in progress
  image   \* the running image: "trial", "confirmed", "unwritten", "reverted"

sign  == <<stage, lit, stuck, lamp, since, hops, image>>
whole == <<vars, sign>>

Boxes == INSTANCE Board WITH updating <- stage = "updating"

SignInit ==
  /\ Init
  /\ stage = "settled" /\ Boxes!BoardInit
  /\ lamp = FALSE /\ since = 0 /\ hops = 0
  /\ image \in {"trial", "confirmed"}

-----------------------------------------------------------------------------
TriggerLux == 10

\* get_lux(): a sensor that cannot be read counts as bright.
Lux == Readings \cup {255}

\* pwm_leds_set(): a full pulse or none; an error leaves the lamp as it is.
SetLamp == lamp' \in {lux < TriggerLux : lux \in Lux}

\* Seeded fault: a trial image is not confirmed.
ValidateNot == image' = image

\* validate_image(); that the confirmation could not be written is only logged.
Validate == image' \in IF image = "trial" THEN {"confirmed", "unwritten"} ELSE {image}

\* init_display_switches(), the lamp, validate_image(); what fails before goes
\* to reset without it.
PowerUp ==
  /\ Boot
  /\ UNCHANGED <<stage, since, hops>>
  /\ Boxes!GoDark
  /\ \/ pc' = "start_wdt" /\ SetLamp /\ Validate
     \/ pc' = "reset" /\ UNCHANGED <<lamp, image>>

Request ==
  /\ Fetch
  /\ hops' = 0
  /\ UNCHANGED <<stage, lit, stuck, lamp, since, image>>

Follow ==
  /\ Redirect
  /\ hops < MaxRedirects /\ hops' = hops + 1
  /\ UNCHANGED <<stage, lit, stuck, lamp, since, image>>

-----------------------------------------------------------------------------
(* update_stop() after its request, and what main() makes of its result.   *)

InUpdate == pc = "after_update" /\ UNCHANGED <<vars, lamp, since, hops, image>>

Sweep ==
  /\ InUpdate
  /\ stage = "settled" /\ stage' = "updating"
  /\ Boxes!Sweep

Light ==
  /\ InUpdate
  /\ UNCHANGED stage
  /\ \E p \in Positions : Boxes!Light(p)

\* update_routes() ends with every box switched and selected, or at the first
\* error of a switch or the multiplexer ("torn"); of the strip's it is not told.
EndUpdate ==
  /\ InUpdate
  /\ stage' \in {"updated", "torn"}
  /\ Boxes!EndUpdate

\* Seeded fault: only a request that failed resets the board.
SettleLenient ==
  /\ AfterUpdate
  /\ \/ pc' = "sleep" /\ stage # "updating" /\ SetLamp /\ since' = 0 /\ UNCHANGED stage
     \/ pc' = "reset" /\ stage # "updating" /\ UNCHANGED <<stage, lamp, since>>
  /\ UNCHANGED <<lit, stuck, hops, image>>

\* update_stop() returned 0: lamp and feed; else, or if they fail, reset.
Settle ==
  /\ AfterUpdate
  /\ \/ pc' = "sleep" /\ stage = "updated" /\ stage' = "settled" /\ SetLamp /\ since' = 0
     \/ pc' = "reset" /\ stage = "updated" /\ stage' = "settled" /\ SetLamp /\ UNCHANGED since
     \/ pc' = "reset" /\ stage # "updating" /\ UNCHANGED <<stage, lamp, since>>
  /\ UNCHANGED <<lit, stuck, hops, image>>

-----------------------------------------------------------------------------
\* Time counts while the watchdog does, and no longer once main has halted.
TimePasses ==
  /\ Tick
  /\ since' = IF wdtOn /\ pc # "halt" THEN since + 1 ELSE since
  /\ UNCHANGED <<stage, lit, stuck, lamp, hops, image>>

\* A reset releases the pins of boxes and lamp, and the bootloader takes back
\* an image that is not confirmed.
StartAgain ==
  /\ Reboot \/ WatchdogReset
  /\ stage' = "settled" /\ lamp' = FALSE /\ since' = 0 /\ hops' = 0
  /\ Boxes!GoDark
  /\ image' = IF image \in {"trial", "unwritten"} THEN "reverted" ELSE image

\* Every other step of main() and its interrupts.
Elsewhere ==
  /\ \/ StartWatchdog \/ LteStart \/ LteConnected \/ TakeLte \/ BootTimeSet
     \/ CheckRtc \/ SyncDone \/ CheckUpdate \/ Retry \/ FetchDone \/ EnterIdle
     \/ Reset \/ PowerOff \/ HaltFeed \/ RtcTop \/ OtherInterrupt
  /\ UNCHANGED sign

SignNext == \/ PowerUp \/ Request \/ Follow \/ Sweep \/ Light \/ EndUpdate
            \/ Settle \/ TimePasses \/ StartAgain \/ Elsewhere

SignSpec == SignInit /\ [][SignNext]_whole

-----------------------------------------------------------------------------
SignTypeOK ==
  /\ TypeOK
  /\ stage \in {"settled", "updating", "updated", "torn"}
  /\ lit \in [Positions -> BOOLEAN] /\ stuck \in BOOLEAN /\ lamp \in BOOLEAN
  /\ since \in Nat
  /\ hops \in 0 .. MaxRedirects
  /\ image \in {"trial", "confirmed", "unwritten", "reverted"}

(* Of servers that redirect a request no more than MaxRedirects times, and  *)
(* whatever fails, nothing shows on a sign that was set more than a few     *)
(* watchdog windows ago: by then it has been set again, or the board has    *)
(* restarted dark.  The windows are those of the boot, the loop and each    *)
(* attempt, and a tick may fall before a feed.                              *)
(* A debug build that has halted is the exception: its numbers stay.        *)
ShownIsRecent ==
  (wdtOn /\ pc # "halt" /\ (lamp \/ \E p \in Positions : lit[p]))
     => since <= WdtWindow * (3 + RetryCount + MaxRedirects) + 1

(* A board whose update stopped at a failed switch or multiplexer is left   *)
(* as it is, some boxes new and some still dark, and the watchdog is not    *)
(* fed for it again: it ends in a reset, all boxes dark, never in the loop  *)
(* or in a further update over it.  Only a debug build that has halted      *)
(* goes on feeding.  Errors of the strip tear no update: nothing sees them. *)
TornGoesDark ==
  [][stage = "torn" =>
       \/ stage' = "torn" /\ lit' = lit /\ (age' >= age \/ pc = "halt")
       \/ stage' = "settled" /\ (\A p \in Positions : ~lit'[p])]_whole

(* The bootloader takes an image back only if it stopped before it reached  *)
(* the watchdog, or its confirmation was refused: an image that fails at    *)
(* the network or at its first update stays, restart after restart.         *)
RevertedEarly == [][(image = "trial" /\ image' = "reverted") => ~wdtOn]_whole
=============================================================================
