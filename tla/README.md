# TLA+ models of the embedded departure board

The firmware under `app/` runs on a Nordic nRF9160 with Zephyr. Every 30 seconds
it asks a transit server for the predictions of one stop, and shows the minutes
to the next departure of each route on a set of LED boxes. This directory holds
TLA+ models of its core, TLC configurations that check them on small instances,
and proofs checked by TLAPS. Paths below are relative to the repository;
`custom_http_client.c` and the like are under `app/src`.

- [The system](#the-system): inventory of components
- [Modules](#modules): what is modelled and how it corresponds to the code
- [Runs](#runs), [Bounds](#bounds), [Fairness](#fairness)
- [Proofs](#proofs)
- [Findings](#findings): where the code and its comments disagree
- [Not modelled](#not-modelled) and [Plan](#plan)

`PROJECT.json` lists the same things in a form for tools: for each definition
the source lines it models, for each hazard the properties aimed at it, and for
each property a seeded fault that breaks it.

    tlc -config MainControl.cfg MainControl           # likewise the other runs
    tlapm SignProofs.tla                              # likewise the other *Proofs.tla

## The system

There is one application thread, `main()`. Two interrupt sources talk to it through
semaphores of count at most 1; a third semaphore guards the modem. Everything
else is called from `main()` and returns to it.

    update_stop_timer --give--> update_stop_sem --poll--+
    RTC 24 h top      --give--> rtc_sync_sem    --poll--+--> main()
                                                              |
           +-------------+--------------+---------------+-----+--------+
           v             v              v               v              v
      watchdog       lte_connect    set_rtc_time    update_stop    get_lux,
      feed           (modem)        -> get_ntp_time   |            pwm_leds_set
                         |              |             |
                     lte_connected_sem  +-- sockets   +-> http_request_stop_json
                                                      +-> parse_swiftly_json
                                                      +-> display_off, display_on,
                                                          write_num_to_display

| Component | State it keeps | Operations | What makes it correct |
|---|---|---|---|
| Control loop, `main.c` | where `main()` is | boot, poll, idle, reset | it never idles into the watchdog, never blocks on a semaphore, and always comes round to the next update |
| Watchdog, `watchdog_app.c` | channel, time since the last feed | init, feed | runs whenever something may wait for ever |
| Update timer, `update_stop.c:14-16,122-124` | phase, `update_stop_sem` | start, expire | expiries during a long update coalesce; one that is lost is made good |
| HTTP client, `net/custom_http_client.c` | `rc`, retries, `errno`, host and path pointers, header and body buffers, socket, address list, `lte_connected_sem` | request; attempt, retry, redirect | a success means what its caller takes it to mean; nothing leaks; redirects go where they say; the call ends |
| Stop update, `update_stop.c` | the static `Stop`, `times[]` | update, pick the lowest minutes of each box | boxes show this response's lowest minutes, and no box shows another's or an older number |
| Switches, multiplexer, LED strip, `display/` | which boxes are lit, LED memory, active port, pixel buffer | init, on, off, write a number | a lit box shows the number that was meant, in digits one can read |
| Predictions parser, `json/parse_swiftly.c`, `json/json_helpers.c` | token index, the `Stop` it fills | parse | index stays aligned with the keys; every field read belongs to its object |
| Tokenizer, `json/jsmn.h` (vendored) | position, parent token | tokenise | tokens nest; the pool is not overrun, and holds every response the code expects |
| Clock, `real_time_counter.c`, `net/ntp.c` | RTC, `rtc_mutex`, `time_stamp` | set the time, read it, daily callback | a success means a new time; a sync fits the watchdog window |
| LTE manager, `net/lte_manager.c` | modem, `lte_connected_sem` | connect, disconnect, provision | given back once connected |
| Lights, `display/pwm_leds.c`, `light_sensor.c` | lamp on or off | set, read | follows the last reading, and is dark when the sign is |
| Image confirmation, `net/fota.c` | MCUboot's trial flag | confirm | only an image that works is confirmed |
| Configuration, `Kconfig`, `*.conf`, `dts` | – | – | values of the constants below |

What is hard here, and hardly reached by a test on a bench:

- *Interrupts.* The loop polls its semaphores with `K_NO_WAIT` and then calls
  `k_cpu_idle()`. An expiry in between is a wake-up lost. The watchdog window
  is exactly two update periods.
- *Waits without a limit.* `connect`, `recv`, `getaddrinfo` and `lte_lc_connect`
  may wait for ever; the watchdog is the only timeout.
- *Leftovers.* `rc`, `errno`, the header buffer, the redirect buffer, the body
  buffer and the parsed stop all outlive the attempt or call that wrote them,
  and later steps read them.
- *Partial failure.* Any peripheral and any socket call may fail at any use.
- *Sizes taken on trust.* Header buffer, token pool and the arrays of the `Stop` are each
  filled by what a server sends; only the pool is compared with it.
- *Sequences.* A chain of redirects, or of updates with odd responses, reaches
  states no single one does.

The full list, with lines, is under "hazards" in `PROJECT.json`.

## Modules

How they hang together: `A -> B` reads "A uses B".

    MainControl  <- Sign -> Board <-(implements)- UpdateStop -> Stop, LedDisplay
                                                  MCUpdateStop -> UpdateStop
    StopFetch <-(implements)- HttpClient <- MCHttpClient        HeaderScan
    Stop, Jsmn, JsonText, Response <- ParseSwiftly <- MCParseSwiftly
    TimeSync

Each module with theorems about it has them in a module of their own, `X <- XProofs`; those about the parser
are three, each built on the one before:

    ParseSwiftlyProofs <- TokenizerProofs <- WalkProofs
    SignProofs (with MainControl's)        UpdateStopProofs (with LedDisplay's)
    HttpClientProofs    HeaderScanProofs    TimeSyncProofs

Three abstract modules carry one component's promise to the next. `StopFetch` says
what a request may leave behind: `HttpClient` implements it, and `UpdateStop`'s `Fetch`
(a body, an old body, or a failure) is its caller. `Stop` says what the parser makes of a body: `ParseSwiftly`
is checked to produce it and `UpdateStop` starts from it. `Board` says what an update does to the
boxes: `UpdateStop` is proved to implement it, and `Sign` composes it with the control loop. `Sign` in turn
is proved to do nothing that `MainControl` does not.

### MainControl – `main()` with watchdog, timer, RTC and semaphores

`pc` is the statement `main()` has reached. Statements where the thread waits
(a network call, `k_cpu_idle()`, the naps of the reset path) are `Waiting`; what runs
between two of them is a burst, much shorter than a tick of 10 s, so that at most
one tick falls into a burst (`ticked`). Interrupts are actions of their own,
enabled at every `pc`: `Tick` (time passes; on an expiry the handler
`update_stop_timeout_handler` gives the semaphore and ends `k_cpu_idle()`), `RtcTop`
(`counter_top_callback`), `OtherInterrupt`. The lost wake-up is thus a behaviour
of the model: `CheckUpdate` finds the semaphore down, `Tick` gives it at
`pc = "sleep"`, `EnterIdle` goes to sleep all the same.

| Action | Code |
|---|---|
| `Boot`, `StartWatchdog` | `main.c` up to the first feed, `watchdog_app.c` |
| `LteStart`, `LteConnected`, `TakeLte` | `lte_connect()` and the take after it; error returns keep the semaphore |
| `BootTimeSet` | `set_rtc_time()`, give, feed, `k_timer_start()` |
| `CheckRtc`, `SyncDone` | the daily sync: no semaphore, no feed |
| `CheckUpdate`, `Fetch`, `Retry`, `Redirect`, `FetchDone` | the update's request: each attempt feeds |
| `AfterUpdate`, `EnterIdle` | display, lights, feed; `k_cpu_idle()` |
| `Reset`, `PowerOff`, `EndOfMain` (`HaltFeed` or `Reboot`) | `reset:` in the debug and in the release build |
| `WatchdogReset` | the hardware |

### Sign – the whole sign

Every step of `MainControl`, with what `main()` drives: the boxes (through `Board`), the lamp,
the firmware image. `update_stop()`'s share of `after_update` is taken apart into `Sweep`,
`Light`, `EndUpdate` and `Settle`, so ticks and the watchdog fall between two boxes. `EndUpdate` ends it as "updated" when no switch
and no multiplexer call failed, else as "torn"; that a strip failed is ignored by `write_num_to_display()` (`led_display.c:88-101`), so what the
boxes of an updated sign show is `UpdateStop`'s question and not this module's.
`PowerUp` is `Boot` with `init_display_switches()`, `pwm_leds_set(get_lux())` and `validate_image()`;
`StartAgain` is any reset, after which the pins are inactive again and the bootloader takes back an
image that is not confirmed (MCUboot's swap mode, as `prj.conf` builds it: an assumption on code outside this repository, as is that a
reset releases the pins). `since` counts ticks since the sign was last set. Each request makes at most `MaxRedirects` redirects here: finding 3 is why.

### StopFetch and HttpClient – the request

`StopFetch` is the abstract interface: what `update_stop()` may rely on. A call is
busy or not; on return the semaphore is given; a success leaves in the body
buffer an answer's body or the untouched buffer of an earlier call, never
one that is half written.

`HttpClient` is the detailed client: one action per step of `send_http_request()`
between two labels or library calls. `pc` names the label or the call it waits in.
`rc` keeps the code's numbers (0, -2 redirect, -3 retry, -4 and -5 failures; -1 is
turned into -3 by the caller). `hostPtr` and `pathPtr` model the pointers: to the static
strings, or into `redirect_hostname_buf` (`buf0` its start, `buf1` the path after
the host), so that what a later `strcpy` does to an earlier string is seen.
`CleanUp` takes `zsock_close()` of an open socket to release it even when it reports an error, which the code only logs (Zephyr frees
the descriptor). `headers` is what `headers_buf` holds: the request itself until the answer overwrites it,
and a `Location:` of each kind the code tells apart. `errno` is zero
until something fails and is never cleared, because `getaddrinfo()` failing returns
`errno`, which may be 0. The one history variable is `answered`. Calls follow each
other without end; after a failure, or in a wait, the board may restart.

### HeaderScan – where the headers end

The byte automaton of `parse_headers()`, which `HttpClient` leaves to a choice in `ReceiveHeaders`.
A byte is CR, LF or another. A stream that ends makes the automaton look once more at a byte that
was not received – the buffer still holds the request – and that byte is arbitrary here. The size of the buffer is not modelled: `parse_headers()`
gets it and never looks at it, so longer headers overrun it, and what follows is not the automaton's.

### Stop, Jsmn, JsonText, Response and ParseSwiftly – from text to the `Stop`

`Jsmn` is the tokenizer over lexemes: brackets, strings, plain values, colon and comma, a string cut in the middle,
a character no JSON has. `toksuper`, the pool, the search for the open container on a closing bracket or a
comma, and the error codes are as in `jsmn_parse()`; positions are not kept, a token has its text instead.

`ParseSwiftly` runs the five nested loops as one machine: `t` is the token index, `left[l]` the
rounds each loop has left. The loops over the keys of an object share `PlainKey`, `EnterList`,
`BreakList`; those over lists share `EnterObject`, `LeaveList`; what differs between them (the key they descend at, the
correction `t - 3`, `t - 2` or none on the way out) are small tables. The function's locals go at `Return`, the stop stays. Only the outermost loop
compares `t` with the number of tokens, and no loop compares its element with the array it writes to. `Known` says that a step needs neither: what it looks at was
allocated, what it writes to exists. A step that is not ends the model: the walk is `astray` (`Stray`), since what the rest of the array on the stack and what is behind
the `Stop` hold decides what follows, and only a reset (`Restart`) surely leads back. A text may be cut at any
lexeme (`Cut`): the connection was closed early.

`JsonText` is the reference for the tokenizer. It says by positions, without reading from left to right, what lexemes make: `Matched` (every closing
bracket has an opening one of its type with as many opened as closed between them), `Counts` (which token counts which), `TokensOf`
(the tokens of a text). `Response` is the reference for the parser: what the tokens of a response say when it is laid out as the code
expects, and where each of its objects is. It names positions only (`After` an object come the elements of the list it ends in), so that an
object may have any keys in any order, as long as the one with the list is the last.

Three assumptions tie each of the `Inputs` to the two, and TLC evaluates them all on the texts of the run, whose
tokens are made from trees: a body is readable exactly when the text is a response, however many tokens it makes, and no beginning of a text is one
(`BodiesAssumption`); the tokens given for a balanced text are `TokensOf` it (`TokensAssumption`); a text that is said to be laid out as expected is, has no list
longer than its array (`Overlong`), and says what it is said to (`LayoutAssumption`). None of them keeps a text short: texts too long for the pool or for the arrays are among the `Inputs`.

### LedDisplay, UpdateStop and Board – from the `Stop` to the boxes

`LedDisplay` computes the pixels of a number from the code's `digit_segment_map`, offsets and panel
stride; `Expected` is the reference, from the usual names of the seven bars.

`UpdateStop` is `update_stop()` with `update_routes()`, `get_display_address()`, `display_on/off()` and
`write_num_to_display()`, update after update over the static `Stop`. A response is
what the parser makes of it: its routes, destinations and minutes, or one of the kinds that make the parser
return early. `times[]`, its comparison of `int` with
`unsigned int` and its use of 0 as "no number" are as in the code. `lit` is the
power switch of a box and `shown` the picture in its LEDs, which survives being switched
off. A sign is in order or `broken`, from the start; on a broken one each use of
each peripheral in `Faults` may fail. A strip that fails may have taken the lower digits already (`Sent`).

### TimeSync – setting the clock

`set_rtc_time()`, `get_ntp_time()` and `ntp_request()`: the primary server, then the fallback, each `Retries` times; the
nap after the last; the top value and the counter. `errno` may be 0 when a look-up fails, and then
the request counts as answered. `Resolve` allocates an address list nobody frees. Calls repeat
daily; `Restart` is the reset path of `main()`, `WatchdogReset` the watchdog ending a call in any of its waits, after which
the servers remember when they were asked and the board does not.

## Runs

| Run | Checks | Question |
|---|---|---|
| `main` | `TypeOK`, `IdleIsFed`, `SemaphoreAvailable`, `WatchdogArmed`, `SyncHasSlack`, `LostWakeupRecovered`, `UpdatesRecur` | Interrupted anywhere, does `main()` idle towards a watchdog reset, block on a semaphore, wait on the network unguarded, or start the daily sync with too little of the window left? Is a lost wake-up made good, and does the sign keep updating or rebooting although no network call need ever return? |
| `sign` | `SignTypeOK`, `ShownIsRecent`, `TornGoesDark`, `RevertedEarly` | Composed with the debug build: how old may be what a passenger reads, does a sign whose update stopped half way always go dark, and which images does the bootloader take back? |
| `http` | `TypeOK`, `SuccessBody`, `Released`, `PathIsPath`, `FollowsAnswer`, `ImplementsStopFetch`, `CallEnds` | What does a request leave behind, through every failure, retry and redirect, and does it end? |
| `headers` | `StopsAtBlankLine`, `NoAnswerWithoutEnd` | Does the header automaton stop at the first blank line, and what can a stream that ends early make of it? |
| `parse` | `TypeOK`, `FitsArrays`, `TokensMatchText`, `SucceedsOnWhole`, `ReadsStop`, `ReadsAllocated`, `ParserReturns` | Which texts, whole, cut, malformed or too long, succeed, which give the stop they say, and which lead the walk out of its tokens or its arrays? |
| `display` | `TypeOK`, `ShowsLowest`, `LitIsCurrent`, `FromThisResponse`, `NamedAreLit`, `OnlyItsOwnDigits`, `ImplementsBoard` | Which numbers end up where, in which pixels – on a sign in order and on one whose every peripheral may fail? |
| `time` | `TypeOK`, `SuccessIsFresh`, `InTime`, `LeakPerCall`, `Spaced` | Does a sync that succeeds bring a new time, how long may it take, what does it leave allocated, and how soon is a server asked again? |
| `http_stale`, `http_host`, `http_loop`, `pool`, `due_now` | one property each, violated | The [findings](#findings). |

What some of them say, and do not:

- `SuccessBody` is as weak as the code makes it: a success with an old body is possible
  (finding 1), and the property says when – exactly if no answer was received.
- `FromThisResponse` likewise names the case in which old numbers are shown: an empty
  list in the response. `ShowsLowest` leaves out boxes with a departure in 0 minutes (finding 5). The first four properties of `display`
  after `TypeOK` but `NamedAreLit` are about a sign in order; `NamedAreLit`, `OnlyItsOwnDigits` and `ImplementsBoard` hold on a broken one too.
- `ShownIsRecent` is about when the sign was *set*. How old the data was is `SuccessBody`'s and `FromThisResponse`'s
  question. A halted debug build is excepted: it feeds the watchdog and leaves the boxes lit. Redirects count into the bound, so of a server that
  redirects for ever (finding 3) it says nothing.
- `TornGoesDark` is about updates that stop at a switch or the multiplexer. An error of the strip stops none: `write_num_to_display()` drops it,
  `update_stop()` returns 0 and `main()` idles on a box half written. Of such a box `OnlyItsOwnDigits` says all there is to say.
- `RevertedEarly` states what the early confirmation in `main.c` amounts to: a new image that cannot
  reach the network is never taken back.
- `SyncHasSlack` and `InTime` belong together: the first says that more than an update period of the watchdog window is left when the
  daily sync starts with no update pending, the second how long a sync takes. With an update pending too, the sync still
  comes first, on a feed that may be a period older; then the code guarantees no slack, and the watchdog may end the sync.
- `SuccessIsFresh` names the exception, a failed look-up with `errno` 0.
- `Spaced` is what is left of the advice in `app/Kconfig` not to ask an NTP server more often than
  every 4 s: a request that failed by itself is repeated at once, and one that the watchdog cut off as soon as the board is back.
- `FitsArrays` excepts a text that lists more routes or destinations than there is room for. The request names a stop and a number of predictions and limits neither
  list (`custom_http_client.c:18-20`), the code checks neither, and such a text does write past the array: in the run it leads astray. What the property says is that no
  *other* text does, in whatever layout, after whatever other texts.
- `SucceedsOnWhole` says which texts succeed, those too large for the pool among the others refused. That the pool holds what the code expects is another
  question, and false: finding 4.
- `ReadsStop` and `ReadsAllocated` hold of texts that are laid out as the corrections `t - 2` and `t - 3` expect (lists last in their
  objects, one prediction a destination at most). Of others nothing is claimed of what is read: the walk may realign on another
  object's key and keep its value, or go astray; `FitsArrays`, `SucceedsOnWhole` and `ParserReturns` still hold of them.

`CHECK_DEADLOCK` is on in every run: the program never stops (a halted
debug build goes on feeding).

## Bounds

- *MainControl*: a tick is 10 s, period 3 ticks, window 6, debug nap 3, as the Kconfig
  defaults of 30 s, 60 s and 29 s; one retry as configured. The ratio 2 to 1 of window
  and period is the tightest the assumption allows. `age` and `phase` are bounded by the
  window and the period, so the state space is finite without further bounds.
- *Sign*: period 2, window 4 (the same ratio), one retry, one redirect, two boxes, a dark and a bright
  reading on either side of the threshold. The bound of `ShownIsRecent` is reached (`since` = 21), so none smaller holds. Two
  boxes are enough to be caught between.
- *HttpClient*: `RetryCount` 1 as configured; one host and one path besides the
  configured ones. Pointers and buffer have one place each for a host and a
  path, so a second foreign host could add no new aliasing. Redirects are unbounded; errno
  and body are abstract, so the state space is finite. The proofs lift
  the bounds.
- *HeaderScan*: all streams of up to 8 bytes, twice the blank line the automaton of four states looks for.
- *ParseSwiftly*: two routes of two departures, pool 138 by the code's formula. The texts are a full stop with the eight keys of a prediction that the
  pool counts (137 tokens), the same with all ten that the code names (153), one with empty lists, one in an array, three replies without routes, two with
  nothing in them; five laid out otherwise (two and three predictions, `directionId`, `routeId` and other keys after their lists), one whose last key has no
  value, one with a third route and one with a third destination; five malformed. Each may be cut after every lexeme or inside any string, and any follows any other.
- *UpdateStop*: two boxes, two routes, up to two destinations each: enough for two departures
  competing for a box, for one without a box, for a route whose list shrinks or
  empties from one update to the next, and for routes that change places. Minutes are
  -2 (negative), -1 (no prediction), 0, 2, 5, 12, 805 and 1000 (more than the digits): one, two, three and four digits, and a 0
  inside a number. `UintMax`
  is 65535 and stands for 2^32-1, which TLC's integers do not hold; all that matters is
  that a negative minute becomes a number above 999 and above every other. The sequence of updates is
  unbounded.
- *TimeSync*: two tries a server, answers within 4 ticks, look-ups within 1, a reset takes 4 (`SYS_REBOOT` after 1 s and 3 s
  of naps, as long as the time limit). `Pool` 6 lets a day's sync follow the boot's and then run out of address lists; it also bounds the
  calls between two boots.

## Fairness

- *MainControl, `FairSpec`*: weak fairness of `Cpu` (statements between waits are executed;
  nothing of higher priority runs for ever), of `Tick` (time passes), and of `WatchdogReset`
  (hardware). Network outcomes have none: `UpdatesRecur` holds although any call may hang,
  because the watchdog ends it. The exception is `PowerOff` without a running
  watchdog: if the boot fails before the watchdog is set up, the modem was never
  connected, and powering it off is a local call.
- *HttpClient, `FairSpec`*: weak fairness of `Cpu` and of `Restart`, which is enabled in every
  wait and after every failure: the watchdog of `MainControl` (`WatchdogArmed` there shows that it
  runs in every such wait).
- *ParseSwiftly, `FairSpec`*: weak fairness of `Scan` and `Parse`, which compute and wait for nothing. A new call is never forced.
- `UpdatesRecur` and `CallEnds` assume finitely many redirects. That is not fairness but a
  condition on servers, and finding 3 is that it is needed.
- *Sign*, *UpdateStop*, *HeaderScan* and *TimeSync* are checked for safety only and state none.

## Proofs

`tlapm` checks every proof module to the last leaf, from the assumptions on the constants that the
modules declare (each one named, and evaluated by TLC in the runs) and nothing else. All theorems hold for every
value of the constants. In each module about a state machine `Inv` (`SignInv` for `Sign`; with `Reading`, `Fitting` and `Walked` for the
parser) is inductive, holds on the run of its module as TLC checks it, and implies the properties; the theorem `Invariant`
(`SignInvariant`, `ReadingInvariant`, `WalkInvariant`) says that it always holds.

**SignProofs** is about the control loop first. It assumes `WdtWindow >= 2 * UpdatePeriod` and natural numbers.
The property of interest, `IdleIsFed` (asleep implies `age < WdtWindow`), is not inductive: nothing in it
says how old the last feed was when main went to sleep. The strengthening is

    Inv == TypeOK /\ LoopArmed /\ FedSinceExpiry /\ HeldByCall

`FedSinceExpiry` measures `age` by the phase of the update timer: in the loop with the update
semaphore down, main has fed since the last expiry, so `age <= phase`; asleep, at most one
whole period may have been lost, so `age <= phase + UpdatePeriod`. As `phase < UpdatePeriod`, two periods
suffice, and the 30 s / 60 s of the Kconfig are the limit. `LoopArmed` says that the timer and
the watchdog run wherever the argument needs them, `HeldByCall` where
`lte_connected_sem` is 1. Theorems: `Invariant`, `TypeCorrect`, `IdleFed`, `NeverBlocks`, `CallsArmed`, and `SyncSlack`: when the
daily sync starts and no update is pending, more than one period of the window is left.

Its second part proves all of the run `sign`, on top of the first: `LoopStep` shows that each
step of the sign is one of its control loop or none, so `MainControl`'s invariant is the sign's (`ImplementsLoop`: `SignSpec`
implies `MainControl`'s `Spec`). `ShownIsRecent` bounds `since`, the time since the sign was set, although nothing bounds a
single update: each attempt of a request feeds the watchdog. The strengthening `Clocked` therefore counts feeds:
at every statement, `since` is at most `age` plus a window for each feed main may have made since the sign was set (`2 + retries + hops` of them while a request runs), and
one tick, since the first feed of a boot comes a burst after the watchdog's start. The watchdog bounds `age`, which gives
the property for every window, number of retries and number of redirects. `Tried` (an image on trial has not reached
the watchdog) carries `RevertedEarly`; `Built` says which build halts and which reboots. Theorems: `SignInvariant`, `ImplementsLoop`,
`SignTypeCorrect`, `ShownRecently`, `TornDarkens`, `RevertsEarly`. For `TornDarkens` the invariant has `Torn`: a torn update leaves `main()` where no statement
but the debug build's halt feeds.

**HttpClientProofs** proves every safety property of the run `http`. `Inv` is `TypeOK` with `Owned` (a socket
or address list is held only between the statements that open and close
it, or after a failed call), `BodyHistory` (a body of this call is present only with `rc = 0`; a torn one
leaves `errno` set and `rc` not 0 – which is why the `return errno` of a later `getaddrinfo()` failure
cannot turn it into a success), `HeadersHistory` (a `Location:` in the buffer was received by this
attempt), and `PathPointer` (the string a path pointer points to is a path, although the
relative redirect overwrites the buffer). Theorems: `Invariant`, `TypeCorrect`,
`SuccessBodyHolds`, `ReleasedHolds`, `PathHolds`, `FollowsOwnAnswer`, and `Implements`: the client refines
`StopFetch`, by the mapping `busy <- (pc # "ready")`.

**UpdateStopProofs** proves every property of the run `display`, for any mapping of boxes, any responses, any width of an
`unsigned int` beyond 999, and any set of peripherals that may fail. It assumes of a response that it has no more routes than the sign is configured for
(`ResponsesAssumption`: taken on trust, since neither the request nor the code sees to it), and of the `Stop` that its lists of destinations have room. What the update has done depends on how far it has got, so
`Inv` speaks of the departures `Taken` so far: the box of each is lit (`Covered`), the time of
a box is the lowest of theirs unless one is 0 (`Lowest`, from which finding 5 is excepted) and, on a sign in order, the time of one of them (`Justified`), and
that is what the box shows, but for the one being written (`Current`). `FromBody` relates the stop to the response it was parsed from, slot by slot, when the
response has no empty list; `Writing` and `Finished` hold at a write and after the last departure. Theorems: `Invariant`, `TypeCorrect`, `LowestShown`,
`LitAreCurrent`, `ShownFromResponse`, `NamedLit`, `OwnDigits`, and `Implements`: the refinement of `Board`.

Its first part is about the pictures: `PictureIsNumber` (for every natural number the code's segment table, digit offsets and panel stride
give the picture its reader expects) and `TransfersAreParts` (each transfer on the way there shows the number's lowest digits). A pixel is written as panel, place,
segment and position; `Placed` and `Located` turn one into the other, `Glyphs` goes through the ten digits. TLC evaluates
the same operators on the numbers of the run `display`.

**TimeSyncProofs** proves every property of the run `time`, for a reboot that takes at least the time limit of a query. A call's
time is not bounded by any state of it alone; `Paced` bounds it by the requests behind it and the wait it is in,
`attempt * (MaxResolve + Timeout) + spent`. `Counted` does the same for address lists, with one for each earlier request. `Resting` relates what a server remembers to where the call is: a query
that timed out, a nap, a day and a reset each last as long as the limit. Theorems: `Invariant`, `TypeCorrect`, `Fresh`, `WithinBudget`, `LeaksBounded`, `Paces`.

**HeaderScanProofs** proves both properties of the run `headers`, for streams of every length. The automaton keeps four states, the properties
speak of all bytes received: `HasSeen` says what the last bytes were in each state, `MissesNone` that in a well formed response
the automaton is waiting wherever a blank line may be half through, `NoneGoneBy` that none is behind it.
Theorems: `Invariant`, `HeadersEndAtBlankLine`, `AnswersHaveEnd`.

**ParseSwiftlyProofs** proves what holds of tokenizer and parser for *every* text made of lexemes, JSON or not, and every pool.
`Tokenized`: a token counts only tokens after it, so no counter exceeds the pool. `Nested`: a loop
inside others runs in one of their rounds, so none of them is counted below zero on the way out. `Ahead`: what `t - 2` and `t - 3` take back, the ways in have put there, so `t` does not
become negative. `Closed` and `Untouched`: only a whole text is walked, and nothing is written before. Theorems: `Invariant`, `TypeCorrect`, `WalkIsOfWhole` (the tokens walked are those of a text read to its end, all brackets
closed), `FailureKeeps` (a call that fails leaves the stop as it was: `FailureKeepsStop`, the first half of `ReadsStop`).

**TokenizerProofs** proves that the tokenizer, which makes one pass and remembers a single token `toksuper` that counts the next one, does what
`JsonText` says by positions, for every text and every depth. `Read` relates what it holds after `n` lexemes to those lexemes: `Sound` (so far every bracket
matches), `Describes` (the k-th token is of the k-th lexeme that makes one, and is open exactly if that bracket is `StillOpen`),
`Counting` (each size is the number of tokens `Counted`, and `toksuper` is the token that will count the next one). The lemma under it is that open brackets are nested: `OpenOrder` and
`WithinOne` show that the last open token, for which the code searches backwards, is the one that a closing bracket matches, and `CommaStep` that after a
comma the search finds the container again. `Reading` carries this through calls, cuts and returns. Theorems: `ReadingInvariant`, `TokensAreText`, `Succeeds`, and
`ListsFit` (`FitsArrays`). That no list of this text is too long says nothing of the sizes that an earlier one left; `Fitting` says that a walk that returned left none (`SizesFit`), since a longer text has gone
astray at the element too many, and `Room` that the element a loop is at is as far from the end as the rounds left.

**WalkProofs** proves that the parser reads every response that is laid out as `Response` says, with any number of routes, destinations and keys.
`ReadsAllocated` and `ReadsStop` are far from inductive: the one says nothing of where `t` is, the other nothing before the call returns. `Walked`
says both for each loop. In the loop over an object's keys, `t` is at the key that the rounds left count
down to (`OnKey`), and what a kept key says is in the stop once `t` is past it (`Passed`); in the loop over a list, `t` is at the object that the
rounds left count down to (`RoutePos`, `DestPos`, `PredPos`), and the elements before it have been read (`ReadUpTo`, `DestsRead`). On the way out of a list
`t` is set back from the end of its last element by a constant; the lemmas `LeavePreds`, `LeaveDests` and `LeaveRoutes` show that the steps that
follow bring it to the next object, which is why 3, 2 and 0 are the right numbers, and why a second prediction or a key after a list is not
understood. With the arrays long enough for the lists, `NeverStray` shows each step `Known`. No induction over the text is needed: each step moves over one key or one bracket. Theorems: `WalkInvariant`, `ReadsInside`
(`ReadsAllocated`) and `Reads` (`ReadsStop`).

Only model-checked:

- the liveness properties `LostWakeupRecovered`, `UpdatesRecur`, `CallEnds`, `ParserReturns`: fairness is beyond the prover;
- that the trees the texts of the run `parse` are made from (the recursive definitions of `MCParseSwiftly`) give the tokens that
  `TokensOf` and `Response` describe: TLC evaluates the assumptions that say so.

## Findings

Each is a run whose property is what the code's own comments say, and which TLC finds
violated.

1. `http_stale`: when the first `socket()`, TLS set-up or `send()` fails, `rc` is still 0 and the
   request reports success without a response. `update_stop()` then parses whatever the buffer held.
2. `http_host`: a relative redirect after an absolute one overwrites the host name
   (`hostname` points into the same buffer), against the comment "Assume the host is the same".
3. `http_loop`: redirects are not counted and each feeds the watchdog, so a circle of redirects
   is followed for ever, against "so we don't get in a loop".
4. `pool`: the token pool counts eight keys for a prediction ("8 key tokens + 8 value tokens", `parse_swiftly.c:15-16`) where the code names ten. A
   response of two routes and two departures each with all of them makes 153 tokens of "maximum possible" 138 and is refused. For a
   sign configured for one route with one departure eight keys are too many already: 50 tokens of 46.
5. `due_now`: a departure in 0 minutes is replaced by a later one, since 0 also means
   that the box has no number yet.

Another disagreement needs no run. `main.c:211-212` says that "A returned 2 corresponds to a successful response with no scheduled departures", but `update_stop()` returns only
0 and 1: the 5 of `parse_swiftly_json()` becomes 1 and the board resets (`ParseFails` in `UpdateStop`), and an empty `predictionsData` returns 0 and shows the previous stop again.

## Not modelled

- `log_reset_reason`, logging, the modem fault handler (it logs), and the LED test `main()` of the test build with its patterns
  (`led_test_patterns` and its siblings): no state the properties speak of.
- Headers longer than their buffer, and what a walk that has gone astray reads and writes: both are undefined in C.
- Certificate provisioning is a step that succeeds or fails. A certificate that is already stored (`-EEXIST`) counts as provisioned, so an
  older one stays; what the credential store holds is not modelled.
- Colours and brightness of the pixels: one colour, from the configuration.
- `rtc_mutex`: only `main()` takes it, and always gives it back. `get_rtc_time()` has no caller.
- Formatting the request, `atoi()`, copying a route id: values.
- Key, version, build and configuration files: they are the constants.
- `docs/pidgeiot-integration.md` describes another branch and is not compared with this code.

Hazards without a property, each with its reason, are in `PROJECT.json`.

## Plan

Done: every component above that keeps state is modelled and checked, and every safety property of every passing run is proved.

Open:

1. How large a pool would do: a text with every key the code names, each once, takes 11 + R (15 + 28 D) tokens where the pool has
   6 + R (14 + 26 D). The count of a text's tokens is a recursion over its tree, so the runs `parse` and `pool` stand for it.
2. `HttpClient` against `MainControl`: the control loop's `Fetch`, `Retry`, `Redirect`, `FetchDone` as an abstraction of the client.
