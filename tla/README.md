# Sandswing: a verification project

Sandswing is the firmware of a bell tower concentrator: a Raspberry Pi Pico W
running CircuitPython that senses up to four bells, plays each stroke over
MIDI at once, and reports it over Wi-Fi to a farm server called Sandbells.
One `asyncio` loop runs everything, on one core, without preemption. What makes
the program hard is that a single `socket.send()` inside lwIP may sleep ten
seconds with the whole loop behind it, that strokes must neither be lost nor be
late because of it, and that the same sockets, pins and lasers are used by
tasks that only meet at their `await`s.

This directory holds TLA+ modules of the firmware's logic, configurations that
check them with TLC, and theorems about them that TLAPS proves. `PROJECT.json`
lists the runs, a mutant for every property, the source lines each definition
stands for, the hazards and the findings. Paths below are relative to the
repository (`src/src/` on disk).

## 1. Inventory

### The parts, their state and their operations

| part | source | state it keeps | operations | model |
|------|--------|----------------|------------|-------|
| send path | `link_health.SendPath` | state, level, hold_until, last_bad, level_since | observe, plan, memory_low | `SendTable`, `SendPath`, `Embargo` |
| delivery | `farm_ws` send, poll; `link_health` ClientPath, NetMode | clients, new and refused ones, a queue and parked bytes per client, replay buffers, confirmed strokes, the ringing mode | send, poll (serve, refuse, admit, pump, read), drop_all | `Delivery` |
| link supervision | `concentrator.link_step`, `link_health.LinkHealth` | health state, latches and dates, gateway record, wifi_up, the reset wanted | a pass: observe, decide, join, start the server, cycle the radio, reset the Pico | `LinkHealth`, `LinkSupervisor` |
| UDP link | `farm_ws` udp_send, ack_poll, cmd_poll; `link_health` AckWatch, NetMode | command state, AckWatch, wifi_up, tried_at | poll, send, pass, reboot | `UdpLink` |
| status page | `farm_ws` route_status, _pump_replies; `status_doc`, `link_health` StatusGate, ReplyPath | versioned units, peers, gate, reply queue | ask, pump, hold, resume, memory_low | `StatusDoc`, `Status` |
| sense inputs | `sense_keys.SenseKeys` | mode, keypad's queue, own list, known levels | pump, drain, to_pins, to_keys | `SenseKeys` |
| strokes and notes | `concentrator` poll_sense, _channel; `ring.Ring` | per channel: level, gaps, trigger state; lasers, rests, notes | an edge, a look, start, stop | `BellChannel`, `Tower` |
| survey life cycle | `survey_state`, `channel_gate`, `concentrator` _sense_step, panel_task | phase, doubt, pending channel, kinds, head[], gate | trigger, step, settle, repaint, enforce | `Tower` |
| socket measurements | `socket_survey`, `socket_classify`, `loopback_test`, `laser_measure`, ... | none of their own; the lock and lines of the multiplexer | measure, classify, confirm | `Sockets`; what is found is `Finds` there and `Found` in `Tower` |
| tower state | `tower_watch` | a kind and a held level per bell, last edge, day, marks | report, poll, clear_test | `TowerWatch`, `TimeSession` |
| time | `sntp_pico`, `time_select`, `time_servers` | ticks past their wrap, the fit, the issued pieces, the session | burst (probe, query), set_ringing, stamp | `TickClock`, `Sntp`, `TimeSession` |
| MIDI stamps | `midi_stamp` | sequence number, last write | stroke, clock | `MidiStamp`, `TimeSession` |
| multiplexer, threshold | `mux_select`, `threshold_refresh`, `drive_path` | holder, depth, lines; the PWM and a capacitor per channel; targets, whose turn | select, set, step, set_target | `Mux`, `Sockets` |
| watchdog | `watchdog_guard` | armed, paused, the heartbeat, the note in nvm | arm, loop_tick, checkin, pause, resume, disarm, mark_reset, take_mark | `Watchdog`, `Loop` |
| boot, main loop | `boot`, `code`, `concentrator` run, main, start_app | none after start | start, arm, die, reset, close | `Loop` |
| library bounds | `ws_bounds` | deadline and place of a call, a frame in pieces | header, body, reply, frame | `WsBounds`, `Loop` |
| event envelope | `sand_event` | sequence number, session | emit | stamps in `TimeSession`, numbers in `Delivery` |
| settings, pins | `config_loader`, `board_pins`, ... | none after start | parse, claim | not modelled |
| others | `panel`, `farm_log`, `lastline`, `heap_watch`, `bell_machine`, `fake_strokes`, `lib/`, `tools/` | | | not modelled, see section 7 |

### How they interact

```
 ropes -> keypad -> SenseKeys -> poll_sense -> Ring (MIDI note)
                                     |------> _channel -> send() --.
 panel_task --repaints head[]------> _channel                      |
 SurveyState -> survey -> gate, kinds, head[] -> Ring.start        v
                                                   recent / strokes / client queues
 ws_poll_task: poll() -> serve (/ws, /status) -> refuse -> admit -> pump -> read
                     \-> every write reports to SendPath, every poll asks it for a plan
 link_task: link_step() -> gateway ping, join, start server, radio reset, Pico reset
                     \-> reads live clients, last frame, stalls, undelivered strokes
 TowerWatch <--reports-- poll_sense --session--> SntpClock <--queries-- time task
 survey, look at empty sockets, ThresholdRefresher --> Tower (select lines) --> 4051s
 end of a sense pass --> WatchdogGuard --> hardware --> reset --> boot.py --> start_app
```

* Calls: the sense task calls `send()` in the middle of an edge; `send()` may
  write to every client. `poll()` runs in one task and calls the same writers.
* Shared state: `head[]` is painted by the panel task and read by the sense
  task; `_strokes` and `_confirmed` are written by send and poll and read by the
  supervisor's `reset_decision`; NetMode is moved by strokes and asked by all.
  The tick counter is extended by two clocks, the app's and the time client's.
  The refresher drives the select lines while a measurement awaits.
* Callbacks: routes of the HTTP library run inside `poll()`'s serve phase, and
  that library's reads and writes run inside the deadlines of `ws_bounds`.
* Everything that holds the loop (a send, a join, a query, a peer that
  dribbles) holds the one place where the watchdog is fed.

### What is hard here, and what makes each part correct

* **Send path.** Two timers in one field, three dates behind one calm time,
  reports at any moment. Correct: a hold or drain lasts exactly its time, a
  level is given up slowly, and the path recovers.
* **Delivery.** One plan and one list of clients are used over many calls that
  change both; connections break at any write; queues are bounded; memory runs
  out. Correct: every kept stroke reaches every client once and in order, is
  confirmed only with reason and in the end, the sense path does not write
  while it must not, a sealed path sends no message, a client that talks never
  pays for another.
* **Supervision.** Three reasons for one remedy with a latch each; a decision
  carried out many passes later; Wi-Fi moving under a blocking pass. Correct:
  no remedy without new evidence, a Pico reset is earned, a wedged link ends.
* **UDP.** Datagrams of another boot; a rejoin counted in one object and driven
  by another. Correct: only this boot's command and acks count, cycles back
  off, a dead link is nevertheless cycled for ever.
* **Status.** Versions forgotten under the same boot id; low memory with pieces
  still queued; ringing. Correct: a copy kept by deltas is the page.
* **Tower.** Edges through surveys, doubts during surveys, a repaint that
  changes what an edge means, lasers against the gate. Correct: no edge lost
  unsaid, no doubt forgotten, every head rings between surveys, and a note that
  outlives what it sounds for is a taken press's.
* **Time.** A counter that wraps, read by two clocks; stamps older than the last
  reading; bursts that yield while the ringing begins or ends. Correct: UTC
  never goes back, a session is one straight line, a touch is one session, an
  event and its MIDI stamp are on one scale even where each is stamped by a
  reading of its own, lost MIDI writes can be counted.
* **Select lines.** A lock that is held over awaits and may be re-entered.
  Correct: a measurement never loses its socket, and nobody keeps the lock; a
  look at empty sockets leaves the driven thresholds as they were.
* **Program and watchdog.** Resets from five sides, a note that survives
  whatever comes between and may fail; pauses that must end right. Correct: a
  reset is named for its cause while the note holds, a loop that ends its passes
  or its joins in time is not reset (a survey ends no pass, section 6), a hung
  one always is.
* **Library calls.** Peers that go, dribble or fall silent; lwIP asleep inside
  a write. Correct: every call ends within its deadline and one socket call, and
  no frame is read from its middle, but behind a fragment the reader does not
  support.

## 2. The modules and how they correspond to the code

`Embargo` is the abstract specification of the send path: a door that is open,
refusing or sealed, and how long. `SendPath` (with the table in `SendTable`)
implements it; `Delivery` uses only the door, so it holds for any send path
that keeps the promise. `LinkHealth` is a decision object used by
`LinkSupervisor`; `StatusDoc` a document used by `Status`; `SenseKeys` and
`BellChannel` are the data and per-channel rules `Tower` is built from.
`Delivery` and `LinkSupervisor` meet in two facts only, which appear in the
latter as environment: whether strokes are undelivered, and when a frame came.
`TimeSession` composes `TowerWatch`, `Sntp` (on `TickClock`) and `MidiStamp`;
`Loop` composes `Watchdog`, `Sockets` (on `Mux`) and `WsBounds`.

* **`SendTable` / `SendPath`.** A record `path` for the object, one action per
  method. Dates are kept as differences (time left, age up to `AgeCap`).
  `Timed` is `_timed`, called first by every method as in the code.
* **`Delivery`.** `turn` is the program counter of the one task: `Emit` and
  `Fan` are `send()`; `PollBegin`, `Serve`, `LetIn`, `PumpAll`, `ReadAll`,
  `PollEnd` are the phases of `poll()`, one client at a time where a write may
  end a connection. `send` and `poll` never interleave with each other (no
  await inside), the peers and the TCP stack interleave with both. The read
  phase runs in a drain too, where the library answers a ping or a close by
  itself (`ReadPing`, `ReadClosed`); `DropAll` closes without asking for a plan.
  `wrote` is what a step put on a socket: nothing, a frame, a handshake, a close
  or an answer. A message is its seq; what a socket has room for is `MaxWire` frames, and what does not
  fit is parked, as `_flush` does. `Faults` are the ways a call can go wrong.
* **`LinkHealth` / `LinkSupervisor`.** `Pass` is `link_step` with all it calls,
  in one step: it blocks the loop. `answer`, `up` and `joins` are what the
  gateway, the second `wifi_ok()` and the join clock make of it. The world moves
  between passes. `plea` is history: how long the Pico was alone when a reset was
  last asked for, and how long ago, which a live client wipes out; a reset is
  judged by it in whichever pass it is made. A join that the tower's silence or
  its 120 s gap allows is free once the loss is known (`MayJoin`).
* **`UdpLink`.** `Poll` is `poll()` in this mode (acks, then a command, with
  the order of `cmd_apply` before `cmd_poll`), `Send` a datagram, `Pass` the
  supervision. Datagrams under way are sets that survive `Reboot`.
* **`StatusDoc` / `Status`.** `Ask` is `route_status` with the build of the
  document, `Pump` a turn of the writer. Versions, units and stamps are kept as
  in `status_doc`; texts are model values.
* **`SenseKeys` / `BellChannel` / `Tower`.** Operators for the objects' methods
  (`Pump`, `ToPins`, `ToKeys`, `Drain`; `Channel`, `TriggerEdge`, `RingEdge`,
  ...); `pc` is where the sense task is: at rest, handling edges, inside the
  survey, or waiting for the heads to settle. `Poll`, `HandleEdge`, `PollAgain`
  and `StepOn` are one `_sense_step`, split where an edge's `send()` may hold
  the loop (keypad goes on scanning meanwhile) and where the task awaits. The
  panel task (`Panel`) runs only where it does in the code, at awaits.
* **`TickClock` / `Sntp` / `TowerWatch` / `MidiStamp` / `TimeSession`.** The
  first four are records and the operators that are their methods; in
  `TimeSession` a sense step is `Edge`s and a `Look` (`pass` is its beginning,
  which the code passes down). A change over a hand-over of the pins, or one
  that a look counts, has no keypad stamp: its note (`Note`) and its event
  (`Unstamped`) are two steps, any time apart, each with a reading of its own,
  and `Channel` is what edges with and without a stamp share. The time task is `Begin`, `Probe` and `Query`,
  split at its yields, and runs between sense steps, as do heartbeats (`Beat`)
  and a client made late (`WifiUp`). `Sntp` keeps two lines: the estimate a
  burst learns, and the pieces of the mapping that is issued; `Followed`,
  `SetRinging` and `Correction` decide what becomes of one in the other. `now`
  is the true tick count, of which the program sees `Raw(now)`.
* **`Mux` / `Sockets`.** A `Tower` object is a record with the lock, the lines
  and what hangs behind them. `at` is where the sense task waits: in a
  measurement with the laser on or off, between two looks at a loopback, in the
  look at an empty socket. `Refresher`, `SetTarget` and `Doubted` run at any of
  these awaits; the code between two awaits is one action.
* **`Queues`.** The filter that `Delivery`, `Status`, `SenseKeys` and `Sntp` apply to their
  queues, as a recursive function, so that it can be proved about.
* **`Watchdog` / `WsBounds` / `Loop`.** `phase` is the life of a program, `held`
  what keeps the loop. The hardware is a countdown that `Tick` moves whatever
  the program does. `ResetBy` is every reset: nothing is left but the note in
  `nvm` and the chip's own reason; `mark_reset` and `take_mark` may fail, which
  `spoilt` remembers. A library call is a loop of socket calls (`IoStep`), with
  the deadline looked at between two of them, as in the code. A socket call that
  reads lasts up to the socket's timeout (`RecvWait`), one that writes up to
  lwIP's sleep (`SendWait`), whatever that timeout; `before` is the time of the
  parts of an exchange that are over. A frame is read in pieces; `astray` is the
  stream of a client that sent a fragment the reader returns from, of which
  anything may be read from then on.

The proofs are modules of their own: `DeliveryProofs`, `LinkSupervisorProofs`,
`UdpLinkProofs`, `StatusProofs`, `TowerProofs` and `LoopProofs` extend the module
they are named after, `TimingProofs` extends `SendPath` and `TimeSession` (a
stroke's send and a stroke's stamps), and `QueueFacts` holds the lemmas on
sequences that several of them share.

## 3. The runs

| run | module | what it asks | bounds |
|-----|--------|--------------|--------|
| send | MCSendPath | the table under every report at every time; refinement of `Embargo` with fairness; recovery | 4 levels, one without a calm time to wait; holds shorter and longer than the drain |
| delivery | MCDelivery | order, strokes not forgotten, bounds, only the guilty client is cut, no message into a drain, confirmation | two displays, 2 strokes, one fault anywhere; one place for two connections, 3 messages of any kind, batched with two faults and shed with one |
| delivery_arrives | MCDelivery | every stroke arrives, and is known to | 1 client, 2 messages, one fault, fairness |
| link_mixed | MCLinkSupervisor | evidence for every radio reset, reset earned, both records agree | every three of clients, Wi-Fi, gateway, stalls that matter together |
| link_returns | MCLinkSupervisor | a wedged Wi-Fi is reset, also after a reset called off; the server comes back | Wi-Fi with clients that come and go, gateway or stalls alone, fairness |
| udp | MCUdpLink | commands, acks, back-off, rejoins over two boots | 2 boots, waits 1 and 3 |
| status_pages | MCStatus | copies agree; replies give way to ringing and to low memory | 2 pollers, 1 section, 2 texts, 2 upsets |
| status_stale | MCStatus | **finding**: a delta across forgotten versions leaves changes out | as above |
| tower | MCTower | edges, doubts, heads, notes that stay, over a survey and its panel | 2 sockets, queues of 2; 4 moves with time, or 3 moves beside a ringing head |
| time | MCTimeSession | UTC, sessions, one scale, lost MIDI writes | the counter wraps after 2 ticks; four scenes: no network and strokes past the last number, two servers, samples while ringing, a client made late |
| time_ticks | MCTimeSession | **finding**: a time client made after a wrap counts from another one | as above, one stroke |
| loop | MCLoop | names of resets, early and missing resets, the lock of the lines, thresholds, bounded calls, whole frames | 3 sockets, thresholds of two; a timeout of 3; bound 1, waits 2 and 3; frames of 3 pieces, 2 of them the header; three scenes, one where the note may fail |

Why the bounds are enough. The times of the code are thresholds: each is kept
at a value where a comparison is met on both sides and the order of the
thresholds is the code's. `LinkSupervisor` keeps silent < dead and silent <=
settle <= calm < reset. Two clients are one that goes wrong and one that must not notice; one
place for two connections is the case of a display that comes back. Two faults
are a fault in the repair of a fault. In `Tower` queues of two overflow with
three edges in one hold of the loop; four moves are a press, a bounce and a
release with one level more, so a change before, during and after one survey;
three moves of a socket beside a ringing one are a plug drawn, put in, and one
edge of a bell. In `TimeSession` the counter's period is 8 and an edge at most 1
late, so stamps fall on both sides of the wrap and of the last reading, and a
second wrap is never reached without a reading in between, as in the code where
a heartbeat comes every second; corrections are steps and slews, and a slew may
still be under way when the ringing begins; drifts of a fit
are kept at 0 there, slews are not. In `Loop` a timeout of 3 leaves room for a
heartbeat that is fresh, old and too old; three sockets are one that is driven,
an empty one, and a head that comes and goes; a call's bound is smaller than the
waits, and the two waits differ, so that each of them is met alone. The frozen variables `moves`
(LinkSupervisor) and `scene` (Delivery, Tower, TimeSession, Loop) are chosen
once, in the initial state, to keep the parts of the world that do not matter
together apart.

Symmetry is used where the elements are interchangeable (clients without
liveness; sections and texts) and never in a run with a liveness property.

## 4. Fairness

* `SendPath`: time passes and `ws_poll_task` asks for a plan every 50 ms.
* `Delivery`: poll goes on and every poll ends (it has a time budget); strong
  fairness for the things that succeed in the end if they stay possible:
  Sandbells reconnects, reads and says hello, holds and ringing end, a client's
  chunk gap passes, a dead connection is noticed because heartbeats are written
  to it. Faults are bounded, so the runs ask what happens once nothing more goes
  wrong.
* `LinkSupervisor`: `link_task` makes a pass for ever, and not in every pass is
  the Wi-Fi lost halfway; a server start that stays possible succeeds.
* `Loop`: time passes and the hardware watchdog does what it is for. Nothing is
  assumed of the program, which may hang in any step.
* `UdpLink`: passes go on, and lwIP takes a heartbeat again and again. The
  second is a real assumption: AckWatch starts its clock with the first
  datagram that was taken, so if every `sendto` failed from the moment the
  Wi-Fi came up, the link would never be judged dead.

No fairness is assumed of faults, of the ropes, or of the network.

## 5. What is proved

TLAPS proves the theorems below from the specifications, for every value of the
constants that meets the named assumptions of their modules. Those ask for no
more than that times, lengths and counts are natural numbers, positive where the
code divides or counts by them, and for the few orders the settings have:
silent < dead and silent <= settle (`LinkAssumption`), re-arming <= trigger gap
<= stroke gap <= stuck (`ChannelAssumption`), calm times within the cap of the
clock that measures them (`LevelsAssumption`), at least two pieces of the mapping
kept, 16 in the code, and a slew slower than the clock (`SntpAssumption`), an even period of the counter and
edges less late than half of it (`PeriodAssumption`, `SessionAssumption`). The
runs are small instances of the same formulas, and evaluate the assumptions.

Each proof has one shape: an invariant that is inductive, one lemma per action
that keeps it, under it one step per conjunct the action can disturb, and the
properties taken from it. What the operators of a module do is said once, in
lemmas named `...Facts`, and the steps use those lemmas instead of the
definitions. `QueueFacts` has what several proofs need of sequences: an order or
a set that survives append, take, drop and filter, the least of a set of naturals,
and induction over an interval, which finite sets give without the library's
higher-order rules.

| module | theorem | property | what it says, for every value of the constants |
| --- | --- | --- | --- |
| `TimingProofs` | `TypeCorrect`, `Invariance` | `SendInv` | the send path keeps its types; level and state agree, an open door has no hold, the calm clock does not run ahead |
| | `GivenUpSlowly` | `LevelIsGivenUpSlowly` | caution is given up a level at a time, each after its own calm time |
| | `Implements` | (safety of `Embargo`) | every step of the machine keeps the promise the other modules use |
| | `StampsOnOneScale` | `OneScale` | a stroke's MIDI and network stamps are on one scale, across the wrap and for late edges: the same millisecond with a keypad stamp, else apart by the time between the two readings |
| | `SessionIsOneLine` | `OneLinePerSession` | nothing moves the mapping of a session |
| | `TouchesAreSessions` | `TouchIsOneSession` | strokes closer than the ring-down time carry one session |
| | `MissedStrokesShow` | `LostStrokesShow` | after any message the MIDI host knows how many strokes it missed |
| | `LineRises` | | no line of the mapping falls, for any rate above -1 and however `round()` rounds |
| | `UtcNeverFalls` | `UtcNeverDecreases` | no stamp's UTC is below that of an earlier tick: the guard in `stamp()` never acts, while the kept pieces reach back as far as an edge is late |
| `DeliveryProofs` | `DeliveryInvariant` | | `DeliveryInv` |
| | `NothingOvertakes` | `InOrder` | what a client is still to get is in order and after all it was given |
| | `StrokesAreComing` | `NoStrokeForgotten` | a kept stroke is queued, handed over or about to be, for every client whose replay was begun |
| | `BoundedQueues` | `QueuesAreBounded` | a queue is at most `TODO_MAX` or its own replay |
| | `SensePathIsSilent` | `SensePathNeverWrites` | no `send()` writes while ringing is batched |
| | `DrainSendsNothing` | `SealedSendsNothing` | no message, handshake or refusal is written into a drain, but by the poll that ran out of memory; what else goes out is the library's answer to what was read, and the closes of `drop_all` |
| | `InnocentsKeepTheirPlace` | `InnocentsStay` | a round costs only the client it served, and laggards, their connection |
| | `ConfirmationsAreEarned` | `ConfirmedWithReason` | a stroke is confirmed only with reason |
| `LinkSupervisorProofs` | `SupervisorInvariant` | | `SupInv` |
| | `RecordsAgree` | `AskedIsWanted` | both records of a Pico reset say the same |
| | `EveryCycleHasEvidence` | `CyclesHaveEvidence` | every radio reset answers a trouble of its own |
| | `EveryResetIsEarned` | `ResetIsEarned` | a Pico reset, made at once or many passes after it was asked for, was asked for after a whole `PICO_RESET_S` of trouble, no client was live since, and strokes had their hold |
| `UdpLinkProofs` | `UdpInvariant`, `OffOnlyWhenMeant` | `OffIsMeant` | the Pico is off the air only because this boot was told to be |
| | `CyclesBackOff` | `RejoinsBackOff` | a radio cycle comes after the whole wait its number asks for |
| `StatusProofs` | `StatusInvariant`, `CopiesSayThePage` | `CopiesAgree` | a copy kept by deltas is the page |
| | `PagesGiveWay` | `RepliesGiveWay` | ringing and low memory leave short replies only |
| | `DeltasSayAllSince` | | a delta leaves nothing out, unless the versions began again in between |
| `TowerProofs` | `TowerInvariant`, `EdgesAreAccounted` | `NothingLostUnsaid` | what the tower believes, with the edges on their way, ends at the pin's level, or a loss was counted |
| | `DoubtsAreKept` | `PlugIsNotForgotten` | a plug changed behind a survey is surveyed again or about to raise the doubt |
| | `HeadsStayLit` | `HeadsAreLit` | outside a survey the lasers and the gate say what it found |
| | `NoOtherNoteStays` | `OnlyTakenNotesStay` | a head's note sounds only off its rest, and a press's note outlives its release only where a survey took its channel for something else |
| `LoopProofs` | `LinesInOrder`, `SocketsAreHeldAsMeant` | `HeldAsMeant` | no await of a measurement or a look loses its socket, no other finds the lock taken |
| | `ThresholdsAreRestored` | `LookRestoresThresholds` | after a look every driven channel has its threshold again |
| | `ResetsAreNamed` | `NamedForItsCause` | the first program after a reset names what reset the board, while the note does not fail; our own reset keeps its name over the button; with a failing note ours may pass for the watchdog's, nothing else |
| | `NoEarlyReset` | `NobodyIsResetEarly` | the hardware resets only a loop without a good pass or the end of a join for a whole timeout |
| | `NoCallIsUnbounded` | `CallsAreBounded` | a library call ends within its bound and one socket call, lwIP's sleep included; a whole request within three bounds and their waits |
| | `NoFrameIsCut` | `FramesStayWhole` | nobody is served from the middle of a frame, but a client whose unsupported fragment was left lying |

### Why each invariant is stronger than its properties

* `SendInv` (send path). What a step may do depends on the state it starts in: a
  level belongs to its state (OK is at level 0, every other state but a DRAIN
  from OK above it), and the age of the last bad thing is one the clock could
  have reached. Four lemmas say what one firing of the table does, and only they
  expand the table; two say what a poll's timers and a report make of it.
* `TimeInv`, `ClockInv`, `TouchInv`, `StampInv` (time). A clock keeps a
  reading and a count, never the time itself. `ClockInv` says that the reading
  is of a time near enough to this one (`Counts`) and that both clocks lag by the
  same number of wraps; `Reading` is the lemma that half a period then tells an
  older stamp from a newer one. A note that waits for its event keeps the time at
  which it went (`Notable`). `TouchInv` says that the session a stroke carries
  is still open and that the tower has heard a bell since. In `StampInv` the
  program's number is ahead of the host's by the strokes lost since, modulo the
  numbers there are. Two hypotheses are real. `StampsOnOneScale` asks that a
  client made late is made before the counter wraps: the finding `time_ticks` is
  what happens otherwise. `MissedStrokesShow` asks for fewer lost writes than
  there are numbers: more would look like none.
* `UtcInv` (time). The client's clock lags by some number of wraps, and of what it
  issues `Issues` says: the pieces are in order, at most `MaxSegs`, and only the
  last may begin in the future (`IsMap`); the UTC rises with the tick, from one
  piece to the next too (`Rising`); and it is nowhere below the latest stamp for
  that tick or a later one (`IssueKept`). Three lemmas carry it. `LineRises`: a
  piece gains one tick each tick and its rate takes back less than that;
  `RoundedFalls` is why halves rounded to even do not spoil it. `SlewIsEnd`: a
  slew ends where its successor begins, to the millisecond. `ContinuedFacts`:
  dropping pieces of the future and the oldest ones leaves what was issued before
  now as it was, for the ticks that are still `Known`. The last words are why the
  theorem has a hypothesis, `KeptFarBack`: once there are `MaxSegs` pieces, the
  oldest begins no later than an edge may still come in for. The code keeps 16. A
  burst or the end of a session makes at most two, the beginning of one makes one,
  and a pass of the sense step begins and ends at most one session, so an edge,
  which waits for a pass or two, finds its piece. With few pieces and any number of
  changes in between, which the model allows, it would not: the hypothesis is
  needed. The run `time` checks the property without it, with 4 pieces and few
  changes.
* `DeliveryInv`. `RoundInv` says whom a round of `send()` or `poll()` has yet to
  serve, that they are connected and each only once, and that a message fanned
  out is newer than all they have; `Good` is order and bounds of one client's
  record, a part of its type, so that every operator of `ClientPath` is shown
  once to keep it. `SealInv` says that a turn that met the seal writes no more;
  `FreshInv` that a client without a replay is the one just accepted.
* `SupInv`. `AnswersInv` bounds what the code remembers of a trouble by what
  happened since it last answered it, and says when a silence that was answered
  stays latched; `SpellInv` bounds the unhealthy spell by the last good pass, and
  `PleaInv` says that a reset which is wanted was asked for on its grounds, which
  nothing has taken away, and is as old as the record says.
  Silent < dead and silent <= settle are needed here: a frame that came just
  before a radio reset must not count as news after it.
* `UdpInv`. A command under way or accepted names its boot (datagrams outlive a
  boot, so nothing less survives `Reboot`), and the watch counts tries and
  silence no further than the history.
* `StatusInv`. `Reflects` says what a page is worth against a document that went
  on since; it is kept of copies and of every reply under way, and a delta's
  worth is what it makes of the copy it was asked from. Two replies for one peer
  are kept apart, else the second would be cut from a copy the first changes.
* `TowerInv`. `WayOK` follows each edge: from the level handled last, over the
  work in hand and the sense task's own list, to the level known, and over
  keypad's queue to the pin. `PhaseInv` says where the task is in each phase of
  the survey and what is painted then.
* `LineInv`, `RestoreInv`, `BootInv`, `DogInv`, `IoInv` (program). Whoever
  uses a free socket, or the one in hand, leaves the lock as it was, so the
  refresher may come at any await. A look's steps left exceed the places up to
  the farthest channel whose capacitor is off its target. The note and the
  request it stands for are the same unless an access to it failed, and a running
  program has none. The guard
  is paused during joins only, and time left on the hardware and time since the
  last good pass make up the timeout. A call's span is within its bound but for
  the wait under way, the parts of an exchange before it within theirs; and who
  stands in the middle of a frame is reading it, or astray.

### What stays with TLC, and why

* Liveness: `Recovers` and the fairness of `KeepsPromiseFairly`,
  `StrokesArrive`, `StrokesAreConfirmed`, `WedgedIsReset`, `ServerReturns`,
  `LostWifiIsJoined`, `DeadLinkIsCycled`, `HungIsReset`. Temporal reasoning from
  fairness and `ENABLED` are beyond the prover.
* That `KeptFarBack` holds: it takes how fast the sense step runs against how
  late an edge is, and the model has no bound on what happens in between.

## 6. Findings, and divergences seen while modelling

Two are shown by a run, and `PROJECT.json` quotes the text each contradicts:

* `status_stale` (`DeltaSaysAll`): after a MemoryError the versions start again
  under the same boot id, and a delta from an old version says nothing changed.
  The theorem `DeltasSayAllSince` shows that nothing else makes a delta wrong.
* `time_ticks` (`OneScale`): a time client made when the Wi-Fi comes back after
  the tick counter has wrapped counts without that wrap; its events' `tick_ms`
  and the ms of their MIDI stamps are a period apart. `StampsOnOneScale` is the
  same property for every client made before the wrap.

The following were met on the way. No run is about them; the models do what the
code does.

* A client whose replay cannot be built for lack of memory is never replayed to
  (`meta.bare` in `Delivery`).
* A Pico reset that waited for undelivered strokes is made at the end of its
  hold although the tower rings (`ResetDecision`).
* `_ack` takes everything handed to lwIP before the hello was *read* as
  delivered, where `farm_ws.py:135` speaks of strokes "known delivered".
* After a MemoryError the rest of `Server.poll()` still writes under the plan
  asked for before it (`link_health.py:318`).
* `link_health.py:97` has nothing written in a drain. The read phase goes on
  then, and the library answers a ping with a pong and a close with a close;
  `drop_all()` writes close frames. `SealedSendsNothing` is about messages,
  handshakes and refusals for that reason. A pong may also fall into the middle
  of a frame whose rest is parked, which the peer takes for garbage.
* A long replay counts as backlog (`farm_ws.py:112`, `TODO_MAX`).
* A Wi-Fi outage of `LINK_DEAD_S` is silence like any other, so the first pass
  after the network came back cycles the radio (`docs/link-health.md:70-72`).
* `docs/link-health.md:70-72` has the radio cycled when nothing was heard for
  `LINK_DEAD_S`, once per silent spell. A client that says hello and leaves
  between two passes leaves the spell's date as it was, so the radio may be
  cycled with a frame heard seconds ago; the next passes take the latch off, and
  the silence that follows may cycle it again (`LinkHealth.update`).
* `docs/link-health.md:998-999` says udp does no radio or Pico reset;
  `_udp_dead_step` resets the radio when the tower is quiet.
* AckWatch starts with the first datagram taken: if every `sendto` fails, the
  link is never judged dead. A failing gateway under a live client keeps a spell
  going (`_spell`).
* Hot-plug bounces while a socket is examined are counted and sent as strokes
  (`docs/sandswing_commissioning_spec.md:240`); a test press
  while the socket is painted unknown goes out without its label; a plug change
  asks for a survey also while bells ring (`concentrator.py:36`); a late level
  look arms a trigger again (`docs/trigger-plug.md`); when keypad's queue
  overflows two edges can be lost and one is counted.
* The docstring of `_trigger_note` has a NoteOff on the release after a press.
  While the channel is surveyed again it waits for the survey's end, and if the
  survey finds something else than a trigger there it never comes:
  `_trigger_note` is called for triggers only. `OnlyTakenNotesStay` says that
  this is the only way a note stays.
* `docs/midi-stamp.md:36-38` has the stamp be the stroke's keypad stamp, on the
  scale of its `raw_tick`. A change over a hand-over of the pins has none, nor
  has a trigger's press that a look counts: note and event then read the clock
  each for itself, and their milliseconds differ by the time in between
  (`OneScale`). The ring and `_channel` may also judge the gap to the stroke
  before differently then, so one of the two may be sent without the other.
* `docs/STRUCTURE.md:14` and the docstring of `pause()` have the watchdog paused
  around a survey. Nothing pauses it there, and the boot's survey comes after
  `arm()`: about 2 s a channel without a tick, so more than the timeout of 8 s
  with four. `docs/STRUCTURE.md:34` has the watchdog stay armed after an
  exception; `main()` disarms it on the way out and `run()` resets.
* After a soft reload the chip still says WATCHDOG of a reset of our own whose
  note is gone. A note survives a boot that the button interrupts, and then
  names the button's reset SELF-RESET; if its write or its reading fails, which
  `mark_reset` and `take_mark` let pass, the reset of our own is named WATCHDOG.
  A call that hangs inside a paused join is never reset.
* A join over three networks takes as long as `WIFI_REJOIN_S`, counted from its
  start, so the joins of a network that stays away follow one another.
* Nothing in the program gives the refresher a target (`set_target` is called by
  tests only); with one, it moves the PWM while a measurement of the same
  channel awaits, and a `ThresholdMismatch` of it would end `main()`.
* `ws_bounds.py:30` calls `REQ_BOUND_S` the most one HTTP request may take to
  read. Header and body have a deadline each, looked at between two socket calls,
  so a request takes up to twice the bound and two socket timeouts; its reply has
  a bound of its own, and one `send()` of it may sleep in lwIP for 10 s whatever
  the timeout (`link_health.py:85-91`).
* The docstring of `bounded_read_frame` has a client dropped rather than left out
  of step with its stream. A continuation frame that is not the last is returned
  with its length, mask and payload unread, the client is kept, and what it sent
  is read as headers from then on (`astray`).
* A burst begun before the ringing goes on with its queries during it, and may
  change the server. A stroke stamped with an edge older than the freeze has the
  mapping from before the session. In udp mode a boot without Wi-Fi never gets
  a time client. A client made late in the middle of a touch splits it: the
  strokes before carry session 0, which is none, those after it session 1.

## 7. What is not modelled, and why

* Settings and pins: parsed and claimed once, before anything runs.
* `sand_event`'s fields other than stamps and numbers, logs, panel colours:
  formatting and output.
* `bounded_recv_exact` of `ws_bounds`, for a library release that is not on the
  Pico.
* The analogue measurements: what a survey may find of a plug is `Found` or
  `Finds`.
* `bell_machine`, `fake_strokes`, `lib/`, `tools/`: not part of the running
  concentrator.

Abstractions inside the modules:

* `Delivery`: a message is its sequence number; a chunk's size is a number of
  messages; how long a send took is one of three bands.
* `Status`: what a section says is a text; the list of removed sections is left
  out, since the order of a page's replies is all the properties use; whether a
  turn of the loop serves or writes is free; a poller merges replies in their
  order, as `tests/test_status_doc.py` does. The number of rounds of one drain
  (`DRAIN_ROUNDS`) is not counted.
* `Tower`: keypad's scan and `to_keys`' reading of the levels are one step, so a
  level that changes between the two is not seen; `_watch_empty`'s look is free
  because it is rate limited by a clock that is not modelled.
* `TimeSession`: the datagram is a round trip and an offset; what a fit makes of
  its samples is one of `Drifts`. A head that rests held at the start is left
  out.
* `Sockets`: the capacitors do not droop and the filters settle in the times the
  code waits; kinds are those of the gate, while `Tower` has what happens where
  gate and `head[]` differ. `Loop` lets a survey end in any find of `Finds`.
* `Loop`: `start_app` is one step up to the arming; the other tasks appear as
  what they do to the watchdog, the lines and the loop.

## 8. Plan

In this order:

1. `TimeSession` with a bound on the changes of the mapping within the lateness
   of an edge, so that `KeptFarBack` follows instead of being assumed.
2. `start_app` with its half-failed starts, in place of the one step of `Loop`.
3. Liveness of `Tower`: rings come back after a survey, a doubt is surveyed in
   the end; the spacing of a trigger's arming.
4. Fits that find a drift, with a corridor for the error of what is issued.
5. Two pollers with versions of different documents; strokes added during a
   replay that is already longer than `TODO_MAX`; live frames counted as replay
   by `_ack`.
