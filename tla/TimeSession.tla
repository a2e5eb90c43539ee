---------------------------- MODULE TimeSession ----------------------------
(***************************************************************************)
(* The Pico's time on a stroke (concentrator.py: poll_sense, _channel,     *)
(* _sync_ringing; sand_event.py; sntp_pico.py, run): a stroke is stamped   *)
(* twice, for MIDI on the app's tick clock and for the network by the time *)
(* client on its own: from its keypad stamp, or, if it has none, when each *)
(* of the two is made.  It carries the ringing session that the tower      *)
(* watch opens and closes.  The sense step can be held in a send, the time *)
(* task yields between its queries, and edges, looks, heartbeats, bursts   *)
(* and ringing meet in any order.                                          *)
(*                                                                         *)
(* Time is the true tick count; edges reach the program up to Lag late.    *)
(***************************************************************************)
EXTENDS Sntp, TowerWatch, MidiStamp

CONSTANTS
  Scenes,      \* heads, servers, queries: of a burst; sample: ring_sample;
               \* boot: how the time client starts; midi; rtts: of
               \* queries; bounds: faults of MIDI writes, moves of bells, ticks
  Start,       \* tick at which the tasks start
  Lag,         \* the most an edge is late
  RingWindow,  \* RING_WINDOW_S
  RingQueries, \* ring_burst
  Interval,    \* interval_s, and ring_interval_s
  Retry        \* BOOT_RETRY_S

ASSUME SessionAssumption ==
  /\ {Start, Lag, RingQueries, Interval, Retry} \subseteq Nat /\ RingWindow \in Nat \ {0}
  /\ Lag < Half
  /\ Scenes \subseteq [heads : SUBSET Bells, servers : Nat \ {0}, queries : Nat \ {0}, sample : BOOLEAN,
                       boot : {"none", "late", "unsynced", "synced"}, midi : BOOLEAN, rtts : SUBSET Nat,
                       faults : Nat, moves : Nat, ticks : Nat]

VARIABLES
  scene, now,
  pass,     \* began: when the sense step began to take edges, None: no step is on
  held,     \* level of every channel, as handled
  rangAt,   \* edge_at, None once the ring window is over
  edgeAt,   \* the earliest time of the next edge in the queue
  noted,    \* the stroke with no keypad stamp whose note has gone, and
            \* whose event has not
  watch,    \* the tower watch
  app,      \* app.ticks
  midi, host, lost,    \* MIDI stamps, their host, and strokes that could not be written
  on, sntp, \* app.sntp, if it is there
  task,     \* the time task
  stroke,   \* history: the last stroke's two stamps, the time between the
            \* two readings, and its session; none once all bells stood, and
            \* after the ring-down time
  moves

timeVars == <<scene, now, pass, held, rangAt, edgeAt, noted, watch, app, midi, host, lost, on, sntp, task, stroke, moves>>

NoTask   == [at |-> "none", ringing |-> FALSE, ranks |-> <<>>, best |-> NoReply, left |-> 0, due |-> 0]
Loop     == [NoTask EXCEPT !.at = "wait"]
NoNote   == [bell |-> None, ms |-> None, at |-> None]
NoStroke == [at |-> None, tick |-> None, midi |-> None, took |-> 0, session |-> 0]

\* setup_sntp and the first burst; after it enough of them for the round trips to be known.
Booted(boot) ==
  LET quick == [rtt |-> 1, off |-> 0, tick |-> Raw(Start)]
      burst[n \in 0..RttHist] == IF n = 0 THEN Used(NewSntp(Start), 1)
                                 ELSE Finished(burst[n - 1], quick, 0, Raw(Start), FALSE)
  IN  IF boot = "synced" THEN burst[RttHist] ELSE NewSntp(Start)

TimeInit ==
  /\ scene \in Scenes
  /\ now = Start /\ pass = None /\ moves = 0
  /\ held = [b \in Bells |-> FALSE] /\ rangAt = [b \in Bells |-> None] /\ edgeAt = Start /\ noted = NoNote
  /\ watch = NewWatch(Start)
  /\ app = NewTicks(Start)
  /\ midi = NewStamps /\ host = NewHost /\ lost = 0
  /\ on = (scene.boot \in {"unsynced", "synced"}) /\ sntp = Booted(scene.boot)
  /\ task = IF on THEN Loop ELSE NoTask
  /\ stroke = NoStroke

-----------------------------------------------------------------------------
(* The sense step.                                                         *)

\* Readings of a clock stay well within half a period: heartbeats and looks
\* read it every second, and it wraps in days.
StillNear(c, time) == Ahead(c, Raw(time)) + Lag < Half

TimePasses ==
  /\ now < Start + scene.ticks
  /\ StillNear(app, now + 1) /\ (on => StillNear(sntp.ticks, now + 1))
  /\ now' = now + 1
  /\ edgeAt' = IF edgeAt > now - Lag THEN edgeAt ELSE now + 1 - Lag
  /\ UNCHANGED <<scene, pass, held, rangAt, noted, watch, app, midi, host, lost, on, sntp, task, stroke, moves>>

\* The kind of a bell's report.
Kind(b, level, began, at) ==
  IF at # None /\ began - at < RingWindow THEN "ringing" ELSE IF level THEN "stood" ELSE "idle"

\* _sync_ringing.
Synced(s, w) == IF on THEN SetRinging(s, Rings(w), Raw(now)) ELSE s

\* The stamps of a counted stroke: MIDI first, then the event.  MIDI's clock
\* is read once more after a write.
MidiStroke(raw, written) ==
  /\ midi' = StrokeStamp(midi, written, now)
  /\ IF written THEN host' = HostStroke(host, NextSeq(midi)) /\ lost' = lost
     ELSE host' = HostNothing(host) /\ lost' = lost + 1
  /\ app' = IF written THEN Extend(Extend(app, raw), Raw(now)) ELSE Extend(app, raw)

\* What is known of the stroke's MIDI stamp when its event is made.
NoteOf(b, raw) == IF scene.midi THEN [bell |-> b, ms |-> Extended(app, raw), at |-> now] ELSE NoNote

\* Network: the session is opened first.  Without a time client the event is
\* stamped with the app's clock.
NetStroke(raw, w, note) ==
  LET s == Synced(sntp, w)
      t == IF on THEN Stamp(s, raw).tick ELSE Extended(app, raw)
  IN  /\ sntp' = IF on THEN Stamped(s, raw) ELSE sntp
      /\ stroke' = [at |-> now, tick |-> t, session |-> IF on THEN s.session ELSE 0,
                    midi |-> IF note = NoNote THEN t ELSE note.ms,
                    took |-> IF note = NoNote THEN 0 ELSE now - note.at]

\* _channel: a stroke too close to the one before is not sent.
Channel(b, counted, raw, note) ==
  LET became == ~held[b]
      began  == IF pass = None THEN now ELSE pass
      rang   == IF became THEN began ELSE rangAt[b]
      w0     == IF became THEN watch ELSE Unmarked(watch, b)
      w      == Report(w0, b, Kind(b, became, began, rang), became, now)
  IN  /\ moves < scene.moves /\ moves' = moves + 1
      /\ counted => became
      /\ pass' = began
      /\ held' = [held EXCEPT ![b] = became]
      /\ rangAt' = [rangAt EXCEPT ![b] = rang]
      /\ watch' = w
      /\ IF counted THEN NetStroke(raw, w, note) ELSE UNCHANGED <<sntp, stroke>>
      /\ UNCHANGED <<scene, now, on, task>>

\* An edge is taken from the queue: its note and its event share its stamp, and
\* with it the judgement whether it is too close to the one before.
Edge(b, at, counted, written) ==
  /\ noted = NoNote /\ noted' = noted
  /\ at >= edgeAt /\ edgeAt' = at
  /\ written \/ (counted /\ scene.midi /\ lost < scene.faults)
  /\ IF counted /\ scene.midi THEN MidiStroke(Raw(at), written)
     ELSE app' = Extend(app, Raw(at)) /\ UNCHANGED <<midi, host, lost>>
  /\ Channel(b, counted, Raw(at), NoteOf(b, Raw(at)))

\* A change over a hand-over of the pins has no stamp.  If the ring counts it,
\* its note goes now; any time may pass until _channel has it.
Note(b, written) ==
  /\ noted = NoNote /\ scene.midi /\ ~held[b] /\ moves < scene.moves
  /\ written \/ lost < scene.faults
  /\ MidiStroke(Raw(now), written)
  /\ noted' = NoteOf(b, Raw(now))
  /\ pass' = IF pass = None THEN now ELSE pass
  /\ UNCHANGED <<scene, now, held, rangAt, edgeAt, watch, on, sntp, task, stroke, moves>>

\* _channel judges and stamps it by readings of its own.
Unstamped(b, counted) ==
  /\ noted.bell \in {None, b} /\ noted' = NoNote
  /\ app' = Extend(app, Raw(now))
  /\ Channel(b, counted, Raw(now), noted)
  /\ UNCHANGED <<edgeAt, midi, host, lost>>

\* Every bell's report at its level.
Looked(w, began) ==
  LET bell == [b \in Bells |-> Kind(b, held[b], began, rangAt[b])]
  IN  Reduced([w EXCEPT !.bell = bell, !.held = held, !.mark = {b \in @ : held[b]},
                        !.edge = IF \E b \in Bells : bell[b] = "ringing" THEN now ELSE @], now)

\* The rest of the step: the reports, a clock message if one is due (it may not
\* reach the host), the tower, and the session.
Look(heard) ==
  LET began == IF pass = None THEN now ELSE pass
      w     == Polled(Looked(watch, began), now)
      stood == w.edge # None /\ \A b \in Bells : w.bell[b] = "stood"
  IN  /\ noted = NoNote /\ noted' = noted /\ pass' = None
      /\ heard \/ (scene.faults > 0 /\ scene.midi /\ ClockDue(midi, now))
      /\ rangAt' = [b \in Bells |-> IF rangAt[b] # None /\ began - rangAt[b] < RingWindow THEN rangAt[b] ELSE None]
      /\ watch' = w
      /\ app' = IF scene.midi THEN Extend(app, Raw(now)) ELSE app
      /\ IF scene.midi /\ ClockDue(midi, now)
         THEN /\ midi' = ClockStamp(midi, now)
              /\ host' = IF heard THEN HostClock(host, midi.seq) ELSE HostNothing(host)
         ELSE UNCHANGED <<midi, host>>
      /\ sntp' = Synced(sntp, w)
      /\ stroke' = IF stood \/ now - stroke.at >= RingdownS THEN NoStroke ELSE stroke
      /\ UNCHANGED <<scene, now, held, edgeAt, lost, on, task, moves>>

-----------------------------------------------------------------------------
(* The other tasks: they run between sense steps.                          *)

Between == pass = None

\* heartbeat_doc: a stamp of now.
Beat ==
  /\ Between
  /\ sntp' = IF on THEN Stamped(sntp, Raw(now)) ELSE sntp
  /\ app' = IF on THEN app ELSE Extend(app, Raw(now))
  /\ UNCHANGED <<scene, now, pass, held, rangAt, edgeAt, noted, watch, midi, host, lost, on, task, stroke, moves>>

\* _wifi_regained: a time client, once there is a network.
WifiUp ==
  /\ Between /\ ~on /\ scene.boot = "late"
  /\ on' = TRUE /\ sntp' = NewSntp(now) /\ task' = Loop
  /\ UNCHANGED <<scene, now, pass, held, rangAt, edgeAt, noted, watch, app, midi, host, lost, stroke, moves>>

TaskOnly == UNCHANGED <<scene, now, pass, held, rangAt, edgeAt, noted, watch, app, midi, host, lost, on, stroke, moves>>

\* _wait_s, from the start of the wait.
Waiting(s, ringing) ==
  [Loop EXCEPT !.due = now + IF ~ringing /\ SyncState(s) = "unsynced" THEN Retry ELSE Interval]

Replies(tick) == {NoReply} \cup [rtt : scene.rtts, off : Offsets, tick : {tick}]

\* One query with left more to come: the burst's last one finishes it.
Queried(s, ringing, best, left) ==
  \E r \in IF s.server = 0 THEN {NoReply} ELSE Replies(Extended(s.ticks, Raw(now))) :
    LET b == Better(best, r)
        c == [s EXCEPT !.ticks = Extend(@, Raw(now))]
    IN  IF left > 0
        THEN sntp' = c /\ task' = [NoTask EXCEPT !.at = "query", !.ringing = ringing, !.best = b, !.left = left]
        ELSE \E dr \in Drifts :
               /\ sntp' = Finished(c, b, dr, Extended(c.ticks, Raw(now)), ringing)
               /\ task' = Waiting(sntp', ringing)

\* With one server there is no choice; several are probed, the first at once.
Probed(s, ranks) ==
  \E rank \in 0..2 :
    /\ sntp' = [s EXCEPT !.ticks = Extend(@, Raw(now))]
    /\ task' = [NoTask EXCEPT !.at = "probe", !.ranks = Append(ranks, rank)]

\* The wait is over, or a kick ended it; while ringing without samples there is no burst.
Begin ==
  /\ Between /\ task.at = "wait" /\ (sntp.kick \/ now >= task.due)
  /\ LET s == [sntp EXCEPT !.kick = @ /\ now >= task.due]
         n == IF s.ringing THEN RingQueries ELSE scene.queries
     IN  IF s.ringing /\ ~scene.sample THEN sntp' = s /\ task' = Waiting(s, TRUE)
         ELSE IF scene.servers > 1 /\ ~s.ringing THEN Probed(s, <<>>)
         ELSE Queried(IF scene.servers = 1 /\ s.server = 0 THEN [s EXCEPT !.server = 1] ELSE s,
                      s.ringing, NoReply, n - 1)
  /\ TaskOnly

\* The next probe, or the choice and the first query.
Probe ==
  /\ Between /\ task.at = "probe"
  /\ IF Len(task.ranks) < scene.servers THEN Probed(sntp, task.ranks)
     ELSE Queried(Used(sntp, Chosen(task.ranks)), FALSE, NoReply, scene.queries - 1)
  /\ TaskOnly

Query ==
  /\ Between /\ task.at = "query"
  /\ Queried(sntp, task.ringing, task.best, task.left - 1)
  /\ TaskOnly

TimeNext ==
  \/ TimePasses
  \/ \E b \in scene.heads, at \in (now - Lag)..now, counted, written \in BOOLEAN : Edge(b, at, counted, written)
  \/ \E b \in scene.heads, written \in BOOLEAN : Note(b, written)
  \/ \E b \in scene.heads, counted \in BOOLEAN : Unstamped(b, counted)
  \/ \E heard \in BOOLEAN : Look(heard)
  \/ Beat
  \/ WifiUp
  \/ Begin
  \/ Probe
  \/ Query

TimeSpec == TimeInit /\ [][TimeNext]_timeVars

-----------------------------------------------------------------------------
(* Properties.                                                             *)

\* No stamp's UTC is below one that was issued before it for an earlier tick:
\* across bursts, steps, slews, server changes and sessions the guard in
\* stamp() never has anything to do.
UtcNeverDecreases == sntp.hits = 0

\* While a ringing session lasts, the UTC of each of its ticks stays what it
\* was when the session began: samples, a burst that was under way when the
\* ringing began and a change of server leave the mapping alone.
OneLinePerSession ==
  [][sntp.ringing /\ sntp'.ringing /\ sntp'.session = sntp.session =>
       \A t \in sntp.since..(Start + scene.ticks) : Utc(sntp', t) = Utc(sntp, t)]_timeVars

\* Strokes less than the ring-down time apart are one session, unless every
\* bell stood in between.  A stroke sent before there was a time client has
\* session 0, which is none.
TouchIsOneSession ==
  [][stroke.at # None /\ stroke'.at # None /\ stroke.session # 0 /\ stroke'.session # stroke.session =>
       now - stroke.at >= RingdownS]_timeVars

\* The event of a stroke and its MIDI stamp are on one scale: they carry the
\* same millisecond, or, if the stroke had no keypad stamp, differ by exactly
\* the time that passed between the two readings.
OneScale == stroke.tick = stroke.midi + stroke.took

\* When a stamp has reached the host, it knows how many strokes it missed.
LostStrokesShow == host.fresh => host.missed = lost
=============================================================================
