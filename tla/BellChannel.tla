---------------------------- MODULE BellChannel ----------------------------
(***************************************************************************)
(* One channel of the concentrator: what an edge, or a look at its current *)
(* level, makes of it (concentrator.py: _channel, _trigger_edge,           *)
(* _trigger_note), and what the Ring makes of the same edge (ring.py,      *)
(* Ring.edge).  The two keep time and levels of their own.                 *)
(*                                                                         *)
(* Times are ages, None before the first; an edge is `age` old when it is  *)
(* handled, a look at the level is now.                                    *)
(***************************************************************************)
EXTENDS Integers

CONSTANTS
  GapMs,      \* MIN_STROKE_GAP_MS
  RearmMs,    \* TRIGGER_REARM_MS
  TrigGapMs,  \* TRIGGER_MIN_GAP_MS
  StuckMs,    \* TRIGGER_STUCK_MS
  MaxAge      \* bound: how old an edge may be when it is handled

ASSUME ChannelAssumption ==
  /\ {GapMs, RearmMs, TrigGapMs, StuckMs} \subseteq Nat \ {0} /\ MaxAge \in Nat
  /\ RearmMs <= TrigGapMs /\ TrigGapMs <= GapMs /\ GapMs <= StuckMs

None == -1

\* Far enough back to be past every gap for an edge of any age.
Long(gap) == gap + MaxAge

Aged(age, gap) == IF age = None \/ age = Long(gap) THEN age ELSE age + 1

\* The gap between something of an age and an edge.
Since(age, edge) == age - edge

\* What a socket may be taken for.
HeadNames == {"head", "trigger", "lb", "empty", "fault", "unknown"}
Plugs == {"lb", "empty", "fault"}

\* prev: _prev_held; watched: last_false is set; stroke: age of stroke_ms;
\* armed, open, low, stuck, sounding: the trigger's.
Bell(held) == [prev |-> held, watched |-> FALSE, stroke |-> None, armed |-> FALSE,
               open |-> None, low |-> None, stuck |-> FALSE, sounding |-> FALSE]

\* A trigger whose switch is open, at an edge or a look of an age.
Opened(c, age) ==
  LET since == IF c.open # None /\ c.open < age THEN age ELSE c.open
  IN  [c EXCEPT !.low = None, !.stuck = FALSE,
                !.open = IF since = None THEN age ELSE since,
                !.armed = @ \/ (since # None /\ Since(since, age) >= RearmMs)]

\* The switch is down.  Counted: armed, and long enough after the last.
Armed(c, age) == c.armed \/ (c.open # None /\ Since(c.open, age) >= RearmMs)
Press(c, age) == Armed(c, age) /\ (c.stroke = None \/ Since(c.stroke, age) >= TrigGapMs)
Stuck(c, age, quiet) ==
  quiet /\ ~c.stuck /\ c.low # None /\ Since(c.low, age) >= StuckMs

Pressed(c, age, quiet) ==
  [c EXCEPT !.open = None, !.armed = FALSE,
            !.low = IF @ = None THEN age ELSE @,
            !.stuck = @ \/ Stuck(c, age, quiet),
            !.stroke = IF Press(c, age) THEN age ELSE @]

\* Its note: on with a counted press, off with the first look that finds the
\* switch open.
Note(c, held, counted) ==
  CASE counted /\ ~c.sounding -> "on"
    [] ~held /\ c.sounding    -> "off"
    [] OTHER                  -> "none"

TriggerEdge(c, held, age, quiet) ==
  LET counted == held /\ Press(c, age)
      note    == Note(c, held, counted)
      b       == IF held THEN Pressed(c, age, quiet) ELSE Opened(c, age)
  IN  [bell    |-> [b EXCEPT !.sounding = (note = "on") \/ (@ /\ note # "off")],
       counted |-> counted, note |-> note, doubt |-> held /\ Stuck(c, age, quiet)]

\* Every other channel: a falling edge is a stroke, unless it is a double.
PlainEdge(c, became, age) ==
  LET double  == c.stroke # None /\ Since(c.stroke, age) < GapMs
      counted == became /\ c.watched /\ ~double
  IN  [bell    |-> [c EXCEPT !.stroke = IF counted THEN age ELSE @],
       counted |-> counted, note |-> "none", doubt |-> FALSE]

\* _channel: held is the level after the edge, or the current one.
Channel(c, head, held, age, quiet) ==
  LET became == held /\ ~c.prev
      b      == [c EXCEPT !.prev = held]
      e      == IF head = "trigger" THEN TriggerEdge(b, held, age, quiet)
                                    ELSE PlainEdge(b, became, age)
  IN  IF held # c.prev /\ head \in Plugs
      THEN [bell |-> b, counted |-> FALSE, note |-> "none", doubt |-> TRUE]
      ELSE [e EXCEPT !.bell.watched = @ \/ ~held]

-----------------------------------------------------------------------------
(* The Ring: one head.                                                     *)

\* head: in Ring.heads; lit: its laser is on; on: age of on_at, kept over a stop.
Silent == [head |-> FALSE, lit |-> FALSE, rest |-> FALSE, prev |-> FALSE, sounding |-> FALSE, on |-> None]

\* start: the laser on, the level now is the rest.
Started(r, level) == [r EXCEPT !.head = TRUE, !.lit = TRUE, !.rest = level, !.prev = level]

Stopped(r) == [r EXCEPT !.lit = FALSE, !.sounding = FALSE]

\* An edge: on off the rest, off back to it.
RingNote(r, held, age) ==
  LET trip   == held # r.rest
      double == r.on # None /\ Since(r.on, age) < GapMs
  IN  CASE held = r.prev                    -> "none"
        [] held # r.prev /\ trip /\ ~r.sounding /\ ~double -> "on"
        [] held # r.prev /\ ~trip /\ r.sounding -> "off"
        [] OTHER                            -> "none"

RingEdge(r, held, age) ==
  LET note == RingNote(r, held, age)
  IN  [r EXCEPT !.prev = held,
                !.on = IF note = "on" THEN age ELSE @,
                !.sounding = (note = "on") \/ (@ /\ note # "off")]
=============================================================================
