------------------------------ MODULE SenseKeys ------------------------------
(***************************************************************************)
(* The sense inputs as stamped edges (sense_keys.py, SenseKeys).  One      *)
(* owner, two modes: keypad scans the pins and queues every change with    *)
(* its stamp, or the survey holds them as plain inputs.  Edges are moved   *)
(* from keypad's queue to the owner's list by pump, and taken by drain.    *)
(*                                                                         *)
(* A stamp is kept as the age of the edge; a change that happened while    *)
(* nothing watched has none and counts as happening when it is handled.    *)
(***************************************************************************)
EXTENDS Integers, Sequences, SequencesExt, Queues

CONSTANTS
  NChannels,
  QueueLen    \* inputs.event_queue_len: keypad's queue and the owner's list

ASSUME SenseAssumption == NChannels \in Nat \ {0} /\ QueueLen \in Nat \ {0}

Channels == 1..NChannels

Unstamped == -1
Edge(ch, held, age) == [ch |-> ch, held |-> held, age |-> age]

\* queue, scanned and full are keypad's: its events, the levels it has
\* reported, and its overflowed flag.  lost stands for overflows > 0.
Keys(known) == [mode |-> "keys", queue |-> <<>>, scanned |-> known, full |-> FALSE,
                known |-> known, pending |-> <<>>, lost |-> FALSE]

\* keypad's background scan finds ch at a level: a change is queued, or dropped
\* by a full queue.
Scan(s, ch, held) ==
  CASE s.mode # "keys" \/ s.scanned[ch] = held -> s
    [] s.mode = "keys" /\ s.scanned[ch] # held /\ Len(s.queue) < QueueLen ->
         [s EXCEPT !.scanned[ch] = held, !.queue = Append(@, Edge(ch, held, 0))]
    [] OTHER -> [s EXCEPT !.scanned[ch] = held, !.full = TRUE]

\* One event of keypad's queue.  No change: the first scan of a held key.
Moved(s, e) ==
  CASE e.held = s.known[e.ch] -> s
    [] e.held # s.known[e.ch] /\ Len(s.pending) >= QueueLen ->
         [s EXCEPT !.known[e.ch] = e.held, !.lost = TRUE]
    [] OTHER -> [s EXCEPT !.known[e.ch] = e.held, !.pending = Append(@, e)]

Pump(s) ==
  LET moved[i \in 0..Len(s.queue)] ==
        IF i = 0 THEN s ELSE Moved(moved[i - 1], s.queue[i])
  IN  IF s.mode # "keys" THEN s
      ELSE [moved[Len(s.queue)] EXCEPT !.queue = <<>>, !.full = FALSE, !.lost = @ \/ s.full]

\* A level that changed while nothing watched is an edge without a stamp.
ReadLevels(s, level) ==
  LET now     == [ch \in Channels |-> Edge(ch, level[ch], Unstamped)]
      changed == {ch \in Channels : s.known[ch] # level[ch]}
  IN  [s EXCEPT !.known = level, !.pending = @ \o Keeping(now, {now[ch] : ch \in changed})]

\* Mutant: what keypad still held goes with it.
ToPins_Unpumped(s, level) ==
  IF s.mode = "pins" THEN s
  ELSE [s EXCEPT !.mode = "pins", !.queue = <<>>, !.known = level]

ToPins(s, level) ==
  IF s.mode = "pins" THEN s ELSE [ReadLevels(Pump(s), level) EXCEPT !.mode = "pins"]

\* keypad starts with every key up, and its first scan reports the held ones.
ToKeys(s, level) ==
  LET down == [ch \in Channels |-> Edge(ch, TRUE, 0)]
  IN  IF s.mode = "keys" THEN s
      ELSE [ReadLevels(s, level) EXCEPT
              !.mode = "keys", !.scanned = level, !.full = FALSE,
              !.queue = Keeping(down, {down[ch] : ch \in {c \in Channels : level[c]}})]

\* The edges so far, and what is left: nothing.
Drained(s) == Pump(s).pending
Drain(s) == [Pump(s) EXCEPT !.pending = <<>>]
=============================================================================
