----------------------------- MODULE MidiStamp -----------------------------
(***************************************************************************)
(* The Pico's own time on the MIDI stream (midi_stamp.py, MidiStamp): a    *)
(* stamp after each note, numbered 1, 2, .., SeqMax, 1, .., and a clock    *)
(* message with the number of the last stroke when it is quiet.  A write   *)
(* may fail.  And what a host can make of the numbers.                     *)
(***************************************************************************)
EXTENDS Integers

CONSTANTS
  SeqMax,   \* STAMP_SEQ_MAX
  ClockMs   \* clock_period_ms, 0: no clock

ASSUME StampAssumption == SeqMax \in Nat \ {0} /\ ClockMs \in Nat

\* seq: of the last stroke; last: tick of the last write.
NewStamps == [seq |-> 0, last |-> -1]

NextSeq(m) == (m.seq % SeqMax) + 1

\* Mutant: a stroke that could not be written is not numbered.
StrokeStamp_IfWritten(m, written, now) == IF written THEN [seq |-> NextSeq(m), last |-> now] ELSE m

\* stroke: numbered whether it can be written or not.
StrokeStamp(m, written, now) == [seq |-> NextSeq(m), last |-> IF written THEN now ELSE m.last]

ClockDue(m, now) == ClockMs > 0 /\ (m.last = -1 \/ now - m.last >= ClockMs)

\* clock: no retry every pass.
ClockStamp(m, now) == [m EXCEPT !.last = now]

\* The host: the number it saw last, how many strokes it knows it missed, and
\* whether the last message reached it.
NewHost == [seq |-> 0, missed |-> 0, fresh |-> TRUE]

HostStroke(h, seq) == [seq |-> seq, missed |-> h.missed + ((seq - h.seq - 1) % SeqMax), fresh |-> TRUE]
HostClock(h, seq)  == [seq |-> seq, missed |-> h.missed + ((seq - h.seq) % SeqMax), fresh |-> TRUE]
HostNothing(h)     == [h EXCEPT !.fresh = FALSE]
=============================================================================
