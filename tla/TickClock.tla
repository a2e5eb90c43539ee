----------------------------- MODULE TickClock -----------------------------
(***************************************************************************)
(* supervisor.ticks_ms made longer than its wrap (sntp_pico.py, TickClock).*)
(* A reading of the counter is taken to be at most half a period away from *)
(* the last one: ahead of it, or, if that would be further, an older stamp.*)
(***************************************************************************)
EXTENDS Integers

CONSTANT Period     \* TICKS_PERIOD, 2^29 ms in the code

ASSUME PeriodAssumption == Period \in Nat \ {0} /\ Period % 2 = 0

Half == Period \div 2

\* What the counter shows at a time.
Raw(time) == time % Period

\* TickClock(): from here on it counts past the wrap.
NewTicks(time) == [raw |-> Raw(time), ext |-> Raw(time)]

Ahead(c, raw) == (raw - c.raw) % Period
Behind(c, raw) == (c.raw - raw) % Period

\* Mutant: every stamp is taken to be ahead.
Extended_Ahead(c, raw) == c.ext + Ahead(c, raw)

\* What extend() returns.
Extended(c, raw) == IF Ahead(c, raw) < Half THEN c.ext + Ahead(c, raw) ELSE c.ext - Behind(c, raw)

\* What it leaves behind: only a stamp that is ahead moves the clock on.
Extend(c, raw) == IF Ahead(c, raw) < Half THEN [raw |-> raw, ext |-> Extended(c, raw)] ELSE c
=============================================================================
