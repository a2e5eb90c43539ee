----------------------------- MODULE SendTable -----------------------------
(***************************************************************************)
(* The /ws send path's health (link_health.py, class SendPath): one table  *)
(* driven state machine that every send of the farm link reports to and    *)
(* every poll asks for a plan.  lwIP may sleep ten seconds inside one      *)
(* send, so the only defence is to stop in time: refuse newcomers          *)
(* (BACKOFF), replay gently for hours (DEGRADED), and write nothing at all *)
(* until lwIP has freed what is queued (DRAIN).                            *)
(*                                                                         *)
(* Time.  The code compares time.monotonic() with hold_until, last_bad and *)
(* level_since.  Here the differences are kept instead of the dates:       *)
(* hold is what is left until hold_until, and age is how long ago the      *)
(* latest of last_bad, level_since and hold_until was, up to AgeCap.  The  *)
(* clock itself is then unbounded and the state is finite.                 *)
(***************************************************************************)
EXTENDS Integers

CONSTANTS
  MaxLevel,   \* SEND_MAX_LEVEL
  HoldS,      \* level -> how long BACKOFF lasts           (SEND_LEVELS, hold_s)
  CalmS,      \* level -> good time before the level falls (SEND_LEVELS, calm_s)
  DrainS,     \* DRAIN_S
  AgeCap      \* age is counted up to here: no calm_s is longer

Levels == 0..MaxLevel

ASSUME LevelsAssumption ==
  /\ MaxLevel \in Nat /\ MaxLevel > 0
  /\ HoldS \in [Levels -> Nat]
  /\ CalmS \in [Levels -> Nat]
  /\ AgeCap \in Nat /\ \A l \in Levels : CalmS[l] <= AgeCap
  /\ DrainS \in Nat /\ DrainS > 0

States == {"OK", "BACKOFF", "DEGRADED", "DRAIN"}

\* Every value a SendPath object can have.
Paths == [state : States, level : Levels, hold : Nat, age : 0..AgeCap]

-----------------------------------------------------------------------------
(* What a send call reports, and what the machine makes of it.             *)

Kinds == {"replay", "live", "server", "close", "poll", "reply", "gone"}

\* How long a call took, in bands that SLOW_S and STARVED_S tell apart: below
\* its own kind's SLOW_S, at or above it, and at or above STARVED_S.
Bands == {"quick", "slow", "starved"}

\* A /status chunk has SLOW_S = STARVED_S, so it is never merely slow.
Reports == {r \in [kind : Kinds, took : Bands, ok : BOOLEAN] :
              r.kind = "reply" => r.took # "slow"}

IsBad(r) == r.took # "quick" \/ (~r.ok /\ r.kind \notin {"close", "reply", "gone"})

EventOf(r) ==
  CASE r.took = "starved" /\ r.kind = "reply"  -> "answered"
    [] r.took = "starved" /\ r.kind \notin {"reply", "poll"} -> "starved"
    [] OTHER -> "bad"

-----------------------------------------------------------------------------
(* The transition table.                                                   *)

Target(s, e) ==
  CASE e \in {"starved", "answered", "nomem"}  -> "DRAIN"
    [] e = "bad" /\ s # "DRAIN"                -> "BACKOFF"
    [] e = "hold_over" /\ s = "BACKOFF"        -> "DEGRADED"
    [] e = "drained" /\ s = "DRAIN"            -> "DEGRADED"
    [] OTHER                                   -> s

Rise(s, e) ==
  CASE s \in {"OK", "DEGRADED"} /\ e \in {"bad", "starved"} -> 1
    [] s = "DEGRADED" /\ e = "calm"                         -> -1
    [] OTHER                                                -> 0

Clamp(l) == IF l < 0 THEN 0 ELSE IF l > MaxLevel THEN MaxLevel ELSE l

\* Mutant: the row for level 0 is missing from the table.
Settle_NeverOk(p) == p

\* DEGRADED at level 0 is OK: the level0 row, fired at once.
Settle(p) ==
  IF p.state = "DEGRADED" /\ p.level = 0 THEN [p EXCEPT !.state = "OK"] ELSE p

\* A holding state is entered: hold_until is stamped then, and only then.
Enters(p, e) == Target(p.state, e) # p.state /\ Target(p.state, e) \in {"DRAIN", "BACKOFF"}

\* Mutant: level_since is not stamped when the level changes.
AgeAfter_ForgetsLevelSince(p, e) == IF Enters(p, e) THEN 0 ELSE p.age

\* The calm timer starts again at every hold and at every change of level.
AgeAfter(p, e) == IF Enters(p, e) \/ Rise(p.state, e) # 0 THEN 0 ELSE p.age

HoldAfter(p, e, level) ==
  IF ~Enters(p, e) THEN p.hold
  ELSE IF Target(p.state, e) = "DRAIN" THEN DrainS ELSE HoldS[level]

\* SendPath._fire: a second stall during a hold does not lengthen the hold.
Fire(p, e) ==
  LET level == Clamp(p.level + Rise(p.state, e))
  IN  Settle([state |-> Target(p.state, e), level |-> level,
              hold |-> HoldAfter(p, e, level), age |-> AgeAfter(p, e)])

\* Mutant: the last second of the hold is not waited for.
HoldOver_Early(p) == IF p.state = "BACKOFF" /\ p.hold <= 1 THEN Fire(p, "hold_over") ELSE p

HoldOver(p) == IF p.state = "BACKOFF" /\ p.hold = 0 THEN Fire(p, "hold_over") ELSE p

Drained(p) == IF p.state = "DRAIN" /\ p.hold = 0 THEN Fire(p, "drained") ELSE p

Calm(p) ==
  IF p.state = "DEGRADED" /\ p.age >= CalmS[p.level] THEN Fire(p, "calm") ELSE p

\* Mutant: nothing ever calms down.
Timed_NoCalm(p) == Drained(HoldOver(p))

\* SendPath._timed: the transitions that only need the clock, in this order.
Timed(p) == Calm(Drained(HoldOver(p)))

\* What each state lets farm_ws do.
Accepts(p) == p.state \in {"OK", "DEGRADED"}
Serves(p)  == p.state # "DRAIN"
Writes(p)  == p.state # "DRAIN"

\* A bad send stamps last_bad before the event is fired.
AfterReport(p, r) ==
  IF IsBad(r) THEN Fire([p EXCEPT !.age = 0], EventOf(r)) ELSE p

Fresh == [state |-> "OK", level |-> 0, hold |-> 0, age |-> 0]

\* A second passes.
Older(p) ==
  [p EXCEPT !.hold = IF p.hold > 0 THEN p.hold - 1 ELSE 0,
            !.age  = IF p.hold = 0 /\ p.age < AgeCap THEN p.age + 1 ELSE p.age]
=============================================================================
