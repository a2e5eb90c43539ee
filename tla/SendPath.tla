------------------------------ MODULE SendPath ------------------------------
(***************************************************************************)
(* The send path on its own: any report of any call, at any time, with the *)
(* plan asked for as often as the poll task asks for it.  SendTable holds  *)
(* the machine; this module is its life and what it must guarantee.        *)
(***************************************************************************)
EXTENDS SendTable

VARIABLES
  path,       \* the SendPath object
  last,       \* what the latest step was: "time", "plan", "bad", "good", "nomem"
  steady      \* history: time since the latest bad send or change of level

vars == <<path, last, steady>>

\* The types of the machine's fields; the level is an index into SEND_LEVELS.
TypeOK ==
  /\ path \in Paths
  /\ last \in {"time", "plan", "bad", "good", "nomem"}
  /\ steady \in 0..AgeCap

-----------------------------------------------------------------------------
Init == path = Fresh /\ last = "plan" /\ steady = 0

\* A second passes.
Tick ==
  /\ path' = Older(path)
  /\ last' = "time"
  /\ steady' = IF steady < AgeCap THEN steady + 1 ELSE steady

\* How the history variable follows a step that takes no time.
Watch == steady' = IF last' = "bad" \/ path'.level # path.level THEN 0 ELSE steady

\* plan(): the timed transitions, then the permissions are read.
Plan == path' = Timed(path) /\ last' = "plan" /\ Watch

\* observe(): one send or serve call returned, or raised.
Observe(r) ==
  /\ path' = AfterReport(Timed(path), r)
  /\ last' = IF IsBad(r) THEN "bad" ELSE "good"
  /\ Watch

\* memory_low(): a MemoryError on the poll path.
MemoryLow ==
  /\ path' = Fire(Timed(path), "nomem")
  /\ last' = "nomem"
  /\ Watch

Next == Tick \/ Plan \/ MemoryLow \/ \E r \in Reports : Observe(r)

Spec == Init /\ [][Next]_vars

\* Time passes, and ws_poll_task asks for a plan every 50 ms for ever.
Fairness == WF_vars(Tick) /\ WF_vars(Plan)

FairSpec == Spec /\ Fairness

-----------------------------------------------------------------------------
(* What the machine must guarantee.                                        *)

\* The state and the level agree: OK is exactly level 0 outside a drain, and
\* nobody is refused, or treated gently, at level 0 (a drain without a raised
\* level falls straight back to OK).
LevelFits(p) ==
  /\ p.state = "OK" => p.level = 0
  /\ p.state \in {"BACKOFF", "DEGRADED"} => p.level > 0

\* While clients are accepted no hold is running: _timed is the only way out
\* of BACKOFF and DRAIN, and a new hold always closes the door at once.
OpenMeansNoHold(p) == Accepts(p) => p.hold = 0

\* The age of the calm timer never runs ahead of what really happened.
AgeIsEarned == path.age <= steady

\* The three facts the other properties rest on, with the types: the invariant
\* that the machine's steps preserve.
SendInv == TypeOK /\ LevelFits(path) /\ OpenMeansNoHold(path) /\ AgeIsEarned

\* A level that was needed is given up one step at a time, and only after that
\* level's own calm_s without a bad send and without another change of level.
LevelIsGivenUpSlowly ==
  [][path'.level < path.level =>
       path'.level = path.level - 1 /\ steady >= CalmS[path.level]]_vars

\* Whatever went wrong, once nothing is bad any more the path comes back to
\* level 0, accepting and writing, and stays there.
Recovers == <>[](last \in {"time", "plan", "good"}) => <>[](path.state = "OK")
\* What farm_ws sees of the path is the embargo: three permissions and a hold.
Door ==
  IF Accepts(path) THEN "open" ELSE IF Writes(path) THEN "refusing" ELSE "sealed"

Promise == INSTANCE Embargo WITH
  door <- Door, left <- path.hold,
  SealS <- DrainS, Refusals <- {HoldS[l] : l \in Levels}

\* The machine implements the embargo: in particular every drain lasts DRAIN_S
\* and no report, calm timer or second stall cuts it short.
KeepsPromise == Promise!Spec

\* And it does not hold the door shut for longer than that.
KeepsPromiseFairly == Promise!FairSpec
=============================================================================
