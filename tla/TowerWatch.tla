----------------------------- MODULE TowerWatch -----------------------------
(***************************************************************************)
(* Whether the tower rings (tower_watch.py, TowerWatch): every bell is     *)
(* reported as ringing, stood or idle, and the tower is active, ringing    *)
(* down or inactive.  A day's tick marks the heads whose return is held.   *)
(* The watch is a record w; times are absolute.                            *)
(***************************************************************************)
EXTENDS Integers, FiniteSets

CONSTANTS
  Bells,      \* channel numbers
  RingdownS,  \* RINGDOWN_S
  DayS        \* DAY_S

ASSUME WatchAssumption == Bells = 1..Cardinality(Bells) /\ {RingdownS, DayS} \subseteq Nat \ {0}

\* edge: last_edge; day: day_origin.
NewWatch(time) ==
  [bell |-> [b \in Bells |-> "idle"], held |-> [b \in Bells |-> FALSE], tower |-> "boot",
   edge |-> -1, day |-> time, mark |-> {}]

\* Mutant: one bell that stands ends the ringing, not all of them.
Reduced_AnyStands(w, now) ==
  LET over  == (\E b \in Bells : w.bell[b] = "stood") \/ now - w.edge >= RingdownS
      tower == IF w.edge # -1 /\ \E b \in Bells : w.bell[b] = "ringing" THEN "active"
               ELSE IF w.edge = -1 \/ over THEN "inactive" ELSE "ringing_down"
  IN  [w EXCEPT !.tower = tower]

\* _reduce.
Reduced(w, now) ==
  LET tower ==
        CASE w.edge = -1 -> "inactive"
          [] w.edge # -1 /\ \E b \in Bells : w.bell[b] = "ringing" -> "active"
          [] w.edge # -1 /\ \A b \in Bells : w.bell[b] = "stood"   -> "inactive"
          [] OTHER -> IF now - w.edge >= RingdownS THEN "inactive" ELSE "ringing_down"
  IN  [w EXCEPT !.tower = tower]

\* One head, one report.
Report(w, b, kind, held, now) ==
  Reduced([w EXCEPT !.bell[b] = kind, !.held[b] = held,
                    !.edge = IF kind = "ringing" THEN now ELSE @], now)

Rings(w) == w.tower \in {"active", "ringing_down"}

\* _on_tick, of the local day: dropped while the tower rings.
OnTick(w) == IF Rings(w) THEN w ELSE [w EXCEPT !.mark = @ \cup {b \in Bells : w.held[b]}]

\* poll: ring-down, and the day.
Polled(w, now) ==
  LET r == Reduced(w, now)
  IN  IF now - r.day >= DayS THEN OnTick([r EXCEPT !.day = now]) ELSE r

\* clear_test.
Unmarked(w, b) == [w EXCEPT !.mark = @ \ {b}]
=============================================================================
