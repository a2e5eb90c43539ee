-------------------------------- MODULE Mux --------------------------------
(***************************************************************************)
(* The select lines of the two 4051s and the threshold behind them         *)
(* (mux_select.py, drive_path.py).  A Tower object is a record: the        *)
(* channel whose lines are driven, the one that holds the lock, and how    *)
(* often that one has re-entered it.  With it go the duty of the one PWM   *)
(* and the hold capacitor of every channel: the one selected follows the   *)
(* PWM, the others keep what they have.  No droop, and every wait for the  *)
(* filter is long enough.                                                  *)
(***************************************************************************)
EXTENDS Integers

CONSTANTS
  NBells,     \* the channels of the mux
  Duties      \* bound: the thresholds asked for, above 0

ASSUME MuxAssumption ==
  /\ NBells \in Nat \ {0}
  /\ Duties \subseteq Nat \ {0}

Bells  == 1..NBells
NoBell == 0
Off    == 0

Towers == [current : Bells \cup {NoBell}, holder : Bells \cup {NoBell}, depth : Nat,
           duty : Duties \cup {Off}, cap : [Bells -> Duties \cup {Off}]]

NewTower == [current |-> NoBell, holder |-> NoBell, depth |-> 0,
             duty |-> Off, cap |-> [b \in Bells |-> Off]]

\* _take raises ChannelBusy: never a silent switch.
Busy(t, b) == t.holder # NoBell /\ t.holder # b

\* _take: the lock, then the lines; the capacitor of b joins the filter.
Taken(t, b) == [current |-> b, holder |-> b, depth |-> t.depth + 1,
                duty |-> t.duty, cap |-> [t.cap EXCEPT ![b] = t.duty]]

\* Mutant: the first user to leave frees the lock for all of them.
Given_Free(t) == [t EXCEPT !.depth = 0, !.holder = NoBell]

\* _give: the lock is free when its last user leaves.  The lines stay.
Given(t) ==
  IF t.depth <= 1 THEN [t EXCEPT !.depth = 0, !.holder = NoBell]
                  ELSE [t EXCEPT !.depth = @ - 1]

\* DrivePath.set and off: the PWM, and after the wait the channel selected.
Driven(t, duty) ==
  [t EXCEPT !.duty = duty,
            !.cap = [b \in Bells |-> IF b = t.current THEN duty ELSE @[b]]]

=============================================================================
