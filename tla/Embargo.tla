------------------------------ MODULE Embargo -------------------------------
(***************************************************************************)
(* What the send path promises to the code that owns the sockets           *)
(* (link_health.SendPlan: accept, serve, writes), without levels, tables   *)
(* or calm timers.  The door is open, or newcomers are refused, or the     *)
(* whole link is sealed.  A seal always lasts its full SealS, whatever is  *)
(* reported meanwhile; nothing but the passing of its time ends a refusal, *)
(* except a seal.                                                          *)
(***************************************************************************)
EXTENDS Naturals

CONSTANTS
  SealS,      \* how long a seal lasts
  Refusals    \* how long a refusal may last

VARIABLES
  door,       \* "open", "refusing" or "sealed"
  left        \* time left until the door may open

vars == <<door, left>>

Init == door = "open" /\ left = 0

Pass == left > 0 /\ left' = left - 1 /\ UNCHANGED door

Refuse ==
  /\ door = "open" \/ left = 0
  /\ door' = "refusing"
  /\ left' \in Refusals

Seal ==
  /\ door # "sealed" \/ left = 0
  /\ door' = "sealed"
  /\ left' = SealS

Reopen == door # "open" /\ left = 0 /\ door' = "open" /\ left' = 0

Next == Pass \/ Refuse \/ Seal \/ Reopen

Spec == Init /\ [][Next]_vars

\* A door that may open is opened, unless something goes wrong at that moment.
FairSpec == Spec /\ WF_vars(Pass) /\ WF_vars(Reopen)
=============================================================================
