----------------------------- MODULE MCSendPath -----------------------------
(* Four levels with the shape of SEND_LEVELS: holds grow, calm times fall,  *)
(* one level has no calm time to wait, and every hold is shorter or longer  *)
(* than the drain.                                                          *)
EXTENDS SendPath

MCHoldS == [l \in 0..3 |-> CASE l = 0 -> 0 [] l = 1 -> 1 [] l = 2 -> 2 [] OTHER -> 5]

MCCalmS == [l \in 0..3 |-> CASE l = 0 -> 0 [] l = 3 -> 2 [] OTHER -> 4]
=============================================================================
