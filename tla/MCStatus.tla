------------------------------ MODULE MCStatus ------------------------------
(* One poller that keeps a copy and asks for what changed, one that asks    *)
(* for everything; room for one of them.  Every time of the code is one     *)
(* tick: each comparison is met on both sides, in every order.              *)
EXTENDS Status, TLC

CONSTANTS p1, p2, s1, t1, t2

Symmetry == Permutations(Sections) \cup Permutations(Texts)
=============================================================================
