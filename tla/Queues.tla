-------------------------------- MODULE Queues --------------------------------
(***************************************************************************)
(* What the modules with queues share.  SelectSeq says the same as Keeping;*)
(* this one is a recursive function, so that QueueFacts can prove what it  *)
(* does.                                                                   *)
(***************************************************************************)
EXTENDS Integers, Sequences

\* The elements of s that are in S, in their order.
Keeping(s, S) ==
  LET kept[i \in 0..Len(s)] ==
        IF i = 0 THEN <<>> ELSE IF s[i] \in S THEN Append(kept[i - 1], s[i]) ELSE kept[i - 1]
  IN  kept[Len(s)]
=============================================================================
