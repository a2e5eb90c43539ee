------------------------------ MODULE MCTower ------------------------------
(* One socket with time, and a socket changed beside one that rings.        *)
EXTENDS Tower

Scene(p, hs, t, n) == [plug |-> p, hands |-> hs, timed |-> t, moves |-> n]

MCScenes == {Scene(<<p, "none">>, {1}, TRUE, 4) : p \in {"none", "head", "trigger"}}
            \cup {Scene(<<p, "none">>, {2}, FALSE, 3) : p \in {"head", "trigger"}}
=============================================================================
