----------------------------- MODULE MCDelivery -----------------------------
(* Two displays, or one place and the connection a display left behind.    *)
EXTENDS Delivery, TLC

CONSTANTS a, b

Symmetry == Permutations(Clients)

\* Two displays and one fault, ringing with the network on; strokes only, since
\* a display's order among other messages is its own affair.
TwoDisplays == [mode |-> "live", room |-> 2, made |-> 2, kinds |-> {"stroke"},
                faults |-> {"slow", "late", "starved", "failed", "nomem", "quiet", "dies", "wifi"}, most |-> 1]

\* One place for two connections, ringing with the network held: two faults.
Batched == [mode |-> "batched", room |-> 1, made |-> 3, kinds |-> {"stroke", "event", "beat"},
            faults |-> {"late", "starved", "failed", "nomem", "amnesia", "wifi"}, most |-> 2]

\* The same, ringing with the network cleared: one fault, slow sends among them.
Cleared == [Batched EXCEPT !.mode = "shed", !.faults = @ \cup {"slow"}, !.most = 1]

AllScenes == {TwoDisplays, Batched, Cleared}
OneDisplay == {[TwoDisplays EXCEPT !.room = 1, !.kinds = {"stroke", "event"}]}
=============================================================================
