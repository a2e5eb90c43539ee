------------------------------- MODULE MCLoop -------------------------------
\* Small instances of Loop for TLC.
EXTENDS Loop

DriveOkDef == {"head", "loopback"}

\* A switch that may be held, a socket that stays empty, a head put in and drawn.
FindsDef == <<{"loopback", "trigger"}, {"empty"}, {"head", "empty"}>>

\* Time passes; the watchdog may be armed; a survey at the boot only; the note of
\* a reset may fail.
Watched == [timed |-> TRUE, enabled |-> TRUE, withUsb |-> FALSE, targets |-> {}, surveys |-> "boot",
            peers |-> FALSE, worn |-> TRUE]

\* No watchdog; surveys at any time, and thresholds to be held.
Driving == [timed |-> FALSE, enabled |-> FALSE, withUsb |-> TRUE, targets |-> {1, 3}, surveys |-> "any",
            peers |-> FALSE, worn |-> FALSE]

\* Time passes, and displays come that stop in the middle.
Talking == [Watched EXCEPT !.surveys = "none", !.peers = TRUE, !.worn = FALSE]

ThreeScenes == {Watched, Driving, Talking}
=============================================================================
