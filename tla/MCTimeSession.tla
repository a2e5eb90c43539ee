--------------------------- MODULE MCTimeSession ---------------------------
\* Small instances of TimeSession for TLC.
EXTENDS TimeSession

BellsDef == {1, 2}
OffsetsDef == {0, 3}
DriftsDef == {0}

\* No network: two heads, one MIDI write that fails, and strokes enough for
\* their numbers to begin again.
Alone == [heads |-> {1, 2}, servers |-> 1, queries |-> 1, sample |-> FALSE, boot |-> "none",
          midi |-> TRUE, rtts |-> {}, faults |-> 1, moves |-> 4, ticks |-> 3]

\* A head and an empty socket, two time servers, the time not known yet.
Choosing == [heads |-> {1}, servers |-> 2, queries |-> 1, sample |-> FALSE, boot |-> "unsynced",
             midi |-> FALSE, rtts |-> {1}, faults |-> 0, moves |-> 3, ticks |-> 3]

\* A head, one server, the time known, quick and slow replies, samples while ringing.
Settled == [heads |-> {1}, servers |-> 1, queries |-> 2, sample |-> TRUE, boot |-> "synced",
            midi |-> TRUE, rtts |-> {1, 9}, faults |-> 0, moves |-> 2, ticks |-> 4]

\* The time client is made when the Wi-Fi comes back, before the counter wraps or after.
Early == [heads |-> {1, 2}, servers |-> 1, queries |-> 1, sample |-> FALSE, boot |-> "late",
          midi |-> TRUE, rtts |-> {1}, faults |-> 0, moves |-> 2, ticks |-> 1]
Late == [Early EXCEPT !.moves = 1, !.ticks = 4]

FourScenes == {Alone, Choosing, Settled, Early}
LateScene  == {Late}
=============================================================================
