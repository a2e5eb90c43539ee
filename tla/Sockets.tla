------------------------------ MODULE Sockets ------------------------------
(***************************************************************************)
(* Who uses the select lines (socket_survey.py, loopback_test.py,          *)
(* threshold_refresh.py; _watch_empty, _laser_current_ma and _sense_step   *)
(* of concentrator.py).  The sense task measures every socket in a survey, *)
(* and between two surveys looks for heads in empty sockets; it keeps a    *)
(* socket selected over some of its awaits.  There the refresher of the    *)
(* thresholds runs, round the sockets, and so does whoever sets targets.   *)
(* The kinds are those of the gate and of head[]: how the two differ for a *)
(* while is Tower's concern.                                               *)
(***************************************************************************)
EXTENDS Mux

CONSTANTS
  Confirm,    \* LOOPBACK_CONFIRM_N
  Finds,      \* bound: what a survey may find in each socket
  DriveOk     \* DRIVE_OK: the kinds the gate lets be driven

Kinds == {"unknown", "empty", "head", "loopback", "trigger"}
NoTarget == -1

ASSUME SocketsAssumption ==
  /\ Confirm \in Nat \ {0}
  /\ DriveOk \subseteq Kinds
  /\ Finds \in [Bells -> SUBSET (Kinds \ {"unknown"})]

VARIABLES
  tower,    \* the Tower object, the PWM and the hold capacitors
  kind,     \* ChannelGate.kind
  found,    \* what the survey under way has found so far
  doubt,    \* SurveyState._doubt, until the sockets are measured
  at,       \* where the sense task waits
  sock,     \* the socket it has in hand
  left,     \* the looks at a loopback, or the refreshes, still to do
  target,   \* ThresholdRefresher.target, NoTarget for none
  turn      \* ThresholdRefresher._i: whose turn it is

lineVars == <<tower, kind, found, doubt, at, sock, left, target, turn>>

Unknown == [b \in Bells |-> "unknown"]

\* A Concentrator is made: no kind is known, and the boot asks for a survey.
LinesNew ==
  /\ tower = NewTower /\ kind = Unknown /\ found = Unknown /\ doubt = TRUE
  /\ at = "rest" /\ sock = NoBell /\ left = 0
  /\ target = [b \in Bells |-> NoTarget] /\ turn = 1

\* The same, of the program that comes after this one.
LinesAnew ==
  /\ tower' = NewTower /\ kind' = Unknown /\ found' = Unknown /\ doubt' = TRUE
  /\ at' = "rest" /\ sock' = NoBell /\ left' = 0
  /\ target' = [b \in Bells |-> NoTarget] /\ turn' = 1

-----------------------------------------------------------------------------
(* The survey.                                                             *)

\* _thr: the threshold of a socket that may be loaded, waited for and not
\* verified.
Thr(t, duty) == Driven(t, duty)

\* measure, up to its first await: the laser off, the threshold at 0, the dark
\* current read, the laser on.
Measures(b) ==
  /\ ~Busy(tower, b)
  /\ tower' = Thr(Taken(tower, b), Off)
  /\ sock' = b /\ at' = "on"

\* The sockets are measured when the phase is "surveying".
SurveyBegins ==
  /\ at = "rest" /\ doubt
  /\ Measures(1)
  /\ doubt' = FALSE
  /\ UNCHANGED <<kind, found, left, target, turn>>

\* The lit current is read, the laser goes off.
Lit ==
  /\ at = "on" /\ at' = "off"
  /\ UNCHANGED <<tower, kind, found, doubt, sock, left, target, turn>>

\* with tower.select(b), and no await within: the lines end on b, and the lock
\* is given back.
Selected(t, b) == Given(Taken(t, b))

\* digital_loopback.
Looped(t, b) == Selected(t, b)

\* The rest of measure: the threshold up and down, then off, the lock given
\* back; the loopback and the pulls take it again.
Measured ==
  /\ at = "off"
  /\ tower' = Selected(Looped(Given(Driven(tower, Off)), sock), sock)
  /\ \E k \in Finds[sock] :
       /\ found' = [found EXCEPT ![sock] = k]
       /\ IF k = "loopback" THEN at' = "confirm" /\ left' = Confirm ELSE at' = "next" /\ left' = 0
  /\ UNCHANGED <<kind, doubt, sock, target, turn>>

\* Another look at what may be a switch held: it lets go, or is a loopback.
Confirmed ==
  /\ at = "confirm"
  /\ tower' = Looped(tower, sock)
  /\ \/ /\ left > 1 /\ left' = left - 1 /\ UNCHANGED <<found, at>>
     \/ /\ left = 1 /\ left' = 0 /\ at' = "next" /\ UNCHANGED found
     \/ /\ \E k \in Finds[sock] \ {"loopback"} : found' = [found EXCEPT ![sock] = k]
        /\ left' = 0 /\ at' = "next"
  /\ UNCHANGED <<kind, doubt, sock, target, turn>>

NextSocket ==
  /\ at = "next" /\ sock < NBells
  /\ Measures(sock + 1)
  /\ UNCHANGED <<kind, found, doubt, left, target, turn>>

\* The survey is over: the gate takes its result, and the heads settle.
SurveyEnds ==
  /\ at = "next" /\ sock = NBells
  /\ kind' = found /\ found' = Unknown /\ at' = "settle" /\ sock' = NoBell
  /\ UNCHANGED <<tower, doubt, left, target, turn>>

-----------------------------------------------------------------------------
(* The look for heads in empty sockets.                                    *)

Empty(b) == kind[b] = "empty"

\* _laser_current_ma, up to its await: the laser is on.
Pulses(b) ==
  /\ ~Busy(tower, b)
  /\ tower' = Taken(tower, b)
  /\ sock' = b /\ at' = "pulse"

FirstEmpty(b) == Empty(b) /\ \A c \in 1..(b - 1) : ~Empty(c)
NextEmpty(b)  == Empty(b) /\ b > sock /\ \A c \in (sock + 1)..(b - 1) : ~Empty(c)

CheckBegins ==
  /\ at = "rest" /\ ~doubt
  /\ \E b \in Bells : FirstEmpty(b) /\ Pulses(b)
  /\ UNCHANGED <<kind, found, doubt, left, target, turn>>

\* Mutant: one refresh for all the channels the look has moved.
Refreshes_One == 1

\* After the look the capacitors are refreshed: a step for each of the bells.
Refreshes == NBells

\* The current is read and the lock given back.  A head asks for a survey and
\* ends the look; so does the last empty socket.
PulseLow ==
  /\ at = "pulse" /\ \E b \in Bells : NextEmpty(b)
  /\ \E b \in Bells :
       /\ NextEmpty(b) /\ ~Busy(Given(tower), b)
       /\ tower' = Taken(Given(tower), b) /\ sock' = b
  /\ UNCHANGED <<kind, found, doubt, at, left, target, turn>>

CheckEnds ==
  /\ at = "pulse"
  /\ \/ doubt' = TRUE
     \/ ~(\E b \in Bells : NextEmpty(b)) /\ UNCHANGED doubt
  /\ tower' = Given(tower)
  /\ at' = "refresh" /\ left' = Refreshes /\ sock' = NoBell
  /\ UNCHANGED <<kind, found, target, turn>>

-----------------------------------------------------------------------------
(* The refresher.                                                          *)

Eligible(b) == target[b] # NoTarget /\ kind[b] \in DriveOk

\* The n-th bell from the one whose turn it is.
Place(n) == ((turn - 1 + n) % NBells) + 1

\* step: the next eligible bell is selected, driven to its target if the PWM
\* is not there yet, and let go; a tower in use is skipped, and the turn with it.
RefreshStep ==
  IF \E b \in Bells : Eligible(b)
  THEN \E n \in 0..(NBells - 1) :
         LET b == Place(n)
         IN  /\ Eligible(b) /\ \A m \in 0..(n - 1) : ~Eligible(Place(m))
             /\ turn' = Place(n + 1)
             /\ tower' = IF Busy(tower, b) THEN tower
                         ELSE Given(Driven(Taken(tower, b), target[b]))
  ELSE UNCHANGED <<tower, turn>>

\* The refresher's own task, wherever the sense task waits.
Refresher ==
  /\ at # "refresh" /\ \E b \in Bells : Eligible(b)
  /\ RefreshStep
  /\ UNCHANGED <<kind, found, doubt, at, sock, left, target>>

\* The steps after a look at the empty sockets; nothing runs between them.
Refreshed ==
  /\ at = "refresh" /\ left > 0 /\ left' = left - 1
  /\ RefreshStep
  /\ UNCHANGED <<kind, found, doubt, at, sock, target>>

-----------------------------------------------------------------------------
\* Set_target, the slow process.
SetTarget(b) ==
  /\ at # "refresh"
  /\ \E duty \in Duties : target[b] # duty /\ target' = [target EXCEPT ![b] = duty]
  /\ UNCHANGED <<tower, kind, found, doubt, at, sock, left, turn>>

\* A plug, a held switch: somebody asks for a survey.
Doubted ==
  /\ at # "refresh" /\ ~doubt /\ doubt' = TRUE
  /\ UNCHANGED <<tower, kind, found, at, sock, left, target, turn>>

\* The end of a pass of the sense task: with no survey and no look, after the
\* heads have settled, after a look.
PassEnd ==
  /\ \/ at = "rest"
     \/ at = "settle"
     \/ at = "refresh" /\ left = 0
  /\ at' = "rest"
  /\ UNCHANGED <<tower, kind, found, doubt, sock, left, target, turn>>

\* What the sense task does between two passes' ends.
Survey == SurveyBegins \/ Lit \/ Measured \/ Confirmed \/ NextSocket \/ SurveyEnds
Check  == CheckBegins \/ PulseLow \/ CheckEnds \/ Refreshed

LineNext == Survey \/ Check \/ Refresher \/ Doubted \/ PassEnd \/ \E b \in Bells : SetTarget(b)

LineSpec == LinesNew /\ [][LineNext]_lineVars

-----------------------------------------------------------------------------
LineTypeOK ==
  /\ tower \in Towers /\ kind \in [Bells -> Kinds] /\ found \in [Bells -> Kinds]
  /\ doubt \in BOOLEAN /\ at \in {"rest", "on", "off", "confirm", "next", "settle", "pulse", "refresh"}
  /\ sock \in Bells \cup {NoBell} /\ left \in Nat
  /\ target \in [Bells -> Duties \cup {NoTarget}] /\ turn \in Bells

\* While the survey or the look has a socket in hand over an await the lines
\* are on that socket and the lock is its own, once; at every other wait the
\* lock is free, whoever re-entered it meanwhile.
HeldAsMeant ==
  IF at \in {"on", "off", "pulse"}
  THEN sock # NoBell /\ tower.current = sock /\ tower.holder = sock /\ tower.depth = 1
  ELSE tower.holder = NoBell /\ tower.depth = 0

\* A look at the empty sockets leaves every threshold that may be driven at
\* its target, whatever it moved and whosever turn it was.
LookRestoresThresholds ==
  at = "refresh" /\ left = 0 => \A b \in Bells : Eligible(b) => tower.cap[b] = target[b]

=============================================================================
