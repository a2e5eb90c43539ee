----------------------------- MODULE LoopProofs -----------------------------
(***************************************************************************)
(* What the program keeps for every board: the select lines and their      *)
(* thresholds for every number of sockets, the names of resets and the     *)
(* watchdog for every timeout, the library's calls for every bound.  One   *)
(* invariant for each, that no step of the program breaks.                 *)
(***************************************************************************)
EXTENDS Loop, TLAPS


-----------------------------------------------------------------------------
\* The select lines.  Between two sockets the survey has one in hand without
\* holding it.
LineInv ==
  /\ LineTypeOK
  /\ HeldAsMeant
  /\ at \in {"confirm", "next"} => sock # NoBell

\* The steps on the lines in the words of their effect: a socket is taken over
\* an await, given back, or used and given back within a step.
LEMMA TakeType ==
  ASSUME NEW t \in Towers, NEW b \in Bells
  PROVE  /\ Taken(t, b) \in Towers
         /\ Taken(t, b).holder = b /\ Taken(t, b).current = b
         /\ Taken(t, b).depth = t.depth + 1
<1> DEFINE cap == [t.cap EXCEPT ![b] = t.duty]
<1>1. cap \in [Bells -> Duties \cup {Off}] /\ t.depth + 1 \in Nat
  BY DEF Towers
<1>. QED BY <1>1 DEF Taken, Towers

LEMMA GiveType ==
  ASSUME NEW t \in Towers
  PROVE  /\ Given(t) \in Towers
         /\ Given(t).current = t.current
         /\ t.depth <= 1 => Given(t).depth = 0 /\ Given(t).holder = NoBell
         /\ t.depth > 1 => Given(t).depth = t.depth - 1 /\ Given(t).holder = t.holder
<1>1. CASE t.depth <= 1
  <2>1. Given(t) = [t EXCEPT !.depth = 0, !.holder = NoBell]
    BY <1>1 DEF Given
  <2>2. [t EXCEPT !.depth = 0, !.holder = NoBell] \in Towers
    BY DEF Towers
  <2>. QED BY <1>1, <2>1, <2>2 DEF Towers
<1>2. CASE t.depth > 1
  <2>1. t.depth - 1 \in Nat /\ ~(t.depth <= 1)
    BY <1>2 DEF Towers
  <2>2. Given(t) = [t EXCEPT !.depth = t.depth - 1]
    BY <2>1 DEF Given
  <2>. QED BY <2>1, <2>2, <1>2 DEF Towers
<1>3. t.depth \in Nat
  BY DEF Towers
<1>. QED BY <1>1, <1>2, <1>3

LEMMA DriveType ==
  ASSUME NEW t \in Towers, NEW duty \in Duties \cup {Off}
  PROVE  /\ Driven(t, duty) \in Towers
         /\ Driven(t, duty).holder = t.holder /\ Driven(t, duty).current = t.current
         /\ Driven(t, duty).depth = t.depth
BY DEF Driven, Towers

\* A use of a free socket, or of the one in hand, leaves the lock as it was.
LEMMA UseLeavesLock ==
  ASSUME NEW t \in Towers, NEW b \in Bells, NEW duty \in Duties,
         ~Busy(t, b), t.holder = NoBell => t.depth = 0, t.holder # NoBell => t.depth = 1 /\ t.current = t.holder
  PROVE  LET u == Given(Driven(Taken(t, b), duty))
         IN  u \in Towers /\ u.holder = t.holder /\ u.depth = t.depth
             /\ (t.holder # NoBell => u.current = t.current)
<1> DEFINE v == Taken(t, b)
<1> DEFINE w == Driven(v, duty)
<1>1. /\ v \in Towers /\ v.holder = b /\ v.current = b /\ v.depth = t.depth + 1
  BY TakeType
<1>2. /\ w \in Towers /\ w.holder = b /\ w.current = b /\ w.depth = t.depth + 1
  BY <1>1, DriveType
<1> HIDE DEF v, w
<1>3. CASE t.holder = NoBell
  BY <1>2, <1>3, GiveType DEF v, w
<1>4. CASE t.holder # NoBell
  <2>1. t.holder = b /\ t.depth = 1 /\ t.current = b
    BY <1>4 DEF Busy
  <2>. QED BY <1>2, <2>1, GiveType DEF v, w
<1>. QED BY <1>3, <1>4

\* with tower.select(b), on a free tower.
LEMMA SelectType ==
  ASSUME NEW t \in Towers, NEW b \in Bells, t.depth = 0
  PROVE  /\ Selected(t, b) \in Towers
         /\ Selected(t, b).depth = 0 /\ Selected(t, b).holder = NoBell
BY TakeType, GiveType DEF Selected

\* measure takes a free tower.
LEMMA MeasureTakes ==
  ASSUME tower \in Towers, tower.depth = 0, NEW b \in Bells, Measures(b)
  PROVE  /\ tower' \in Towers /\ sock' = b /\ at' = "on"
         /\ tower'.current = b /\ tower'.holder = b /\ tower'.depth = 1
<1>1. Off \in Duties \cup {Off}
  OBVIOUS
<1>. QED BY <1>1, TakeType, DriveType DEF Measures, Thr

\* A program's lines as it begins: nothing is selected.
LEMMA NewInv == LinesNew => LineInv
<1>1. 1 \in Bells
  BY MuxAssumption DEF Bells
<1>. QED BY <1>1 DEF LinesNew, LineInv, LineTypeOK, HeldAsMeant, NewTower, Towers, Unknown, Kinds

LEMMA AnewInv == LinesAnew => LineInv'
<1>1. 1 \in Bells
  BY MuxAssumption DEF Bells
<1>. QED BY <1>1 DEF LinesAnew, LineInv, LineTypeOK, HeldAsMeant, NewTower, Towers, Unknown, Kinds

\* The turn stays among the bells.
LEMMA PlaceType == ASSUME NEW n \in Nat, turn \in Bells PROVE Place(n) \in Bells
<1>1. turn - 1 + n \in Nat /\ NBells \in Nat \ {0}
  BY MuxAssumption DEF Bells
<1>2. (turn - 1 + n) % NBells \in 0..(NBells - 1)
  BY <1>1
<1>. QED BY <1>1, <1>2 DEF Place, Bells

\* A refresh, wherever it comes, leaves the lock as it was.
LEMMA RefreshLeavesLock ==
  ASSUME LineInv, RefreshStep
  PROVE  /\ tower' \in Towers /\ turn' \in Bells
         /\ tower'.holder = tower.holder /\ tower'.depth = tower.depth
         /\ tower.holder # NoBell => tower'.current = tower.current
<1>1. tower \in Towers /\ turn \in Bells /\ target \in [Bells -> Duties \cup {NoTarget}]
  BY DEF LineInv, LineTypeOK
<1>2. /\ tower.holder = NoBell => tower.depth = 0
      /\ tower.holder # NoBell => tower.depth = 1 /\ tower.current = tower.holder
  BY DEF LineInv, HeldAsMeant
<1>3. CASE UNCHANGED <<tower, turn>>
  BY <1>1, <1>3
<1>4. ASSUME NEW n \in 0..(NBells - 1), Eligible(Place(n)), turn' = Place(n + 1),
             tower' = IF Busy(tower, Place(n)) THEN tower
                      ELSE Given(Driven(Taken(tower, Place(n)), target[Place(n)]))
      PROVE  /\ tower' \in Towers /\ turn' \in Bells
             /\ tower'.holder = tower.holder /\ tower'.depth = tower.depth
             /\ tower.holder # NoBell => tower'.current = tower.current
  <2>1. n \in Nat /\ n + 1 \in Nat
    BY MuxAssumption
  <2>2. Place(n) \in Bells /\ turn' \in Bells
    BY <1>1, <1>4, <2>1, PlaceType
  <2>3. target[Place(n)] \in Duties
    BY <1>1, <1>4, <2>2 DEF Eligible
  <2>4. CASE Busy(tower, Place(n))
    BY <1>1, <1>4, <2>2, <2>4
  <2>5. CASE ~Busy(tower, Place(n))
    BY <1>1, <1>2, <1>4, <2>2, <2>3, <2>5, UseLeavesLock
  <2>. QED BY <2>4, <2>5
<1>. QED BY <1>3, <1>4 DEF RefreshStep

-----------------------------------------------------------------------------
\* Wherever the sense task holds no socket the tower is free.
LEMMA FreeTower ==
  ASSUME LineInv, at \notin {"on", "off", "pulse"}
  PROVE  tower \in Towers /\ tower.depth = 0 /\ tower.holder = NoBell
BY DEF LineInv, LineTypeOK, HeldAsMeant

LEMMA HeldTower ==
  ASSUME LineInv, at \in {"on", "off", "pulse"}
  PROVE  /\ tower \in Towers /\ sock \in Bells
         /\ tower.depth = 1 /\ tower.holder = sock /\ tower.current = sock
BY DEF LineInv, LineTypeOK, HeldAsMeant

LEMMA SurveyKeeps == LineInv /\ Survey => LineInv'
<1> SUFFICES ASSUME LineInv, Survey PROVE LineInv'
  OBVIOUS
<1>1. ASSUME NEW b \in Bells, Measures(b), at \notin {"on", "off", "pulse"}, kind' = kind,
             found' = found, doubt' \in BOOLEAN, UNCHANGED <<left, target, turn>>
      PROVE  LineInv'
  BY <1>1, FreeTower, MeasureTakes DEF LineInv, LineTypeOK, HeldAsMeant, Bells, NoBell
<1>2. CASE SurveyBegins
  <2>1. 1 \in Bells
    BY MuxAssumption DEF Bells
  <2>. QED BY <1>1, <1>2, <2>1 DEF SurveyBegins
<1>3. CASE Lit
  BY <1>3, HeldTower DEF Lit, LineInv, LineTypeOK, HeldAsMeant
<1>4. CASE Measured
  <2> DEFINE off == Given(Driven(tower, Off))
  <2>1. off \in Towers /\ off.depth = 0
    BY <1>4, HeldTower, DriveType, GiveType DEF Measured
  <2> HIDE DEF off
  <2>2. tower' \in Towers /\ tower'.depth = 0 /\ tower'.holder = NoBell
    BY <1>4, <2>1, HeldTower, SelectType DEF Measured, Looped, off
  <2>3. PICK k \in Finds[sock] :
          /\ found' = [found EXCEPT ![sock] = k]
          /\ left' \in {Confirm, 0} /\ at' \in {"confirm", "next"}
    BY <1>4 DEF Measured
  <2>4. sock \in Bells /\ k \in Kinds
    BY <1>4, <2>3, HeldTower, SocketsAssumption DEF Measured
  <2>5. found' \in [Bells -> Kinds] /\ left' \in Nat
    BY <2>3, <2>4, SocketsAssumption DEF LineInv, LineTypeOK
  <2>. QED BY <1>4, <2>2, <2>3, <2>4, <2>5 DEF Measured, LineInv, LineTypeOK, HeldAsMeant, Bells, NoBell
<1>5. CASE Confirmed
  <2>1. sock \in Bells
    BY <1>5 DEF Confirmed, LineInv, LineTypeOK
  <2>2. tower' \in Towers /\ tower'.depth = 0 /\ tower'.holder = NoBell
    BY <1>5, <2>1, FreeTower, SelectType DEF Confirmed, Looped
  <2>3. found' \in [Bells -> Kinds] /\ left' \in Nat /\ at' \in {"confirm", "next"}
    BY <1>5, <2>1, SocketsAssumption DEF Confirmed, LineInv, LineTypeOK
  <2>. QED BY <1>5, <2>1, <2>2, <2>3 DEF Confirmed, LineInv, LineTypeOK, HeldAsMeant, Bells, NoBell
<1>6. CASE NextSocket
  <2>1. sock + 1 \in Bells
    BY <1>6, MuxAssumption DEF NextSocket, LineInv, LineTypeOK, Bells, NoBell
  <2>. QED BY <1>1, <1>6, <2>1 DEF NextSocket, LineInv, LineTypeOK
<1>7. CASE SurveyEnds
  BY <1>7, FreeTower DEF SurveyEnds, LineInv, LineTypeOK, HeldAsMeant, Unknown, Kinds
<1>. QED BY <1>2, <1>3, <1>4, <1>5, <1>6, <1>7 DEF Survey

LEMMA CheckKeeps == LineInv /\ Check => LineInv'
<1> SUFFICES ASSUME LineInv, Check PROVE LineInv'
  OBVIOUS
<1>1. CASE CheckBegins
  <2>1. PICK b \in Bells : Pulses(b)
    BY <1>1 DEF CheckBegins
  <2>2. tower' \in Towers /\ tower'.holder = b /\ tower'.current = b /\ tower'.depth = 1
    BY <1>1, <2>1, FreeTower, TakeType DEF CheckBegins, Pulses
  <2>. QED BY <1>1, <2>1, <2>2 DEF CheckBegins, Pulses, LineInv, LineTypeOK, HeldAsMeant, Bells, NoBell
<1>2. CASE PulseLow
  <2>1. PICK b \in Bells : tower' = Taken(Given(tower), b) /\ sock' = b
    BY <1>2 DEF PulseLow
  <2>2. Given(tower) \in Towers /\ Given(tower).depth = 0
    BY <1>2, HeldTower, GiveType DEF PulseLow
  <2>3. tower' \in Towers /\ tower'.holder = b /\ tower'.current = b /\ tower'.depth = 1
    BY <2>1, <2>2, TakeType
  <2>. QED BY <1>2, <2>1, <2>3 DEF PulseLow, LineInv, LineTypeOK, HeldAsMeant, Bells, NoBell
<1>3. CASE CheckEnds
  <2>1. tower' \in Towers /\ tower'.depth = 0 /\ tower'.holder = NoBell
    BY <1>3, HeldTower, GiveType DEF CheckEnds
  <2>2. doubt' \in BOOLEAN /\ left' \in Nat
    BY <1>3, MuxAssumption DEF CheckEnds, Refreshes, LineInv, LineTypeOK
  <2>. QED BY <1>3, <2>1, <2>2 DEF CheckEnds, LineInv, LineTypeOK, HeldAsMeant
<1>4. CASE Refreshed
  <2>1. left - 1 \in Nat
    BY <1>4 DEF Refreshed, LineInv, LineTypeOK
  <2>2. tower' \in Towers /\ turn' \in Bells /\ tower'.holder = NoBell /\ tower'.depth = 0
    BY <1>4, FreeTower, RefreshLeavesLock DEF Refreshed
  <2>. QED BY <1>4, <2>1, <2>2 DEF Refreshed, LineInv, LineTypeOK, HeldAsMeant
<1>. QED BY <1>1, <1>2, <1>3, <1>4 DEF Check

\* The refresher may run while the sense task holds a socket.
LEMMA RefresherKeeps == LineInv /\ Refresher => LineInv'
<1> SUFFICES ASSUME LineInv, Refresher PROVE LineInv'
  OBVIOUS
<1>1. /\ tower' \in Towers /\ turn' \in Bells
      /\ tower'.holder = tower.holder /\ tower'.depth = tower.depth
      /\ tower.holder # NoBell => tower'.current = tower.current
  BY RefreshLeavesLock DEF Refresher
<1>. QED BY <1>1 DEF Refresher, LineInv, LineTypeOK, HeldAsMeant

LEMMA OthersKeep ==
  ASSUME LineInv, Doubted \/ PassEnd \/ (\E b \in Bells : SetTarget(b)) \/ UNCHANGED lineVars
  PROVE  LineInv'
<1>1. CASE Doubted
  BY <1>1 DEF Doubted, LineInv, LineTypeOK, HeldAsMeant
<1>2. CASE PassEnd
  BY <1>2 DEF PassEnd, LineInv, LineTypeOK, HeldAsMeant
<1>3. CASE \E b \in Bells : SetTarget(b)
  BY <1>3 DEF SetTarget, LineInv, LineTypeOK, HeldAsMeant
<1>4. CASE UNCHANGED lineVars
  BY <1>4 DEF lineVars, LineInv, LineTypeOK, HeldAsMeant
<1>. QED BY <1>1, <1>2, <1>3, <1>4
-----------------------------------------------------------------------------
\* Every step of the program keeps the lines in order.
LEMMA LineStep == LineInv /\ [Next]_vars => LineInv'
<1> SUFFICES ASSUME LineInv, [Next]_vars PROVE LineInv'
  OBVIOUS
<1>1. CASE UNCHANGED lineVars
  BY <1>1, OthersKeep
<1>2. CASE LinesAnew
  BY <1>2, AnewInv
<1>3. CASE PowerCycle \/ ResetButton \/ HardReset \/ Reload \/ CtrlC
  BY <1>2, <1>3 DEF PowerCycle, ResetButton, HardReset, Reload, CtrlC, ResetBy, StartsOver, WorkAnew
<1>4. CASE Dies \/ CrashReset \/ LinkReset
  BY <1>2, <1>4 DEF Dies, CrashReset, LinkReset, OwnReset, ResetBy, StartsOver, WorkAnew
<1>5. CASE PassEnds
  BY <1>5, OthersKeep DEF PassEnds
<1>6. CASE Works
  <2>1. Survey \/ Check \/ Refresher \/ Doubted \/ \E b \in scene.targets : SetTarget(b)
    BY <1>6 DEF Works
  <2>2. ASSUME NEW b, SetTarget(b) PROVE LineInv'
    BY <2>2 DEF SetTarget, LineInv, LineTypeOK, HeldAsMeant
  <2>. QED BY <2>1, <2>2, SurveyKeeps, CheckKeeps, RefresherKeeps, OthersKeep
<1>7. CASE Starts \/ Arms \/ WsPass \/ JoinStarts \/ JoinEnds \/ Hangs
  BY <1>1, <1>7 DEF Starts, Arms, WsPass, JoinStarts, JoinEnds, Hangs, work
<1>8. CASE Calls \/ CallGoesOn \/ Tick
  BY <1>1, <1>8 DEF Calls, CallGoesOn, Tick
<1>9. CASE UNCHANGED vars
  BY <1>1, <1>9 DEF vars
<1>. QED BY <1>3, <1>4, <1>5, <1>6, <1>7, <1>8, <1>9 DEF Next

\* Every part of the lines' state keeps its type, and the lock is where the
\* sense task waits.
THEOREM LinesInOrder == Spec => []LineInv
<1>1. Init => LineInv
  BY NewInv DEF Init
<1>. QED BY <1>1, LineStep, PTL DEF Spec

\* A measurement or a look never loses its socket over an await, and nobody
\* else keeps the lock over one: for any number of sockets, whatever a survey
\* finds in them, whoever is given targets, and through every reset.
THEOREM SocketsAreHeldAsMeant == Spec => []HeldAsMeant
<1>1. LineInv => HeldAsMeant
  BY DEF LineInv
<1>. QED BY <1>1, LinesInOrder, PTL

-----------------------------------------------------------------------------
\* The resets and their names.  A note that did not fail is there from our own
\* reset to the next start, and the hardware is on only under an armed guard of
\* a running program.
Guards == [armed : BOOLEAN, paused : BOOLEAN, beat : Nat, name : Marks \cup Chips]
Dogs   == [on : BOOLEAN, left : Nat]

BootInv ==
  /\ nvm \in Marks /\ asked \in Marks /\ chip \in Chips
  /\ ~spoilt => nvm = asked
  /\ guard \in Guards /\ hw \in Dogs
  /\ phase \in {"start", "run"} => asked = "none"
  /\ held # "no" => phase = "run"
  /\ hw.on => guard.armed /\ phase = "run"
  /\ phase = "boot" /\ fresh =>
       \/ cause = "power" /\ chip = "POWER_ON"
       \/ cause = "pin" /\ chip = "RESET_PIN"
       \/ cause = "watchdog" /\ chip = "WATCHDOG" /\ asked = "none"
       \/ cause = "own" /\ chip = "WATCHDOG" /\ asked # "none"

\* A guard as it is made, and the hardware before it is armed.
LEMMA NewType ==
  /\ HwOff \in Dogs /\ ~HwOff.on
  /\ HwSet \in Dogs
  /\ NoGuard \in Guards
  /\ \A name \in Marks \cup Chips : NewGuard(name) \in Guards
BY WatchdogAssumption DEF Marks, NoGuard, HwOff, HwSet, NewGuard, Dogs, Guards

LEMMA BootInit == Init => BootInv
<1> SUFFICES ASSUME Init PROVE BootInv
  OBVIOUS
<1>1. guard \in Guards /\ hw \in Dogs /\ ~hw.on
  BY NewType DEF Init
<1>. QED BY <1>1 DEF Init, BootInv, Marks, Chips

\* What the guard's calls make of it and of the hardware.
LEMMA GuardType ==
  ASSUME guard \in Guards, hw \in Dogs, hw.on => guard.armed
  PROVE  /\ Armed(guard) \in Guards /\ Armed(guard).armed
         /\ Disarmed(guard) \in Guards /\ HwDisarmed(guard, hw) \in Dogs /\ ~HwDisarmed(guard, hw).on
         /\ Paused(guard) \in Guards /\ Paused(guard).armed = guard.armed
         /\ HwPaused(guard, hw) \in Dogs /\ (HwPaused(guard, hw).on => hw.on)
         /\ Resumed(guard) \in Guards /\ Resumed(guard).armed = guard.armed
         /\ HwResumed(guard, hw) \in Dogs /\ (HwResumed(guard, hw).on => guard.armed)
         /\ CheckedIn(guard) \in Guards /\ CheckedIn(guard).armed = guard.armed
         /\ HwTicked(guard, hw) \in Dogs /\ (HwTicked(guard, hw).on => guard.armed)
         /\ Disarmed(Resumed(guard)) \in Guards
<1>1. HwSet \in Dogs /\ HwOff \in Dogs /\ ~HwOff.on
  BY NewType
<1>2. Armed(guard) \in Guards /\ Armed(guard).armed /\ Disarmed(guard) \in Guards
  BY DEF Armed, Disarmed, Guards
<1>3. HwDisarmed(guard, hw) \in Dogs /\ ~HwDisarmed(guard, hw).on
  BY <1>1 DEF HwDisarmed, Guards, Dogs
<1>4. Paused(guard) \in Guards /\ Paused(guard).armed = guard.armed
  BY DEF Paused, Pauses, Guards
<1>5. HwPaused(guard, hw) \in Dogs /\ (HwPaused(guard, hw).on => hw.on)
  BY DEF HwPaused, Dogs
<1>6. Resumed(guard) \in Guards /\ Resumed(guard).armed = guard.armed
  BY DEF Resumed, Resumes, Guards
<1>7. HwResumed(guard, hw) \in Dogs /\ (HwResumed(guard, hw).on => guard.armed)
  BY <1>1 DEF HwResumed, Resumes
<1>8. CheckedIn(guard) \in Guards /\ CheckedIn(guard).armed = guard.armed
  BY DEF CheckedIn, Guards
<1>9. HwTicked(guard, hw) \in Dogs /\ (HwTicked(guard, hw).on => guard.armed)
  BY <1>1 DEF HwTicked, Feeds
<1>10. Disarmed(Resumed(guard)) \in Guards
  BY <1>6 DEF Disarmed, Guards
<1>. QED BY <1>2, <1>3, <1>4, <1>5, <1>6, <1>7, <1>8, <1>9, <1>10
LEMMA BootStep == BootInv /\ [Next]_vars => BootInv'
<1> SUFFICES ASSUME BootInv, [Next]_vars PROVE BootInv'
  OBVIOUS
<1>1. guard \in Guards /\ hw \in Dogs /\ (hw.on => guard.armed) /\ nvm \in Marks
  BY DEF BootInv
<1>2. StartsOver => guard' \in Guards /\ hw' \in Dogs /\ ~hw'.on /\ phase' = "boot" /\ held' = "no"
  BY NewType DEF StartsOver
<1>3. CASE PowerCycle \/ ResetButton
  BY <1>2, <1>3 DEF PowerCycle, ResetButton, ResetBy, noteVars, BootInv, Chips
<1>4. CASE HardReset
  BY <1>2, <1>4 DEF HardReset, ResetBy, noteVars, BootInv, Chips
<1>5. ASSUME NEW mark \in {"SELF-RESET", "CRASH-RESET"}, OwnReset(mark) PROVE BootInv'
  BY <1>2, <1>5 DEF OwnReset, ResetBy, BootInv, Marks, Chips
<1>6. CASE LinkReset \/ CrashReset
  BY <1>5, <1>6 DEF LinkReset, CrashReset
<1>7. CASE Reload
  BY <1>2, <1>7 DEF Reload, noteVars, BootInv
<1>8. CASE CtrlC
  <2>1. guard' \in Guards /\ hw' \in Dogs /\ ~hw'.on
    BY <1>1, <1>8, GuardType, NewType DEF CtrlC
  <2>. QED BY <1>8, <2>1 DEF CtrlC, bootVars, BootInv
<1>9. CASE Starts
  <2>1. ResetName(chip, nvm) \in Marks \cup Chips /\ chip \in Marks \cup Chips
    BY DEF ResetName, BootInv
  <2>2. guard' \in Guards
    BY <1>9, <2>1, NewType DEF Starts
  <2>3. asked' = "none" /\ phase' = "start" /\ nvm' \in Marks /\ (~spoilt' => nvm' = "none")
    BY <1>1, <1>9 DEF Starts, TakenMark, Marks
  <2>4. UNCHANGED <<held, hw, chip>> /\ ~hw.on /\ held = "no"
    BY <1>9 DEF Starts, BootInv
  <2>5. asked' \in Marks
    BY <2>3 DEF Marks
  <2>. QED BY <2>2, <2>3, <2>4, <2>5 DEF BootInv
<1>10. CASE Arms
  <2>1. guard' \in Guards /\ hw' \in Dogs /\ (hw'.on => guard'.armed)
    BY <1>1, <1>10, GuardType, NewType DEF Arms, dogVars
  <2>. QED BY <1>10, <2>1 DEF Arms, bootVars, BootInv
<1>11. CASE Dies
  <2>1. guard' \in Guards /\ hw' \in Dogs /\ ~hw'.on
    BY <1>1, <1>11, GuardType DEF Dies
  <2>. QED BY <1>11, <2>1 DEF Dies, bootVars, BootInv
<1>12. CASE WsPass \/ JoinStarts \/ JoinEnds \/ PassEnds
  <2>1. guard' \in Guards /\ hw' \in Dogs /\ (hw'.on => guard'.armed)
    BY <1>1, <1>12, GuardType DEF WsPass, JoinStarts, JoinEnds, PassEnds
  <2>2. phase = "run" /\ phase' = phase /\ UNCHANGED bootVars
    BY <1>12 DEF WsPass, JoinStarts, JoinEnds, PassEnds, Others, Running, BootInv
  <2>. QED BY <2>1, <2>2 DEF bootVars, BootInv
<1>13. CASE Hangs \/ Works \/ Calls \/ CallGoesOn
  <2>1. phase = "run" /\ phase' = phase /\ UNCHANGED <<bootVars, guard, hw>>
    BY <1>13 DEF Hangs, Works, Calls, CallGoesOn, Others, Running, dogVars, BootInv
  <2>. QED BY <1>1, <2>1 DEF bootVars, BootInv
<1>14. CASE Tick
  <2>1. guard' \in Guards /\ guard'.armed = guard.armed
    BY <1>1, <1>14, WatchdogAssumption DEF Tick, Up, Guards
  <2>2. hw' \in Dogs /\ (hw'.on => hw.on)
    BY <1>1, <1>14 DEF Tick, Dogs
  <2>. QED BY <1>1, <1>14, <2>1, <2>2 DEF Tick, bootVars, BootInv
<1>15. CASE UNCHANGED vars
  BY <1>15 DEF vars, dogVars, bootVars, BootInv
<1>. QED BY <1>3, <1>4, <1>6, <1>7, <1>8, <1>9, <1>10, <1>11, <1>12, <1>13, <1>14, <1>15 DEF Next

\* What BootInv says of the step in which a program names its reset.
LEMMA StepNames ==
  BootInv /\ [Next]_vars =>
    (phase = "boot" /\ phase' = "start" /\ fresh =>
       /\ ~spoilt /\ ~spoilt' => guard'.name = DueName
       /\ guard'.name = "WATCHDOG" => cause \in {"watchdog", "own"})
<1> SUFFICES ASSUME BootInv, [Next]_vars, phase = "boot", phase' = "start", fresh
             PROVE  /\ ~spoilt /\ ~spoilt' => guard'.name = DueName
                    /\ guard'.name = "WATCHDOG" => cause \in {"watchdog", "own"}
  OBVIOUS
<1>1. Starts
  BY DEF Next, vars, PowerCycle, ResetButton, HardReset, Reload, CtrlC, Arms, Dies, CrashReset, LinkReset,
         WsPass, JoinStarts, JoinEnds, Hangs, PassEnds, Works, Calls, CallGoesOn, Tick, OwnReset, ResetBy,
         StartsOver, Others, Running
<1>2. guard'.name = ResetName(chip, nvm) \/ (guard'.name = chip /\ spoilt')
  BY <1>1 DEF Starts, NewGuard
<1>3. ASSUME ~spoilt, guard'.name = ResetName(chip, nvm) PROVE guard'.name = DueName
  BY <1>3 DEF ResetName, DueName, BootInv, Marks
<1>4. guard'.name = "WATCHDOG" => chip = "WATCHDOG"
  BY <1>2 DEF ResetName, BootInv, Marks
<1>. QED BY <1>2, <1>3, <1>4 DEF BootInv

\* Whatever resets, crashes and interrupted starts came before, the first
\* program after a reset names what it was, but for the button that cuts the
\* boot after our own reset short, and while the note does not fail: for every
\* setting of the watchdog (watchdog_guard.py, mark_reset and boot_reasons).
THEOREM ResetsAreNamed == Spec => NamedForItsCause
<1>. QED BY BootInit, BootStep, StepNames, PTL DEF Spec, NamedForItsCause
-----------------------------------------------------------------------------
\* The hardware's timer and the history of the loop keep step: the guard is
\* paused during a join and at no other time, and then the hardware is off.
DogInv ==
  /\ BootInv
  /\ quiet \in Nat
  /\ guard.paused => held = "join" /\ guard.armed
  /\ held = "join" /\ guard.armed => guard.paused
  /\ hw.on => ~guard.paused /\ hw.left + quiet = Timeout

\* A guard that nobody has armed, and hardware that is off.
LEMMA OffKeeps ==
  ASSUME BootInv', ~guard'.paused, held' # "join", ~hw'.on, quiet' \in Nat
  PROVE  DogInv'
BY DEF DogInv

LEMMA DogInit == Init => DogInv
<1> SUFFICES ASSUME Init PROVE DogInv
  OBVIOUS
<1>1. BootInv
  BY BootInit
<1>. QED BY <1>1 DEF Init, DogInv, NoGuard, NewGuard, HwOff

LEMMA DogStep == DogInv /\ [Next]_vars => DogInv'
<1> SUFFICES ASSUME DogInv, [Next]_vars PROVE DogInv'
  OBVIOUS
<1>1. BootInv /\ BootInv' /\ guard \in Guards /\ hw \in Dogs
  BY BootStep DEF DogInv, BootInv
<1>2. StartsOver => DogInv'
  BY <1>1, OffKeeps DEF StartsOver, NoGuard, NewGuard, HwOff
<1>3. CASE PowerCycle \/ ResetButton \/ HardReset \/ Reload \/ CrashReset \/ LinkReset
  BY <1>2, <1>3 DEF PowerCycle, ResetButton, HardReset, Reload, CrashReset, LinkReset, OwnReset, ResetBy
<1>4. CASE CtrlC
  <2>1. ~guard'.paused /\ ~hw'.on /\ held' = "no" /\ quiet' = 0
    BY <1>1, <1>4, GuardType DEF CtrlC, Disarmed, HwOff, BootInv, Guards
  <2>. QED BY <1>1, <2>1, OffKeeps
<1>5. CASE Starts
  <2>1. ~guard'.paused /\ ~hw'.on /\ held' = "no" /\ quiet' = quiet
    BY <1>1, <1>5 DEF Starts, NewGuard, BootInv
  <2>. QED BY <1>1, <2>1, OffKeeps DEF DogInv
<1>6. CASE Arms
  <2>1. held = "no" /\ held' = held /\ ~hw.on /\ ~guard.paused /\ quiet' = 0
    BY <1>6 DEF Arms, DogInv, BootInv
  <2>2. CASE guard' = Armed(guard) /\ hw' = HwSet
    <3>1. ~guard'.paused /\ hw'.left + quiet' = Timeout
      BY <1>1, <2>1, <2>2, WatchdogAssumption DEF Armed, Guards, HwSet
    <3>. QED BY <1>1, <2>1, <3>1 DEF DogInv
  <2>3. CASE UNCHANGED dogVars
    BY <1>1, <2>1, <2>3, OffKeeps DEF dogVars
  <2>. QED BY <1>6, <2>2, <2>3 DEF Arms
<1>7. CASE Dies
  <2>1. ~guard'.paused /\ ~hw'.on /\ held' = "no" /\ quiet' = 0
    BY <1>1, <1>7, GuardType DEF Dies, Disarmed, BootInv, Guards
  <2>. QED BY <1>1, <2>1, OffKeeps
<1>8. CASE WsPass
  <2>1. guard'.paused = guard.paused /\ guard'.armed = guard.armed
    BY <1>1, <1>8 DEF WsPass, CheckedIn, Guards
  <2>. QED BY <1>1, <1>8, <2>1 DEF WsPass, DogInv
<1>9. CASE JoinStarts
  <2>1. held' = "join" /\ held = "no" /\ quiet' = quiet
    BY <1>9 DEF JoinStarts, Others, Running
  <2>2. ~guard.paused
    BY <2>1 DEF DogInv
  <2>3. CASE guard.armed
    <3>1. guard'.paused /\ guard'.armed /\ ~hw'.on
      BY <1>1, <1>9, <2>2, <2>3 DEF JoinStarts, Paused, HwPaused, Pauses, Guards, Dogs
    <3>. QED BY <1>1, <2>1, <3>1 DEF DogInv
  <2>4. CASE ~guard.armed
    <3>1. guard' = guard /\ hw' = hw /\ ~hw.on
      BY <1>1, <1>9, <2>4 DEF JoinStarts, Paused, HwPaused, Pauses, BootInv
    <3>. QED BY <1>1, <2>1, <2>4, <3>1 DEF DogInv
  <2>. QED BY <2>3, <2>4
<1>10. CASE JoinEnds
  <2>1. held = "join" /\ held' = "no" /\ quiet' = 0
    BY <1>10 DEF JoinEnds
  <2>2. CASE guard.armed
    <3>1. Resumes(guard)
      BY <2>1, <2>2 DEF DogInv, Resumes
    <3>2. ~guard'.paused /\ hw' = HwSet
      BY <1>1, <1>10, <3>1 DEF JoinEnds, Resumed, HwResumed, Guards
    <3>3. hw'.left + quiet' = Timeout
      BY <2>1, <3>2, WatchdogAssumption DEF HwSet
    <3>. QED BY <1>1, <2>1, <3>2, <3>3 DEF DogInv
  <2>3. CASE ~guard.armed
    <3>1. guard' = guard /\ hw' = hw /\ ~hw.on
      BY <1>1, <1>10, <2>3 DEF JoinEnds, Resumed, HwResumed, Resumes, BootInv
    <3>2. ~guard.paused
      BY <2>3 DEF DogInv
    <3>. QED BY <1>1, <2>1, <3>1, <3>2, OffKeeps
  <2>. QED BY <2>2, <2>3
<1>11. CASE PassEnds
  <2>1. held = "no" /\ held' = held /\ guard' = guard /\ ~guard.paused
    BY <1>11 DEF PassEnds, Running, DogInv
  <2>2. CASE guard.beat <= MaxAge
    <3>1. quiet' = 0 /\ (hw'.on => hw'.left = Timeout)
      BY <1>1, <1>11, <2>1, <2>2 DEF PassEnds, HwTicked, Feeds, HwSet, BootInv
    <3>. QED BY <1>1, <2>1, <3>1, WatchdogAssumption DEF DogInv
  <2>3. CASE ~(guard.beat <= MaxAge)
    <3>1. quiet' = quiet /\ hw' = hw
      BY <1>11, <2>3 DEF PassEnds, HwTicked, Feeds
    <3>. QED BY <1>1, <2>1, <3>1 DEF DogInv
  <2>. QED BY <2>2, <2>3
<1>12. CASE Hangs \/ Works \/ Calls \/ CallGoesOn
  <2>1. /\ UNCHANGED <<guard, hw, quiet>>
        /\ held # "join" /\ held' # "join"
    BY <1>12 DEF Hangs, Works, Calls, CallGoesOn, Others, Running, dogVars
  <2>. QED BY <1>1, <2>1 DEF DogInv
<1>13. CASE Tick
  <2>1. guard'.paused = guard.paused /\ guard'.armed = guard.armed /\ held' = held
    BY <1>1, <1>13 DEF Tick, Guards
  <2>2. quiet' \in Nat
    BY <1>13, WatchdogAssumption DEF Tick, Up, DogInv
  <2>3. ASSUME hw.on PROVE hw'.left + quiet' = Timeout
    <3>1. hw.left \in Nat /\ quiet \in Nat /\ hw.left + quiet = Timeout /\ ~guard.paused /\ guard.armed
      BY <1>1, <2>3 DEF DogInv, BootInv, Dogs
    <3>2. held # "join" /\ hw.left # 0 /\ hw'.left = hw.left - 1
      BY <1>1, <1>13, <2>3, <3>1 DEF Tick, DogInv, Dogs
    <3>3. quiet' = IF quiet < Timeout THEN quiet + 1 ELSE Timeout
      BY <1>13, <3>2 DEF Tick, Up
    <3>4. quiet < Timeout
      BY <3>1, <3>2, WatchdogAssumption
    <3>. QED BY <3>1, <3>2, <3>3, <3>4, WatchdogAssumption
  <2>4. hw'.on => hw.on
    BY <1>1, <1>13 DEF Tick, Dogs
  <2>. QED BY <1>1, <2>1, <2>2, <2>3, <2>4 DEF DogInv
<1>14. CASE UNCHANGED vars
  BY <1>1, <1>14 DEF vars, dogVars, DogInv
<1>. QED BY <1>3, <1>4, <1>5, <1>6, <1>7, <1>8, <1>9, <1>10, <1>11, <1>12, <1>13, <1>14 DEF Next

\* The hardware fires at the end of a whole timeout without a good pass, never
\* sooner, whatever joins the loop has gone through: for every timeout and
\* every age a heartbeat may have.
THEOREM NoEarlyReset == Spec => NobodyIsResetEarly
<1>1. DogInv /\ [Next]_vars => (HardReset => phase = "run" /\ quiet = Timeout)
  BY WatchdogAssumption DEF DogInv, BootInv, HardReset, Dogs
<1>. QED BY <1>1, DogInit, DogStep, PTL DEF Spec, NobodyIsResetEarly

-----------------------------------------------------------------------------
\* The look at the empty sockets.  The refresher's turn goes round: what is
\* still to be brought to its target is no further from it than steps are left.
RestoreInv ==
  /\ LineInv
  /\ at = "refresh" =>
       \A n \in 0..(NBells - 1) :
         Eligible(Place(n)) /\ tower.cap[Place(n)] # target[Place(n)] => n < left

\* A place is counted on from the turn, over the last bell to the first.
OnFrom(t, n) == IF t + n <= NBells THEN t + n ELSE t + n - NBells

LEMMA CountedOn ==
  ASSUME NEW t \in Bells, NEW n \in 0..NBells
  PROVE  ((t - 1 + n) % NBells) + 1 = OnFrom(t, n) /\ OnFrom(t, n) \in Bells
<1>1. NBells \in Nat /\ NBells > 0 /\ t \in Nat /\ t >= 1 /\ t <= NBells
      /\ n \in Nat /\ n <= NBells
  BY MuxAssumption DEF Bells
<1> DEFINE x == t - 1 + n
           r == x % NBells
           q == x \div NBells
<1>2. x \in Nat /\ x < 2 * NBells
  BY <1>1
<1> HIDE DEF x
<1>3. r \in 0..(NBells - 1) /\ q \in Int /\ x = NBells * q + r
  BY <1>1, <1>2
<1> HIDE DEF r, q
<1>4. q = 0 \/ q = 1
  BY <1>1, <1>2, <1>3
<1>5. (q = 0 => x = r) /\ (q = 1 => x = NBells + r)
  BY <1>1, <1>3
<1>6. r = IF x < NBells THEN x ELSE x - NBells
  BY <1>1, <1>2, <1>3, <1>4, <1>5
<1>7. r + 1 = OnFrom(t, n)
  BY <1>1, <1>6 DEF x, OnFrom
<1>8. OnFrom(t, n) \in Bells
  BY <1>1 DEF OnFrom, Bells
<1>. QED BY <1>7, <1>8 DEF r, x

\* A step of the refresher brings the next bell that may be driven to its
\* target, and is that much nearer to those after it.
LEMMA RefreshNears ==
  ASSUME RestoreInv, at = "refresh", RefreshStep, left' = left - 1, UNCHANGED <<kind, target>>,
         LineInv'
  PROVE  \A n \in 0..(NBells - 1) :
           (Eligible(Place(n)) /\ tower.cap[Place(n)] # target[Place(n)])' => n < left'
<1>1. /\ tower \in Towers /\ tower.holder = NoBell /\ left \in Nat
      /\ turn \in Bells /\ turn' \in Bells /\ target \in [Bells -> Duties \cup {NoTarget}]
      /\ NBells \in Nat /\ NBells > 0
  BY FreeTower, MuxAssumption DEF RestoreInv, LineInv, LineTypeOK
<1>2. \A n \in 0..NBells : Place(n) = OnFrom(turn, n) /\ Place(n)' = OnFrom(turn', n)
  BY <1>1, CountedOn DEF Place
<1>3. \A n \in 0..(NBells - 1) : n \in 0..NBells /\ n + 1 \in 0..NBells
  BY <1>1
<1>4. \A b : Eligible(b)' <=> Eligible(b)
  BY DEF Eligible
<1> SUFFICES ASSUME NEW n \in 0..(NBells - 1), Eligible(OnFrom(turn', n)),
                    tower'.cap[OnFrom(turn', n)] # target[OnFrom(turn', n)]
             PROVE  n < left - 1
  BY <1>2, <1>3, <1>4
<1> DEFINE c == OnFrom(turn', n)
<1>5. c \in Bells
  BY <1>1, <1>3, CountedOn
<1>6. PICK k \in 0..(NBells - 1) :
        /\ Eligible(Place(k)) /\ \A m \in 0..(k - 1) : ~Eligible(Place(m))
        /\ turn' = Place(k + 1)
        /\ tower' = IF Busy(tower, Place(k)) THEN tower
                    ELSE Given(Driven(Taken(tower, Place(k)), target[Place(k)]))
  BY <1>5 DEF RefreshStep
<1> DEFINE b == Place(k)
<1>7. b = OnFrom(turn, k) /\ turn' = OnFrom(turn, k + 1) /\ b \in Bells
  <2>1. b = OnFrom(turn, k) /\ turn' = OnFrom(turn, k + 1)
    BY <1>2, <1>3, <1>6
  <2>2. OnFrom(turn, k) \in Bells
    BY <1>1, <1>3, CountedOn
  <2>. QED BY <2>1, <2>2
<1>8. tower'.cap[b] = target[b] /\ \A x \in Bells \ {b} : tower'.cap[x] = tower.cap[x]
  <2> DEFINE t1 == Taken(tower, b)
             t2 == Driven(t1, target[b])
  <2>1. tower' = Given(t2)
    BY <1>1, <1>6 DEF Busy
  <2>2. t1.current = b /\ t1.cap = [tower.cap EXCEPT ![b] = tower.duty]
    BY DEF Taken
  <2>3. t1 \in Towers
    BY <1>1, <1>7, TakeType
  <2> HIDE DEF b, t1
  <2>4. t2.cap = [x \in Bells |-> IF x = b THEN target[b] ELSE t1.cap[x]]
    BY <2>2, <2>3 DEF Driven, Towers
  <2>5. target[b] \in Duties \cup {Off}
    BY <1>1, <1>6, <1>7 DEF Eligible, b
  <2>6. t2 \in Towers
    BY <2>3, <2>5, DriveType
  <2> HIDE DEF t2
  <2>7. Given(t2).cap = t2.cap
    BY <2>6 DEF Given, Towers
  <2>8. tower.cap \in [Bells -> Duties \cup {Off}]
    BY <1>1 DEF Towers
  <2>. QED BY <1>7, <2>1, <2>2, <2>4, <2>7, <2>8
<1>9. c # b /\ tower.cap[c] # target[c]
  BY <1>5, <1>8
<1> DEFINE m == IF n + k + 1 <= NBells - 1 THEN n + k + 1 ELSE n + k + 1 - NBells
<1>10. m \in 0..(NBells - 1) /\ c = OnFrom(turn, m)
  <2>1. m \in 0..(NBells - 1)
    BY <1>1
  <2>2. turn \in Nat /\ turn >= 1 /\ turn <= NBells
    BY <1>1 DEF Bells
  <2>3. c = OnFrom(turn, m)
    BY <1>1, <1>7, <2>2 DEF OnFrom
  <2>. QED BY <2>1, <2>3
<1>11. ~(m \in 0..(k - 1)) /\ m # k
  <2>1. \A x \in 0..(k - 1) : Place(x) = OnFrom(turn, x)
    BY <1>1, <1>2
  <2> HIDE DEF m, c, b
  <2>2. ~(m \in 0..(k - 1))
    BY <1>6, <1>10, <2>1 DEF c
  <2>. QED BY <1>7, <1>9, <1>10, <2>2
<1>12. m < left
  <2> HIDE DEF m
  <2>1. Place(m) = c
    BY <1>2, <1>3, <1>10
  <2>. QED BY <1>9, <1>10, <2>1 DEF RestoreInv
<1>. QED BY <1>1, <1>11, <1>12

\* Every step of the program keeps it.
LEMMA RestoreStep == RestoreInv /\ [Next]_vars => RestoreInv'
<1> SUFFICES ASSUME RestoreInv, [Next]_vars PROVE RestoreInv'
  OBVIOUS
<1>1. LineInv'
  BY LineStep DEF RestoreInv
<1>2. at' # "refresh" => RestoreInv'
  BY <1>1 DEF RestoreInv
<1>3. CASE UNCHANGED lineVars
  BY <1>1, <1>3 DEF RestoreInv, lineVars, Eligible, Place
<1>4. CASE LinesAnew
  BY <1>2, <1>4 DEF LinesAnew
<1>5. CASE PowerCycle \/ ResetButton \/ HardReset \/ Reload \/ CtrlC
  BY <1>4, <1>5 DEF PowerCycle, ResetButton, HardReset, Reload, CtrlC, ResetBy, StartsOver, WorkAnew
<1>6. CASE Dies \/ CrashReset \/ LinkReset
  BY <1>4, <1>6 DEF Dies, CrashReset, LinkReset, OwnReset, ResetBy, StartsOver, WorkAnew
<1>7. CASE PassEnds
  BY <1>2, <1>7 DEF PassEnds, PassEnd
<1>8. CASE Starts \/ Arms \/ WsPass \/ JoinStarts \/ JoinEnds \/ Hangs
  BY <1>3, <1>8 DEF Starts, Arms, WsPass, JoinStarts, JoinEnds, Hangs, work
<1>9. CASE Calls \/ CallGoesOn \/ Tick
  BY <1>3, <1>9 DEF Calls, CallGoesOn, Tick
<1>10. CASE UNCHANGED vars
  BY <1>3, <1>10 DEF vars
<1>11. CASE Works
  <2>1. Survey \/ Check \/ Refresher \/ Doubted \/ \E b \in scene.targets : SetTarget(b)
    BY <1>11 DEF Works
  <2>2. CASE Refresher \/ Doubted \/ \E b \in scene.targets : SetTarget(b)
    BY <1>2, <2>2 DEF Refresher, Doubted, SetTarget
  <2>3. CASE Survey
    BY <1>2, <2>3 DEF Survey, SurveyBegins, Lit, Measured, Confirmed, NextSocket, SurveyEnds, Measures
  <2>4. CASE CheckBegins \/ PulseLow
    BY <1>2, <2>4 DEF CheckBegins, PulseLow, Pulses
  <2>5. CASE CheckEnds
    <3>1. left' = NBells /\ NBells \in Nat
      BY <2>5, MuxAssumption DEF CheckEnds, Refreshes
    <3>2. \A n \in 0..(NBells - 1) : n < left'
      BY <3>1
    <3>. QED BY <1>1, <3>2 DEF RestoreInv
  <2>6. CASE Refreshed
    <3>1. at = "refresh" /\ RefreshStep /\ left' = left - 1 /\ UNCHANGED <<kind, target>>
      BY <2>6 DEF Refreshed
    <3>2. \A n \in 0..(NBells - 1) :
            (Eligible(Place(n)) /\ tower.cap[Place(n)] # target[Place(n)])' => n < left'
      BY <1>1, <3>1, RefreshNears
    <3>. QED BY <1>1, <3>2 DEF RestoreInv
  <2>. QED BY <2>1, <2>2, <2>3, <2>4, <2>5, <2>6 DEF Check
<1>. QED BY <1>5, <1>6, <1>7, <1>8, <1>9, <1>10, <1>11 DEF Next

\* A look at the empty sockets gives every threshold back that may be driven,
\* for any number of bells and whosever turn it was (concentrator.py,
\* _watch_empty; threshold_refresh.py, step).
THEOREM ThresholdsAreRestored == Spec => []LookRestoresThresholds
<1>1. Init => RestoreInv
  BY NewInv DEF Init, LinesNew, RestoreInv
<1>2. RestoreInv => LookRestoresThresholds
  <2> SUFFICES ASSUME RestoreInv, at = "refresh", left = 0, NEW b \in Bells, Eligible(b),
                      tower.cap[b] # target[b]
               PROVE  FALSE
    BY DEF LookRestoresThresholds
  <2>1. turn \in Bells /\ NBells \in Nat /\ NBells > 0
    BY MuxAssumption DEF RestoreInv, LineInv, LineTypeOK
  <2> DEFINE n == IF b >= turn THEN b - turn ELSE b - turn + NBells
  <2>2. n \in 0..(NBells - 1) /\ n \in 0..NBells /\ b = OnFrom(turn, n)
    BY <2>1 DEF Bells, OnFrom
  <2> HIDE DEF n
  <2>3. Place(n) = b
    BY <2>1, <2>2, CountedOn DEF Place
  <2>4. n < 0
    BY <2>2, <2>3 DEF RestoreInv
  <2>. QED BY <2>2, <2>4
<1>. QED BY <1>1, <1>2, RestoreStep, PTL DEF Spec

-----------------------------------------------------------------------------
\* The calls of the HTTP library.  The deadline is looked at between two socket
\* calls, so the one under way is all that comes on top of the bound; a frame
\* that has been begun is the call under way, unless it was left lying.
EarlierAtMost(what) ==
  CASE what = "body" -> Bound + RecvWait
    [] what = "reply" -> 2 * (Bound + RecvWait)
    [] what = "answer" -> Bound + 1
    [] OTHER -> 0

IoInv ==
  /\ span \in Nat /\ before \in Nat /\ wait \in Nat /\ pos \in Nat
  /\ call \in {"none", "header", "body", "reply", "frame", "answer"}
  /\ call = "none" => span = 0
  /\ wait <= Patience /\ span <= Bound + wait
  /\ before <= EarlierAtMost(call)
  /\ pos # 0 => call = "frame" \/ astray

LEMMA PatienceFacts ==
  /\ Bound \in Nat /\ RecvWait \in Nat /\ SendWait \in Nat /\ RecvWait >= 1 /\ SendWait >= 1
  /\ Patience \in Nat /\ Patience >= 1
  /\ call = "frame" => Patience = 1
  /\ call \in {"none", "header", "body"} => Patience = RecvWait
  /\ call \in {"reply", "answer"} => Patience = SendWait
BY BoundsAssumption DEF Patience, Writes

LEMMA PatienceAfter ==
  /\ Patience' \in Nat
  /\ call' = "frame" => Patience' = 1
  /\ call' = call => Patience' = Patience
BY BoundsAssumption DEF Patience, Writes

\* No call, and nothing of a frame that is not left lying.
LEMMA OverKeeps ==
  ASSUME IoInv, Over, pos' \in Nat, pos' # 0 => astray'
  PROVE  IoInv'
BY PatienceFacts, PatienceAfter DEF Over, IoInv, EarlierAtMost

\* All as at the start.
LEMMA NoCallKeeps ==
  ASSUME call' = "none", span' = 0, before' = 0, wait' = 0, pos' = 0
  PROVE  IoInv'
BY PatienceFacts, PatienceAfter DEF IoInv, EarlierAtMost

\* The next part of an exchange, after one that took its bound and a wait.
LEMMA BeginsKeeps ==
  ASSUME IoInv, NEW what,
         \/ what = "header" /\ call = "none"
         \/ what = "body" /\ call = "header"
         \/ what = "reply" /\ call \in {"header", "body"}
         \/ what = "answer" /\ call = "frame",
         Begins(what), pos' \in Nat, pos' # 0 => astray'
  PROVE  IoInv'
<1>1. call' = what /\ span' = 0 /\ before' = before + span /\ wait' = 0
  BY DEF Begins
<1>2. before' \in Nat /\ before' <= EarlierAtMost(call)'
  BY <1>1, PatienceFacts DEF IoInv, EarlierAtMost
<1>3. call' \in {"header", "body", "reply", "answer"}
  BY <1>1
<1>. QED BY <1>1, <1>2, <1>3, PatienceFacts, PatienceAfter DEF IoInv

\* A call goes on while it is within its bound.
LEMMA GoesOnKeeps ==
  ASSUME IoInv, ~Late, GoesOn, UNCHANGED <<pos, astray>>
  PROVE  IoInv'
<1>1. span <= Bound /\ span' = span /\ before' = before /\ wait' = 0 /\ call' = call
  BY PatienceFacts DEF Late, GoesOn, IoInv
<1>. QED BY <1>1, PatienceFacts, PatienceAfter DEF IoInv, EarlierAtMost

LEMMA DroppedKeeps == ASSUME Dropped PROVE IoInv'
BY NoCallKeeps DEF Dropped, Over

LEMMA RequestKeeps == ASSUME IoInv, Header \/ Body \/ Reply \/ Answer PROVE IoInv'
<1>1. CASE Header
  <2>1. ASSUME UNCHANGED pos, UNCHANGED astray PROVE pos' \in Nat /\ (pos' # 0 => astray')
    BY <1>1, <2>1 DEF Header, IoInv
  <2>. QED BY <1>1, <2>1, GoesOnKeeps, BeginsKeeps, OverKeeps DEF Header
<1>2. CASE Body
  <2>1. ASSUME UNCHANGED pos, UNCHANGED astray PROVE pos' \in Nat /\ (pos' # 0 => astray')
    BY <1>2, <2>1 DEF Body, IoInv
  <2>. QED BY <1>2, <2>1, GoesOnKeeps, BeginsKeeps, OverKeeps DEF Body
<1>3. CASE Reply
  <2>1. pos \in Nat /\ (pos # 0 => astray)
    BY <1>3 DEF Reply, IoInv
  <2>. QED BY <1>3, <2>1, GoesOnKeeps, OverKeeps DEF Reply
<1>4. CASE Answer
  <2>1. pos \in Nat /\ (pos # 0 => astray)
    BY <1>4 DEF Answer, IoInv
  <2>. QED BY <1>4, <2>1, GoesOnKeeps, OverKeeps, DroppedKeeps DEF Answer
<1>. QED BY <1>1, <1>2, <1>3, <1>4

\* A frame: pieces more, and it is whole, left lying, or waited for at once.
LEMMA FrameKeeps == ASSUME IoInv, Frame PROVE IoInv'
<1>1. /\ call = "frame" /\ ~astray /\ FrameLen \in Nat /\ HeadLen \in Nat
      /\ span \in Nat /\ before \in Nat /\ wait \in Nat /\ pos \in Nat /\ wait <= 1
      /\ span <= Bound + wait /\ before = 0
  BY BoundsAssumption, PatienceFacts DEF Frame, IoInv, EarlierAtMost
<1>2. CASE pos = 0 /\ Over /\ UNCHANGED <<pos, client, astray>>
  BY <1>2, OverKeeps
<1>3. CASE ~Late /\ GoesOn /\ UNCHANGED <<pos, client, astray>>
  BY <1>3, GoesOnKeeps
<1>4. CASE Dropped
  BY <1>4, DroppedKeeps
<1>5. ASSUME NEW n \in 1..(FrameLen - pos), Takes(n) PROVE IoInv'
  <2>1. CASE GoesOnAtOnce /\ pos' = pos + n
    <3>1. span' = span /\ before' = 0 /\ wait' = 1 /\ call' = "frame" /\ pos' \in Nat
      BY <1>1, <2>1, PatienceFacts DEF GoesOnAtOnce
    <3>. QED BY <1>1, <3>1, PatienceFacts, PatienceAfter DEF IoInv, EarlierAtMost
  <2>2. CASE Over /\ pos' = 0
    BY <2>2, OverKeeps
  <2>3. CASE Begins("answer") /\ pos' = 0
    BY <1>1, <2>3, BeginsKeeps
  <2>4. CASE Over /\ pos' = HeadLen /\ astray'
    BY <1>1, <2>4, OverKeeps
  <2>. QED BY <1>5, <2>1, <2>2, <2>3, <2>4 DEF Takes
<1>. QED BY <1>2, <1>3, <1>4, <1>5 DEF Frame, CutOff

LEMMA MisreadKeeps == ASSUME IoInv, Misread PROVE IoInv'
<1>1. call = "frame" /\ astray /\ pos \in Nat
  BY DEF Misread, IoInv
<1>2. ASSUME UNCHANGED <<pos, client, astray>> PROVE pos' \in Nat /\ (pos' # 0 => astray')
  BY <1>1, <1>2
<1>. QED BY <1>1, <1>2, GoesOnKeeps, OverKeeps, BeginsKeeps, DroppedKeeps DEF Misread

LEMMA IoTickKeeps == ASSUME IoInv, IoTick PROVE IoInv'
<1>1. Patience' = Patience /\ MaxSpan \in Nat
      /\ span \in Nat /\ before \in Nat /\ wait \in Nat /\ wait < Patience /\ span <= Bound + wait
      /\ wait' = wait + 1 /\ span' = (IF span < MaxSpan THEN span + 1 ELSE MaxSpan)
  BY BoundsAssumption, PatienceAfter DEF IoTick, IoInv
<1>2. span' \in Nat /\ span' <= span + 1
  BY <1>1
<1>3. call' = call /\ call # "none" /\ UNCHANGED <<before, pos, astray>>
  BY DEF IoTick
<1>. QED BY <1>1, <1>2, <1>3, PatienceFacts DEF IoInv, EarlierAtMost

\* Every step of the program keeps it.
LEMMA IoStepKeeps == IoInv /\ [Next]_vars => IoInv'
<1> SUFFICES ASSUME IoInv, [Next]_vars PROVE IoInv'
  OBVIOUS
<1>1. CASE UNCHANGED ioVars
  BY <1>1 DEF ioVars, IoInv, Patience, EarlierAtMost, Writes
<1>2. CASE IoAnew
  BY <1>2, NoCallKeeps DEF IoAnew
<1>3. CASE PowerCycle \/ ResetButton \/ HardReset \/ Reload \/ CtrlC
  BY <1>2, <1>3 DEF PowerCycle, ResetButton, HardReset, Reload, CtrlC, ResetBy, StartsOver, WorkAnew
<1>4. CASE Dies \/ CrashReset \/ LinkReset
  BY <1>2, <1>4 DEF Dies, CrashReset, LinkReset, OwnReset, ResetBy, StartsOver, WorkAnew
<1>5. CASE Starts \/ Arms \/ WsPass \/ JoinStarts \/ JoinEnds \/ Hangs \/ PassEnds \/ Works
  BY <1>1, <1>5 DEF Starts, Arms, WsPass, JoinStarts, JoinEnds, Hangs, PassEnds, Works, work
<1>6. CASE Calls
  <2>1. CASE Accepts
    <3>1. pos \in Nat /\ (pos # 0 => astray)
      BY <2>1 DEF Accepts, IoInv
    <3>. QED BY <2>1, <3>1, BeginsKeeps DEF Accepts
  <2>2. CASE Receives
    <3>1. call' = "frame" /\ span' = 0 /\ before' = 0 /\ wait' = 1 /\ pos' = pos
      BY <2>2 DEF Receives
    <3>. QED BY <3>1, PatienceFacts, PatienceAfter DEF IoInv, EarlierAtMost
  <2>3. CASE Closed
    BY <2>3, DroppedKeeps DEF Closed
  <2>. QED BY <1>6, <2>1, <2>2, <2>3 DEF Calls
<1>7. CASE CallGoesOn
  BY <1>7, RequestKeeps, FrameKeeps, MisreadKeeps DEF CallGoesOn, IoStep
<1>8. CASE Tick
  BY <1>1, <1>8, IoTickKeeps DEF Tick
<1>9. CASE UNCHANGED vars
  BY <1>1, <1>9 DEF vars
<1>. QED BY <1>3, <1>4, <1>5, <1>6, <1>7, <1>8, <1>9 DEF Next

LEMMA IoInit == Init => IoInv
<1>1. IoNew => IoInv
  BY PatienceFacts DEF IoNew, IoInv, EarlierAtMost
<1>. QED BY <1>1 DEF Init

\* No peer holds the library, and with it the program, longer than the bound
\* and one socket call more, which is lwIP's sleep when something is written,
\* nor with a whole exchange longer than three of them: for every bound,
\* timeout, sleep and length of a frame (ws_bounds.py, the deadlines of
\* bounded_receive_header_bytes, bounded_receive_body_bytes,
\* bounded_send_bytes and bounded_read_frame).
THEOREM NoCallIsUnbounded == Spec => []CallsAreBounded
<1>1. IoInv => CallsAreBounded
  <2> SUFFICES ASSUME IoInv PROVE CallsAreBounded
    OBVIOUS
  <2>1. span <= Bound + Patience /\ before <= EarlierAtMost(call)
    BY PatienceFacts DEF IoInv
  <2>2. before + span <= 3 * Bound + 2 * RecvWait + SendWait
    BY <2>1, PatienceFacts DEF IoInv, EarlierAtMost
  <2>. QED BY <2>1, <2>2 DEF CallsAreBounded
<1>. QED BY <1>1, IoInit, IoStepKeeps, PTL DEF Spec

\* The next read of a client begins at the start of a frame, unless a fragment
\* of the client's was left lying (ws_bounds.py, bounded_read_frame, _read_n).
THEOREM NoFrameIsCut == Spec => []FramesStayWhole
<1>1. IoInv => FramesStayWhole
  BY DEF IoInv, FramesStayWhole
<1>. QED BY <1>1, IoInit, IoStepKeeps, PTL DEF Spec
=============================================================================
