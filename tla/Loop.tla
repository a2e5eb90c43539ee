-------------------------------- MODULE Loop --------------------------------
(***************************************************************************)
(* The life of the program (boot.py; run, main, start_app, ws_poll_task,   *)
(* _sense_step and close of concentrator.py): from a reset through boot.py *)
(* and the start to the steady loop, and from there to the next reset, by  *)
(* the watchdog, by the link supervisor, after a task has died, by hand;   *)
(* or to the console.  In the steady loop the sense task works with the    *)
(* sockets and feeds the watchdog at the end of a pass, the others check   *)
(* in, join the Wi-Fi with the watchdog paused, or hang.                   *)
(***************************************************************************)
EXTENDS Watchdog, Sockets, WsBounds

CONSTANTS
  Scenes    \* bound: whether time passes, the watchdog's settings, whose threshold is given
            \* a target, how often surveys are made, whether peers come, whether notes fail

ASSUME LoopAssumption ==
  Scenes \subseteq [timed : BOOLEAN, enabled : BOOLEAN, withUsb : BOOLEAN,
                    targets : SUBSET Bells, surveys : {"none", "boot", "any"}, peers : BOOLEAN, worn : BOOLEAN]

VARIABLES
  scene,    \* the scene of this behaviour
  phase,    \* "boot", "start", "run", "crash", "console"
  held,     \* what holds the loop: "no", "join", "call", "hung"
  guard,    \* the WatchdogGuard
  hw,       \* the hardware watchdog
  chip,     \* microcontroller.cpu.reset_reason
  nvm,      \* the note in the non-volatile memory
  fresh,    \* FALSE in a program started without a reset
  cause,    \* history: what reset the board last
  asked,    \* history: our own reset, until a program has named it
  spoilt,   \* history: an access to the note has failed, and none went well since
  quiet     \* history: the time since a pass ended with all heartbeats fresh,
            \* or the watchdog was set going, outside joins

dogVars  == <<guard, hw>>
bootVars == <<chip, nvm, fresh, cause, asked, spoilt>>
vars == <<scene, phase, held, dogVars, bootVars, quiet, lineVars, ioVars>>

\* What the tasks of a program work with.
work == <<lineVars, ioVars>>
WorkAnew == LinesAnew /\ IoAnew

NoGuard == NewGuard("none")

-----------------------------------------------------------------------------
(* Resets and starts.                                                      *)

\* Whatever ends the program: the hardware is off, the next one starts anew.
StartsOver ==
  /\ phase' = "boot" /\ held' = "no" /\ guard' = NoGuard /\ hw' = HwOff /\ quiet' = 0
  /\ WorkAnew

ResetBy(what, label) ==
  /\ StartsOver
  /\ chip' = label /\ fresh' = TRUE /\ cause' = what
  /\ UNCHANGED scene

\* The note, and what is known of it.
noteVars == <<nvm, asked, spoilt>>

PowerCycle  == ResetBy("power", "POWER_ON") /\ UNCHANGED noteVars
ResetButton == ResetBy("pin", "RESET_PIN") /\ UNCHANGED noteVars

\* The hardware's timer has run out.
HardReset ==
  /\ hw.on /\ hw.left = 0
  /\ ResetBy("watchdog", "WATCHDOG") /\ UNCHANGED noteVars

\* mark_reset, whose write may fail, and is let fail; then
\* microcontroller.reset, which the chip reports as WATCHDOG.
OwnReset(mark) ==
  /\ ResetBy("own", "WATCHDOG") /\ asked' = mark
  /\ \/ nvm' = mark /\ spoilt' = FALSE
     \/ scene.worn /\ nvm' = nvm /\ spoilt' = TRUE

\* Ctrl-D at the console, or a file saved on the drive: no reset.  The
\* supervisor puts the watchdog off.
Reload ==
  /\ phase # "boot"
  /\ StartsOver /\ fresh' = FALSE
  /\ UNCHANGED <<scene, chip, cause, noteVars>>

\* Ctrl-C, in a join too; the supervisor puts the watchdog off, whatever
\* main's finally did.
CtrlC ==
  /\ phase # "console" /\ phase' = "console" /\ held' = "no"
  /\ guard' = Disarmed(Resumed(guard)) /\ hw' = HwOff /\ quiet' = 0
  /\ WorkAnew
  /\ UNCHANGED <<scene, bootVars>>

\* boot.py has waited, the networks are tried: the Concentrator is made, and
\* the first it does is to read why it was started.  A note that cannot be read
\* and cleared is none.
Starts ==
  /\ phase = "boot" /\ phase' = "start"
  /\ \/ guard' = NewGuard(ResetName(chip, nvm)) /\ nvm' = TakenMark(nvm) /\ spoilt' = FALSE
     \/ scene.worn /\ guard' = NewGuard(chip) /\ nvm' = nvm /\ spoilt' = TRUE
  /\ asked' = "none"
  /\ UNCHANGED <<scene, held, hw, chip, fresh, cause, quiet, work>>

\* The end of start_app: the watchdog is armed last, or not at all.
Arms ==
  /\ phase = "start" /\ phase' = "run"
  /\ \E flag, console \in BOOLEAN :
       IF MayArm(scene, flag, console)
       THEN guard' = Armed(guard) /\ hw' = HwSet
       ELSE UNCHANGED dogVars
  /\ quiet' = 0
  /\ UNCHANGED <<scene, held, bootVars, work>>

\* The start fails, or a task dies: main puts the watchdog off and closes.
Dies ==
  /\ phase \in {"boot", "start", "run"} /\ held = "no" /\ phase' = "crash"
  /\ guard' = Disarmed(guard) /\ hw' = HwDisarmed(guard, hw) /\ quiet' = 0
  /\ WorkAnew
  /\ UNCHANGED <<scene, held, bootVars>>

\* run has said what it was and slept.
CrashReset == phase = "crash" /\ OwnReset("CRASH-RESET")

-----------------------------------------------------------------------------
(* The steady loop.                                                        *)

Running == phase = "run" /\ held = "no"

\* The sense task awaits, and the others run.
Others == Running /\ at # "refresh"

\* The link supervisor resets the board.
LinkReset == Others /\ OwnReset("SELF-RESET")

\* ws_poll_task ends a pass.
WsPass ==
  /\ Others
  /\ guard' = CheckedIn(guard)
  /\ UNCHANGED <<scene, phase, held, hw, bootVars, quiet, work>>

\* A rejoin, the watchdog paused.
JoinStarts ==
  /\ Others /\ held' = "join"
  /\ guard' = Paused(guard) /\ hw' = HwPaused(guard, hw)
  /\ UNCHANGED <<scene, phase, bootVars, quiet, work>>

JoinEnds ==
  /\ held = "join" /\ held' = "no"
  /\ guard' = Resumed(guard) /\ hw' = HwResumed(guard, hw)
  /\ quiet' = 0
  /\ UNCHANGED <<scene, phase, bootVars, work>>

\* A call that never returns holds the loop.
Hangs ==
  /\ Running /\ held' = "hung"
  /\ UNCHANGED <<scene, phase, dogVars, bootVars, quiet, work>>

\* The sense task ends a pass and ticks the watchdog.
PassEnds ==
  /\ Running /\ PassEnd
  /\ hw' = HwTicked(guard, hw)
  /\ quiet' = IF guard.beat <= MaxAge THEN 0 ELSE quiet
  /\ UNCHANGED <<scene, phase, held, guard, bootVars, ioVars>>

\* All that goes on between, and feeds nobody.
Works ==
  /\ Running
  /\ \/ scene.surveys # "none" /\ (Survey \/ Check \/ Refresher)
     \/ scene.surveys = "any" /\ Doubted
     \/ \E b \in scene.targets : SetTarget(b)
  /\ UNCHANGED <<scene, phase, held, dogVars, bootVars, quiet, ioVars>>

\* poll() calls the library, and a peer is at the other end.
Calls ==
  /\ Others /\ scene.peers
  /\ \/ (Accepts \/ Receives) /\ held' = "call"
     \/ Closed /\ UNCHANGED held
  /\ UNCHANGED <<scene, phase, dogVars, bootVars, quiet, lineVars>>

\* The library's socket calls; the last one gives the loop back.
CallGoesOn ==
  /\ held = "call"
  /\ IoStep
  /\ held' = IF call' = "none" THEN "no" ELSE held
  /\ UNCHANGED <<scene, phase, dogVars, bootVars, quiet, lineVars>>

Up(n, max) == IF n < max THEN n + 1 ELSE max

\* Time passes, also between two steps of a task: a call may take long.
Tick ==
  /\ scene.timed /\ phase = "run"
  /\ ~(hw.on /\ hw.left = 0)
  /\ hw' = IF hw.on THEN [hw EXCEPT !.left = @ - 1] ELSE hw
  /\ guard' = [guard EXCEPT !.beat = Up(@, MaxAge + 1)]
  /\ quiet' = IF held = "join" THEN quiet ELSE Up(quiet, Timeout)
  /\ IF held = "call" THEN IoTick ELSE UNCHANGED ioVars
  /\ UNCHANGED <<scene, phase, held, bootVars, lineVars>>

-----------------------------------------------------------------------------
\* A board that was never on before.
Init ==
  /\ scene \in Scenes /\ phase = "boot" /\ held = "no"
  /\ guard = NoGuard /\ hw = HwOff /\ quiet = 0
  /\ chip = "POWER_ON" /\ nvm = "none" /\ fresh = TRUE
  /\ cause = "power" /\ asked = "none" /\ spoilt = FALSE
  /\ LinesNew /\ IoNew

Next == PowerCycle \/ ResetButton \/ HardReset \/ Reload \/ CtrlC \/ Starts \/ Arms \/ Dies \/ CrashReset
        \/ LinkReset \/ WsPass \/ JoinStarts \/ JoinEnds \/ Hangs \/ PassEnds \/ Works
        \/ Calls \/ CallGoesOn \/ Tick

\* Time passes, and the hardware does what it is for.
Spec == Init /\ [][Next]_vars /\ WF_vars(Tick) /\ WF_vars(HardReset)

-----------------------------------------------------------------------------
\* What a program is to say of the reset that started it: what reset the board;
\* but an own reset of which no program has read yet keeps its name when the
\* button cut the boot after it short.
DueName ==
  CASE cause = "power" -> "POWER_ON"
    [] cause = "watchdog" -> "WATCHDOG"
    [] cause = "own" -> asked
    [] cause = "pin" -> IF asked = "none" THEN "RESET_PIN" ELSE asked

\* The first program after a reset names it so, as long as the note is written,
\* read and cleared without fail (mark_reset, take_mark).  When that fails, a
\* reset of our own may pass for the watchdog's, but nothing else.
NamedForItsCause ==
  [][phase = "boot" /\ phase' = "start" /\ fresh =>
       /\ ~spoilt /\ ~spoilt' => guard'.name = DueName
       /\ guard'.name = "WATCHDOG" => cause \in {"watchdog", "own"}]_vars

\* The hardware resets nobody who has ended a pass with all heartbeats fresh,
\* or come out of a join, within the timeout.
NobodyIsResetEarly == [][HardReset => phase = "run" /\ quiet = Timeout]_vars

\* A loop that hangs on an armed board is reset, whatever joins it has behind
\* it, or stopped by hand.
HungIsReset == held = "hung" /\ guard.armed ~> held # "hung"

=============================================================================
