------------------------------ MODULE Watchdog ------------------------------
(***************************************************************************)
(* The guard of the hardware watchdog and the note that names a reset      *)
(* (watchdog_guard.py).  The hardware is a record, on or off and the time  *)
(* left to its reset; the guard is a record that drives it.  A timer of    *)
(* the hardware starts anew when its timeout is set and when it is fed.    *)
(***************************************************************************)
EXTENDS Integers

CONSTANTS
  Timeout,    \* timeout_s, clamped to 1..8
  MaxAge      \* heartbeats: how old the last check-in of ws_poll may be

ASSUME WatchdogAssumption == Timeout \in Nat \ {0} /\ MaxAge \in Nat \ {0}

Marks == {"none", "SELF-RESET", "CRASH-RESET"}
Chips == {"POWER_ON", "RESET_PIN", "WATCHDOG"}

HwOff == [on |-> FALSE, left |-> 0]
HwSet == [on |-> TRUE, left |-> Timeout]

\* A WatchdogGuard as it is made: boot_reasons names the reset.
NewGuard(name) == [armed |-> FALSE, paused |-> FALSE, beat |-> 0, name |-> name]

\* Mutant: the note of a reset of our own is read and stays.
TakenMark_Stays(nvm) == nvm

\* take_mark clears what it reads.
TakenMark(nvm) == "none"

\* boot_reasons: a note names the reset, unless the power was off meanwhile.
ResetName(chip, nvm) == IF nvm # "none" /\ chip # "POWER_ON" THEN nvm ELSE chip

\* arm, on a board where nothing speaks against it: enabled, in the only mode
\* there is, with no flag file, and no console unless that is allowed.
MayArm(s, flag, console) == s.enabled /\ ~flag /\ (console => s.withUsb)
Armed(g) == [g EXCEPT !.armed = TRUE, !.beat = 0]

Pauses(g)  == g.armed /\ ~g.paused
Resumes(g) == g.armed /\ g.paused
Paused(g)  == IF Pauses(g) THEN [g EXCEPT !.paused = TRUE] ELSE g
Resumed(g) == IF Resumes(g) THEN [g EXCEPT !.paused = FALSE] ELSE g
Disarmed(g) == [g EXCEPT !.armed = FALSE, !.paused = FALSE]

\* pause: mode None, the timer stands.
HwPaused(g, h) == IF Pauses(g) THEN [h EXCEPT !.on = FALSE] ELSE h

\* Mutant: resume sets the mode only; the timer goes on where it stood.
HwResumed_Mode(g, h) == IF Resumes(g) THEN [h EXCEPT !.on = TRUE] ELSE h

\* Mutant: resume sets the timeout only; the timer stays off.
HwResumed_Timeout(g, h) == IF Resumes(g) THEN [h EXCEPT !.left = Timeout] ELSE h

\* resume sets the timeout, which feeds, and the mode.
HwResumed(g, h) == IF Resumes(g) THEN HwSet ELSE h

HwDisarmed(g, h) == IF g.armed THEN HwOff ELSE h

CheckedIn(g) == [g EXCEPT !.beat = 0]

\* loop_tick feeds if it is armed and every heartbeat is fresh.
Feeds(g) == g.armed /\ ~g.paused /\ g.beat <= MaxAge
HwTicked(g, h) == IF Feeds(g) THEN HwSet ELSE h

=============================================================================
