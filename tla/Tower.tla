------------------------------- MODULE Tower -------------------------------
(***************************************************************************)
(* From the ropes to the strokes (concentrator.py: poll_sense, _channel,   *)
(* _sense_step, _survey, panel_task; sense_keys.py, ring.py,               *)
(* survey_state.py, channel_gate.py).  The sense task takes the edges,     *)
(* gives each to the Ring and to its channel, and drives the survey of     *)
(* the sockets; the panel task repaints the channels, and what a channel   *)
(* is painted as decides what its edges mean.  The two tasks alternate     *)
(* where the sense task awaits: between two steps, in a survey, and while  *)
(* the heads settle after one.  Plugs and levels change at any time.       *)
(***************************************************************************)
EXTENDS SenseKeys, BellChannel

CONSTANTS
  Scenes      \* bound: what the sockets hold at first, which of them may be
              \* changed, whether time passes, and how often a level moves

ASSUME TowerAssumption ==
  Scenes \subseteq [plug : [Channels -> {"none", "head", "trigger"}],
                    hands : SUBSET Channels, timed : BOOLEAN, moves : Nat]

VARIABLES
  scene,      \* the scene of this behaviour
  plug,       \* what each socket holds
  level,      \* the level of each sense line: TRUE is held
  moves,      \* bound: how often a level or a plug still moves
  sense,      \* the SenseKeys object
  pc,         \* where the sense task is: "rest", "edges", "survey", "settle"
  work,       \* the edges taken and not yet handled
  bell,       \* what _channel keeps of each channel
  head,       \* head[]: what each channel is painted as
  phase,      \* SurveyState.phase
  doubt,      \* SurveyState._doubt
  asked,      \* SurveyState._pending_ch, 0 for None
  kinds,      \* SurveyState.kinds, "unknown" before the first survey
  found,      \* what the survey under way has found so far
  gate,       \* ChannelGate.kind
  running,    \* Ring.running
  ring,       \* what the Ring keeps of each channel
  counted,    \* history: the channels of which this step counted a stroke
  stale       \* history: sockets with a plug change since their last survey

world == <<scene, plug, level, moves>>
survey == <<phase, doubt, asked, kinds, found, gate>>
vars == <<world, sense, pc, work, bell, head, survey, running, ring, counted, stale>>

NoCh == 0

\* Mutant: heads are not among the kinds that may be driven.
DriveOk_NoHeads == {"lb"}

DriveOk == {"lb", "head"}

-----------------------------------------------------------------------------
(* The world.                                                              *)

Scanned(ch, held) == sense' = Scan(sense, ch, held)

\* A rope, a hand on the switch, a bouncing contact.
Flip(ch) ==
  /\ plug[ch] # "none"
  /\ moves > 0 /\ moves' = moves - 1
  /\ level' = [level EXCEPT ![ch] = ~@]
  /\ Scanned(ch, level'[ch])
  /\ counted' = {}
  /\ UNCHANGED <<scene, plug, pc, work, bell, head, survey, running, ring, stale>>

\* A plug is drawn, or put in: a socket without one idles high.
Plug(ch) ==
  /\ ch \in scene.hands /\ moves > 0 /\ moves' = moves - 1
  /\ \E p \in {"none", "head", "trigger"} \ {plug[ch]}, held \in BOOLEAN :
       /\ (plug[ch] = "none") # (p = "none")
       /\ p = "none" => ~held
       /\ plug' = [plug EXCEPT ![ch] = p]
       /\ level' = [level EXCEPT ![ch] = held]
       /\ Scanned(ch, held)
  /\ counted' = {}
  /\ UNCHANGED <<scene, pc, work, bell, head, survey, running, ring, stale>>

Later(e) == IF e.age = Unstamped THEN e ELSE [e EXCEPT !.age = @ + 1]

\* Time passes, and the loop is never held so long that an edge gets too old.
Tick ==
  LET old(q) == \E i \in DOMAIN q : q[i].age >= MaxAge
      older(q) == [i \in DOMAIN q |-> Later(q[i])]
  IN  /\ scene.timed /\ ~old(sense.queue) /\ ~old(sense.pending) /\ ~old(work)
      /\ sense' = [sense EXCEPT !.queue = older(@), !.pending = older(@)]
      /\ work' = older(work)
      /\ bell' = [ch \in Channels |->
                    [bell[ch] EXCEPT !.stroke = Aged(@, GapMs), !.open = Aged(@, RearmMs),
                                     !.low = Aged(@, StuckMs)]]
      /\ ring' = [ch \in Channels |-> [ring[ch] EXCEPT !.on = Aged(@, GapMs)]]
      /\ counted' = {}
      /\ UNCHANGED <<world, pc, head, survey, running, stale>>

\* pump_edges, before and after anything that blocks.
PumpEdges ==
  /\ sense.mode = "keys" /\ sense.queue # <<>>
  /\ sense' = Pump(sense)
  /\ counted' = {}
  /\ UNCHANGED <<world, pc, work, bell, head, survey, running, ring, stale>>

-----------------------------------------------------------------------------
(* The sense task.                                                         *)

Poll ==
  /\ pc = "rest" /\ pc' = "edges"
  /\ work' = Drained(sense) /\ sense' = Drain(sense)
  /\ counted' = {}
  /\ UNCHANGED <<world, bell, head, survey, running, ring, stale>>

\* SurveyState.trigger.
Asks(yes, ch) ==
  /\ doubt' = (doubt \/ yes)
  /\ asked' = IF yes THEN ch ELSE asked

\* One edge: the Ring first, then the channel.  The stroke is sent at once.
HandleEdge ==
  LET e    == Head(work)
      age  == IF e.age = Unstamped THEN 0 ELSE e.age
  IN  /\ pc = "edges" /\ work # <<>>
      /\ \E quiet \in BOOLEAN :
           LET done == Channel(bell[e.ch], head[e.ch], e.held, age, quiet)
           IN  /\ bell' = [bell EXCEPT ![e.ch] = done.bell]
               /\ counted' = IF done.counted THEN {e.ch} ELSE {}
               /\ Asks(done.doubt, e.ch)
      /\ ring' = IF running /\ ring[e.ch].head THEN [ring EXCEPT ![e.ch] = RingEdge(@, e.held, age)]
                                              ELSE ring
      /\ work' = Tail(work)
      /\ stale' = IF kinds[e.ch] \in Plugs /\ e.held # bell[e.ch].prev THEN stale \cup {e.ch} ELSE stale
      /\ UNCHANGED <<world, sense, pc, head, phase, kinds, found, gate, running>>

\* Edges that came while the first were handled: a second look, at most.
PollAgain ==
  /\ pc = "edges" /\ work = <<>> /\ Drained(sense) # <<>>
  /\ work' = Drained(sense) /\ sense' = Drain(sense)
  /\ counted' = {}
  /\ UNCHANGED <<world, pc, bell, head, survey, running, ring, stale>>

\* Mutant: only the channels that are held are looked at.
Looked_HeldOnly(quiet) ==
  [ch \in Channels |->
     IF bell[ch].prev THEN Channel(bell[ch], head[ch], TRUE, 0, quiet)
     ELSE [bell |-> bell[ch], counted |-> FALSE, note |-> "none", doubt |-> FALSE]]

\* Every channel at the level it has been handled to.
Looked(quiet) ==
  [ch \in Channels |-> Channel(bell[ch], head[ch], bell[ch].prev, 0, quiet)]

\* gate.enforce: no laser where the gate allows none.
Enforced(r) == [ch \in Channels |-> IF gate[ch] \in DriveOk THEN r[ch] ELSE [r[ch] EXCEPT !.lit = FALSE]]

StopRing == running' = FALSE /\ ring' = [ch \in Channels |-> Stopped(ring[ch])]
KeepRing == UNCHANGED running /\ ring' = Enforced(ring)

\* Mutant: a doubt that came up during a survey ends with it.
Settled_Sure(d) == doubt' = FALSE

\* The survey is over; what was asked for meanwhile is not.
Settled(d) == doubt' = d

\* SurveyState.step, as far as it does not wait.
PhaseStep(d, a) ==
  \/ /\ phase = "idle" /\ ~d
     /\ UNCHANGED <<phase, sense>> /\ doubt' = d /\ asked' = a /\ pc' = "rest" /\ KeepRing
  \/ /\ phase = "idle" /\ d
     /\ phase' = "examining" /\ doubt' = FALSE /\ asked' = a
     /\ UNCHANGED sense /\ pc' = "rest" /\ KeepRing
  \/ /\ phase = "examining"
     /\ doubt' = d /\ asked' = a /\ UNCHANGED sense /\ pc' = "rest"
     /\ \/ UNCHANGED phase /\ KeepRing
        \/ phase' = "surveying" /\ StopRing
  \/ /\ phase = "surveying"
     /\ UNCHANGED phase /\ doubt' = d /\ asked' = a
     /\ sense' = ToPins(sense, level) /\ pc' = "survey" /\ KeepRing
  \/ /\ phase = "settled"
     /\ phase' = "idle" /\ Settled(d) /\ asked' = NoCh
     /\ UNCHANGED sense /\ pc' = "rest" /\ KeepRing

\* The rest of a step: the look at the levels, and the survey.
StepOn ==
  /\ pc = "edges" /\ work = <<>>
  /\ \E quiet \in BOOLEAN :
       LET looked == Looked(quiet)
           stuck  == {ch \in Channels : looked[ch].doubt}
           last   == IF stuck = {} THEN asked ELSE CHOOSE ch \in stuck : \A x \in stuck : x <= ch
       IN  /\ bell' = [ch \in Channels |-> looked[ch].bell]
           /\ PhaseStep(doubt \/ stuck # {}, last)
           /\ counted' = {ch \in Channels : looked[ch].counted}
  /\ UNCHANGED <<world, work, head, kinds, found, gate, stale>>

\* What the survey makes of a socket.  A held switch looks like a loopback, a
\* head may be faulty.
Found(p) == CASE p = "none" -> {"empty"} [] p = "head" -> {"head", "fault"} [] p = "trigger" -> {"trigger", "lb"}

\* The survey takes the sockets one after the other.
SurveyLooks ==
  LET ch == Len(found) + 1
  IN  /\ pc = "survey" /\ ch \in Channels
      /\ \E kind \in Found(plug[ch]) : found' = Append(found, kind)
      /\ counted' = {}
      /\ UNCHANGED <<world, sense, pc, work, bell, head, phase, doubt, asked, kinds, gate, running, ring, stale>>

\* The gate follows the survey: every channel cleared, then set.
Gated(result) == gate' = result

\* The survey ends: the pins go back to keypad, the gate and the channels
\* take its result.  Then the heads settle.
SurveyEnds ==
  /\ pc = "survey" /\ Len(found) = NChannels /\ pc' = "settle"
  /\ kinds' = found /\ Gated(found) /\ head' = found /\ found' = <<>>
  /\ sense' = ToKeys(sense, level)
  /\ phase' = "settled"
  /\ counted' = {} /\ stale' = {}
  /\ UNCHANGED <<world, work, bell, doubt, asked, running, ring>>

\* Ring.start: the lasers of the heads, and their rest.
RingStarts ==
  LET s == Pump(sense)
  IN  /\ pc = "settle" /\ pc' = "rest"
      /\ sense' = s
      /\ running' = TRUE
      /\ ring' = [ch \in Channels |-> IF kinds[ch] = "head" THEN Started(Stopped(ring[ch]), s.known[ch])
                                                            ELSE [Stopped(ring[ch]) EXCEPT !.head = FALSE]]
      /\ counted' = {}
      /\ UNCHANGED <<world, work, bell, head, survey, stale>>

\* _watch_empty ends a quiet step when it is due: a head that was put into an
\* empty socket draws current.  The pulse is cut before anything else runs.
EmptyHeads == {ch \in Channels : head[ch] = "empty" /\ plug[ch] = "head"}

WatchEmpty ==
  /\ pc = "rest" /\ phase = "idle" /\ EmptyHeads # {}
  /\ Asks(TRUE, CHOOSE ch \in EmptyHeads : \A x \in EmptyHeads : ch <= x)
  /\ counted' = {}
  /\ UNCHANGED <<world, sense, pc, work, bell, head, phase, kinds, found, gate, running, ring, stale>>

-----------------------------------------------------------------------------
(* The panel task: what is examined is painted so, and is no head.         *)

Repainted ==
  CASE phase \in {"examining", "surveying"} /\ asked # NoCh -> [head EXCEPT ![asked] = "unknown"]
    [] phase \in {"examining", "surveying"} /\ asked = NoCh -> [ch \in Channels |-> "unknown"]
    [] OTHER -> IF \A ch \in Channels : kinds[ch] = "unknown" THEN head ELSE kinds

Panel ==
  /\ pc # "edges" /\ Repainted # head
  /\ head' = Repainted
  /\ counted' = {}
  /\ UNCHANGED <<world, sense, pc, work, bell, survey, running, ring, stale>>

-----------------------------------------------------------------------------
\* The self-test is done, keypad has the pins; the boot asks for a survey.
Init ==
  /\ scene \in Scenes /\ plug = scene.plug /\ moves = scene.moves
  /\ level \in {l \in [Channels -> BOOLEAN] : \A ch \in Channels : plug[ch] = "none" => ~l[ch]}
  /\ sense = Keys(level) /\ pc = "rest" /\ work = <<>>
  /\ bell = [ch \in Channels |-> Bell(level[ch])]
  /\ head = [ch \in Channels |-> "unknown"] /\ kinds = head /\ gate = head
  /\ phase = "idle" /\ doubt = TRUE /\ asked = NoCh /\ found = <<>>
  /\ running = FALSE /\ ring = [ch \in Channels |-> Silent]
  /\ counted = {} /\ stale = {}

Sense == Poll \/ HandleEdge \/ StepOn \/ SurveyLooks \/ SurveyEnds \/ RingStarts \/ WatchEmpty

Next == \/ \E ch \in Channels : Flip(ch) \/ Plug(ch)
        \/ Tick \/ PumpEdges \/ PollAgain \/ Panel \/ Sense

Spec == Init /\ [][Next]_vars

-----------------------------------------------------------------------------
\* The edges of a channel on their way, oldest first.
Of(ch) == [ch : {ch}, held : BOOLEAN, age : Int]
Coming(ch) == Keeping(work \o sense.pending, Of(ch))
Queued(ch) == Keeping(sense.queue, Of(ch))

\* No edge is lost, doubled or out of order between keypad, the survey and the
\* channel, unless edges_lost says so: those on their way go up and down in
\* turn, from the level handled last to the level of the line.
NothingLostUnsaid ==
  \A ch \in Channels : ~sense.lost /\ ~sense.full =>
    LET way == Coming(ch) q == Queued(ch)
    IN  /\ \A i \in DOMAIN way : way[i].held = (IF i % 2 = 1 THEN ~bell[ch].prev ELSE bell[ch].prev)
        /\ sense.known[ch] = IF way = <<>> THEN bell[ch].prev ELSE Last(way).held
        /\ sense.mode = "keys" => level[ch] = IF q = <<>> THEN sense.known[ch] ELSE Last(q).held

\* A plug change at a socket is followed by a survey, whatever was going on.
PlugIsNotForgotten == stale # {} => doubt \/ phase \in {"examining", "surveying"}

\* Between two surveys every head is lit and rings, whatever the survey before
\* made of its socket.
HeadsAreLit ==
  phase = "idle" /\ pc # "settle" =>
    \A ch \in Channels : kinds[ch] = "head" => running /\ ring[ch].head /\ ring[ch].lit

\* A note outlives what it sounds for in one way only.  A head's note sounds
\* while its bell is off its rest and lit, no longer.  A press's note ends with
\* the release, or with the survey that was on meanwhile, unless that survey
\* took the channel for something else than a trigger: then nothing ends it
\* (_trigger_note is for triggers only), before a later survey finds a trigger.
OnlyTakenNotesStay ==
  /\ \A ch \in Channels : ring[ch].sounding => running /\ ring[ch].prev # ring[ch].rest
  /\ phase = "idle" /\ pc = "rest" =>
       \A ch \in Channels : bell[ch].sounding /\ ~bell[ch].prev => kinds[ch] # "trigger"

=============================================================================
