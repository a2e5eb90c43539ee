--------------------------- MODULE LinkSupervisor ---------------------------
(***************************************************************************)
(* Link supervision with a TCP link (concentrator.py: link_step and what   *)
(* it calls; link.ring_send live, batched or shed).  Every pass observes   *)
(* the link, lets LinkHealth decide, and carries the decision out: join a  *)
(* lost Wi-Fi, start the server, cycle the radio, or reset the Pico, which *)
(* waits for strokes not yet delivered.  Between two passes the Wi-Fi, the *)
(* clients, the stalls of the poll task and the bells do what they like.   *)
(* A pass blocks the loop while it pings, joins or cycles; only the Wi-Fi  *)
(* moves under it.                                                         *)
(*                                                                         *)
(* Time advances by the passes, which come every LINK_CHECK_S or late.     *)
(***************************************************************************)
EXTENDS LinkHealth, FiniteSets

CONSTANTS
  Late,       \* how many units of time may lie between two passes
  Worlds      \* bound: which parts of the world move together in a behaviour

ASSUME SupervisorAssumption ==
  /\ Late \subseteq Nat \ {0} /\ Late # {}
  /\ Worlds \subseteq SUBSET {"wifi", "client", "gateway", "stall"}

VARIABLES
  moves,      \* the parts of the world that move in this behaviour
  h,          \* link_health: the LinkHealth object
  wifi,       \* wifi_ok(): associated, with an address
  known,      \* wifi_up: what the Concentrator last made of it
  server,     \* server_running()
  client,     \* "none", "new" (no hello yet) or "heard": the best /ws client
  rx,         \* last_rx_age_s, None until a heartbeat was heard
  gw,         \* the gateway record: _gw_ms, _gw_fail, _gw_since, _gw_seen
  stalls,     \* stalls_since(STALL_WINDOW_S)
  ringing,    \* "tower": the tower rings; "net": only NetMode still does; "no"
  pending,    \* undelivered_strokes()
  wanted,     \* age of _reset_wanted_at
  acted,      \* history: what the latest step did
  missed,     \* history: pings missed since the latest join or radio reset
  stalled,    \* history: stalls since the latest radio reset
  frame,      \* history: of the latest frame, "fresh": no radio reset for silence
              \* alone came after it; "early": one, as the frame was just in, for
              \* the silence before it; "spent": one for the silence after it
  lonely,     \* history: time since a pass saw a live client and no reason to cycle
  plea        \* history: how lonely the Pico was when a Pico reset was last asked
              \* for, and how long ago that was; a live client met since voids it

pico  == <<moves, h, known, server, gw, wanted>>
bells == <<ringing, pending>>
past  == <<missed, stalled, frame, lonely, plea>>
vars  == <<pico, wifi, client, rx, stalls, bells, acted, past>>

NewGateway == [ok |-> FALSE, misses |-> 0, failing |-> FALSE, seen |-> FALSE]

\* "Tower quiet" for link_step: TowerWatch is inactive and NetMode is QUIET.
Quiet == ringing = "no"

NoPlea == [alone |-> None, age |-> None]

More(n, cap) == IF n < cap THEN n + 1 ELSE n

-----------------------------------------------------------------------------
(* The parts of a pass.                                                    *)

\* _gateway_check.  A gateway that never answered may just ignore pings.
Pinged(g, answer) ==
  CASE answer = "none" -> g
    [] answer = "ok"   -> [ok |-> TRUE, misses |-> 0, failing |-> FALSE, seen |-> TRUE]
    [] answer = "miss" /\ ~g.seen -> [g EXCEPT !.ok = FALSE]
    [] answer = "miss" /\ g.seen  -> [ok |-> FALSE, misses |-> More(g.misses, GatewayN),
                                      failing |-> TRUE, seen |-> TRUE]

Answers == IF Quiet /\ wifi /\ "gateway" \in moves THEN {"none", "ok", "miss"} ELSE {"none"}

Observed(g, age) ==
  [wifi |-> wifi, clients |-> client # "none", rx |-> age, gwOk |-> g.ok, misses |-> g.misses,
   failing |-> g.failing, stalled |-> stalls >= StallN, quiet |-> Quiet]

\* live_clients(): a heartbeat client heard within CLIENT_SILENT_S.
LiveClient(age) == client = "heard" /\ age # None /\ age <= SilentS

\* connect_wifi: one of the networks takes us, or none; what a join raises ends
\* there.
OnAir == BOOLEAN

\* start_server: it listens in the end, or says why not.
Served == BOOLEAN

\* stop_server drops every client.
Unserved == server' = FALSE /\ client' = "none"

\* setup_net: without an address no server is started at the boot.
BootServed(w) == IF w THEN Served ELSE {FALSE}

\* The Pico resets: everything it knew is gone.
Reboot ==
  /\ h' = NewHealth /\ known' = wifi /\ server' \in BootServed(wifi) /\ gw' = NewGateway
  /\ wanted' = None /\ client' = "none" /\ rx' = None /\ stalls' = 0 /\ wifi' = wifi
  /\ ringing' = "no" /\ pending' = FALSE
  /\ missed' = 0 /\ stalled' = 0 /\ frame' = "fresh" /\ lonely' = 0 /\ plea' = NoPlea

\* A join may be due, but not in the pass that noticed the loss.  How long after
\* the last one, and whether while ringing, is a matter of TowerWatch and of
\* link.ring_send: in its live mode the Pico joins while ringing too, only less
\* often.
MayJoin == ~known

\* A lost Wi-Fi: noted once, every client dropped.  Then a join, if it is due.
WifiDown(g, joins) ==
  /\ known' = FALSE /\ gw' = g
  /\ client' = IF known THEN "none" ELSE client
  /\ wifi' \in IF joins THEN OnAir ELSE {FALSE}
  /\ UNCHANGED <<server, stalls>>

\* A new join starts with a clean gateway record.
JoinedGateway(g) == [g EXCEPT !.ok = FALSE, !.misses = 0, !.failing = FALSE]

\* _wifi_regained: with another address the server is bound anew, and its
\* clients dropped.  A server that is not running is tried again.
WifiBack(g) ==
  /\ known' = TRUE /\ gw' = JoinedGateway(g) /\ wifi' = wifi /\ stalls' = stalls
  /\ \/ server' = server /\ server /\ client' = client
     \/ server' \in Served /\ client' = "none"

\* Mutant: a server that is down is left alone.
WifiStays_NoRetry(g) ==
  known' = TRUE /\ gw' = g /\ wifi' = wifi /\ stalls' = stalls /\ client' = client /\ server' = server

\* _ensure_server: a server that is not running is tried again, if that is due.
WifiStays(g) ==
  /\ known' = TRUE /\ gw' = g /\ wifi' = wifi /\ stalls' = stalls /\ client' = client
  /\ server' \in IF server THEN {TRUE} ELSE Served

\* reset_radio: server and clients first, then off and on; this answers the
\* misses and the stalls so far.
RadioReset(g) ==
  /\ known' = TRUE /\ Unserved /\ stalls' = 0
  /\ gw' = [(IF known THEN g ELSE JoinedGateway(g)) EXCEPT !.misses = 0]
  /\ wifi' \in BOOLEAN

-----------------------------------------------------------------------------
(* One pass.  answer is the gateway's, up is what wifi_ok() says the       *)
(* second time, joins whether a join is due.                               *)

\* What a pass after d units of time finds.
Gw(answer) == Pinged(gw, answer)
Age(d) == Older(rx, d, DeadS)
Decided(d, answer) == Update(Aging(h, d), Observed(Gw(answer), Age(d)))

Wanted(d, decided) ==
  LET asked == "pico_reset" \in decided.events
      age   == Older(wanted, d, HoldS)
  IN  IF asked /\ age = None THEN 0 ELSE age

Decision(d, decided) == ResetDecision(Wanted(d, decided), pending, LiveClient(Age(d)))

Cycles(decided) == "radio_reset" \in decided.events

\* How long no pass has seen a live client and no reason to cycle, this one
\* included.
Alone(d, answer, decided) ==
  IF wifi /\ Live(Observed(Gw(answer), Age(d))) /\ stalls < StallN /\ ~Cycles(decided)
  THEN 0 ELSE Older(lonely, d, PicoS)

\* The latest asking for a Pico reset, as this pass leaves it.
Plea(d, answer, decided) ==
  CASE LiveClient(Age(d)) -> NoPlea
    [] ~LiveClient(Age(d)) /\ "pico_reset" \in decided.events ->
         [alone |-> Alone(d, answer, decided), age |-> 0]
    [] OTHER -> [plea EXCEPT !.age = Older(@, d, HoldS)]

\* What the history keeps of a pass that does not reset the Pico.
Recall(d, answer, decided, cycles, joined) ==
  LET g == Gw(answer)
      miss == IF answer = "miss" /\ g.seen THEN More(missed, GatewayN) ELSE missed
      why  == miss >= GatewayN \/ stalled >= StallN
  IN  /\ missed' = IF cycles \/ joined THEN 0 ELSE miss
      /\ stalled' = IF cycles THEN 0 ELSE stalled
      /\ frame' = IF ~cycles \/ why THEN frame
                  ELSE IF frame = "fresh" /\ Recent(Observed(g, Age(d))) THEN "early" ELSE "spent"
      /\ lonely' = Alone(d, answer, decided)
      /\ plea' = Plea(d, answer, decided)

\* The deed of a pass: the record "acted" says what it was and why.
Deed(what, why) == [what |-> what, why |-> why]

\* Evidence for a radio reset at a pass.
Evidence(d, answer) ==
  LET miss == IF answer = "miss" /\ gw.seen THEN More(missed, GatewayN) ELSE missed
  IN  (IF miss >= GatewayN THEN {"gateway"} ELSE {})
      \cup (IF stalled >= StallN THEN {"stalls"} ELSE {})
      \cup (IF frame = "fresh" \/ (frame = "early" /\ ~Recent(Observed(Gw(answer), Age(d))))
            THEN {"silence"} ELSE {})

\* Grounds for a Pico reset at a pass.
Grounds(asked) == (IF asked.alone >= PicoS THEN {"alone"} ELSE {})
                  \cup (IF pending /\ asked.age < HoldS THEN {} ELSE {"waited"})

PassReset(d, answer, decided) ==
  /\ Decision(d, decided) = "reset"
  /\ Reboot
  /\ acted' = Deed("reset", Grounds(Plea(d, answer, decided)))

\* The Pico goes on: a reset that is called off is forgotten on both sides.
GoesOn(d, decided) ==
  LET decision == Decision(d, decided)
  IN  /\ decision # "reset"
      /\ h' = IF decision = "cancel" THEN CalledOff(decided) ELSE decided
      /\ wanted' = IF decision = "cancel" THEN None ELSE Wanted(d, decided)
      /\ rx' = Age(d)
      /\ UNCHANGED bells

PassDown(d, answer, decided, joins) ==
  /\ wifi => "wifi" \in moves
  /\ GoesOn(d, decided)
  /\ joins => MayJoin
  /\ WifiDown(Gw(answer), joins)
  /\ Recall(d, answer, decided, FALSE, FALSE)
  /\ acted' = Deed(IF joins THEN "join" ELSE "none", {})

PassUp(d, answer, decided) ==
  /\ wifi /\ ~Cycles(decided)
  /\ GoesOn(d, decided)
  /\ IF known THEN WifiStays(Gw(answer)) ELSE WifiBack(Gw(answer))
  /\ Recall(d, answer, decided, FALSE, ~known)
  /\ acted' = Deed(IF answer = "none" THEN "none" ELSE "ping", {})

PassCycle(d, answer, decided) ==
  /\ wifi /\ Cycles(decided)
  /\ GoesOn(d, decided)
  /\ RadioReset(Gw(answer))
  /\ Recall(d, answer, decided, TRUE, ~known)
  /\ acted' = Deed("cycle", Evidence(d, answer))

\* The Wi-Fi may be lost between the two times a pass asks for it: then the
\* radio reset just decided is not made.
Pass == /\ \E d \in Late, answer \in Answers :
             \E decided \in {Decided(d, answer)} :
               \/ PassReset(d, answer, decided)
               \/ \E joins \in BOOLEAN : PassDown(d, answer, decided, joins)
               \/ PassUp(d, answer, decided)
               \/ PassCycle(d, answer, decided)
        /\ UNCHANGED moves

-----------------------------------------------------------------------------
(* Between two passes.                                                     *)

Nothing == acted' = Deed("none", {})

WifiDrops ==
  /\ "wifi" \in moves
  /\ wifi /\ wifi' = FALSE /\ Nothing
  /\ UNCHANGED <<pico, client, rx, stalls, bells, past>>

\* An association comes back by itself, before a pass noticed or after.
WifiReturns ==
  /\ "wifi" \in moves
  /\ ~wifi /\ wifi' = TRUE /\ Nothing
  /\ UNCHANGED <<pico, client, rx, stalls, bells, past>>

ClientComes ==
  /\ "client" \in moves
  /\ wifi /\ server /\ client = "none" /\ client' = "new" /\ Nothing
  /\ UNCHANGED <<pico, wifi, rx, stalls, bells, past>>

Hello ==
  /\ wifi /\ client # "none" /\ client' = "heard" /\ rx' = 0 /\ frame' = "fresh" /\ Nothing
  /\ UNCHANGED <<pico, wifi, stalls, bells, missed, stalled, lonely, plea>>

ClientGoes ==
  /\ client # "none" /\ client' = "none" /\ Nothing
  /\ UNCHANGED <<pico, wifi, rx, stalls, bells, past>>

\* A poll takes STALL_S; a stall leaves the window.
Stall ==
  /\ "stall" \in moves
  /\ server /\ stalls < StallN /\ stalls' = stalls + 1 /\ stalled' = More(stalled, StallN)
  /\ Nothing
  /\ UNCHANGED <<pico, wifi, client, rx, bells, missed, frame, lonely, plea>>

StallForgotten ==
  /\ stalls > 0 /\ stalls' = stalls - 1 /\ Nothing
  /\ UNCHANGED <<pico, wifi, client, rx, bells, past>>

Toll ==
  /\ ~(ringing = "tower" /\ pending)
  /\ ringing' = "tower" /\ pending' = TRUE /\ Nothing
  /\ UNCHANGED <<pico, wifi, client, rx, stalls, past>>

\* TowerWatch is inactive some seconds after the last edge; NetMode is quiet
\* link.ring_quiet_s after the last stroke.
RingingEnds ==
  /\ ringing # "no" /\ ringing' = (IF ringing = "tower" THEN "net" ELSE "no") /\ Nothing
  /\ UNCHANGED <<pico, wifi, client, rx, stalls, pending, past>>

\* The strokes were confirmed, or left the buffer.
Delivered ==
  /\ pending /\ pending' = FALSE /\ Nothing
  /\ UNCHANGED <<pico, wifi, client, rx, stalls, ringing, past>>

World == \/ WifiDrops \/ WifiReturns \/ ClientComes \/ Hello \/ ClientGoes
         \/ Stall \/ StallForgotten \/ Toll \/ RingingEnds \/ Delivered

\* start_app: the boot joins, or does not, and starts the server, or does not.
Init ==
  /\ moves \in Worlds
  /\ h = NewHealth /\ wifi \in OnAir /\ known = wifi /\ server \in BootServed(wifi)
  /\ client = "none" /\ rx = None /\ gw = NewGateway /\ stalls = 0
  /\ ringing = "no" /\ pending = FALSE /\ wanted = None
  /\ acted = Deed("none", {})
  /\ missed = 0 /\ stalled = 0 /\ frame = "fresh" /\ lonely = 0 /\ plea = NoPlea

Next == Pass \/ World

Spec == Init /\ [][Next]_vars

\* link_task makes a pass every LINK_CHECK_S for ever, and it is not in every
\* one that the Wi-Fi is lost halfway; a server start that stays possible
\* succeeds in the end.
FairSpec == Spec /\ WF_vars(Pass /\ (wifi => wifi'))
                 /\ SF_vars(Pass /\ server')

-----------------------------------------------------------------------------
\* The two records of a Pico reset agree: LinkHealth has asked for it exactly
\* while the Concentrator wants it, so one held for a long time is neither
\* asked for twice nor, once called off, never again.
AskedIsWanted == h.asked <=> wanted # None

\* A radio reset has evidence of its own: enough pings missed since the latest
\* join or radio reset, enough stalls since the latest radio reset, or a spell
\* of silence that no radio reset answered yet: the one that began with the
\* latest frame or, as that frame is just in, the one it ended.  No remedy is
\* repeated for the trouble it already answered.
CyclesHaveEvidence == [][acted'.what = "cycle" => acted'.why # {}]_vars

\* A Pico reset is made only on the grounds it was asked for, at once or many
\* passes later: at its asking no pass of the last PICO_RESET_S had seen a live
\* client without stalls and without a reason to cycle the radio; no pass since
\* has found a heartbeat client live; and strokes not yet delivered were given
\* RESET_HOLD_S.  (A gateway that stops answering is a reason to cycle: then the
\* spell goes on under a live client.)
ResetIsEarned == [][acted'.what = "reset" => acted'.why = {"alone", "waited"}]_vars

\* A Wi-Fi stack that never comes back is reset, strokes held or not, also
\* after a reset that was held and called off because a client came back.
WedgedIsReset == <>[](~wifi /\ Quiet) => []<>(acted.what = "reset")

\* While the Wi-Fi holds, clients can always come back in the end: the server
\* is never down for good, whoever stopped it.
ServerReturns == <>[]wifi => []<>server

=============================================================================
