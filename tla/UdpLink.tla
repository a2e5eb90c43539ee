------------------------------ MODULE UdpLink ------------------------------
(***************************************************************************)
(* The link with link.ring_send "udp" (farm_ws.py: udp_send, ack_poll,     *)
(* cmd_poll, cmd_apply; link_health.py: AckWatch, cmd_check, ack_check,    *)
(* NetMode; concentrator.py: _udp_link_step, _udp_dead_step).  There is no *)
(* TCP: what the Pico says goes out as datagrams, Sandbells acks the       *)
(* heartbeats, and may send one command, "wifi_off", until reboot.         *)
(*                                                                         *)
(* A datagram may be lost, come late or come after a reboot; a command may *)
(* come again as well.  poll() and the flush of its notes are one step (no *)
(* await lies between); so is a link pass, which blocks the loop.  Time    *)
(* advances by the link passes.                                            *)
(***************************************************************************)
EXTENDS Integers, Sequences

CONSTANTS
  Boots,      \* bound: how often the Pico boots
  MaxSeq,     \* bound: command seqs
  DeadS,      \* link.ack_dead_s
  Backoff,    \* ACK_REJOIN_BACKOFF_S
  OkS,        \* link.ack_ok_s
  RejoinS     \* WIFI_REJOIN_S

ASSUME UdpAssumption ==
  /\ {Boots, MaxSeq, DeadS, OkS, RejoinS} \subseteq Nat \ {0}
  /\ Backoff \in Seq(Nat \ {0}) /\ Backoff # <<>>

VARIABLES
  boot,       \* this boot's boot_id
  named,      \* _event_boot is set: something with the boot_id was sent
  cmd,        \* NetMode.mode and by_command; _cmd: last_seq, pending, radio_off
  net,        \* NetMode.state
  tower,      \* _gate.tower
  watch,      \* the AckWatch
  wifi,       \* wifi_ok()
  known,      \* wifi_up
  tried,      \* age of tried_at
  through,    \* datagrams get through while the Wi-Fi is up
  commands,   \* the commands Sandbells has sent, each to the boot it names
  acks,       \* the acks under way, by the boot they name
  heard,      \* history: the boots Sandbells had a datagram from
  waited,     \* history: time since the latest ack, radio cycle or boot
  cycles,     \* history: radio cycles since the latest ack or boot
  did         \* history: what the latest step did with the radio

air  == <<commands, acks, heard>>
past == <<waited, cycles>>
pico == <<boot, named, cmd, net, tower, watch, known, tried>>
vars == <<pico, wifi, through, air, past, did>>

None == -1

\* The longest silence any wait asks for.
Longest == CHOOSE m \in {DeadS} \cup {Backoff[i] : i \in DOMAIN Backoff} :
             \A i \in DOMAIN Backoff : m >= DeadS /\ m >= Backoff[i]

Older(age, cap) == IF age = None \/ age >= cap THEN age ELSE age + 1

\* NET_PLAN, column rejoins: only in the quiet.
Rejoins == net = "QUIET" /\ cmd.mode = "udp"

-----------------------------------------------------------------------------
(* AckWatch.                                                               *)

NewWatch == [since |-> None, ackAt |-> None, tries |-> 0]

\* A datagram went out: the silence clock starts if it was not running.
Sent(w) == IF w.since = None THEN [w EXCEPT !.since = 0] ELSE w

Acked(w) == [since |-> 0, ackAt |-> 0, tries |-> 0]

\* Mutant: a Wi-Fi that comes back counts as an ack.
Restarted_Forgives(w) == [w EXCEPT !.since = None, !.tries = 0]

Restarted(w) == [w EXCEPT !.since = None]

\* A rejoin was made (tries is only compared up to the length of the backoff).
Tried(w) == [w EXCEPT !.since = 0, !.tries = IF @ < Len(Backoff) THEN @ + 1 ELSE @]

\* Silence that makes the next rejoin due, after n of them.
WaitS(n) == IF n = 0 \/ Backoff[n] < DeadS THEN DeadS ELSE Backoff[n]

\* Mutant: no rejoin before Sandbells was heard once this boot.
Due_AfterAck(w) == w.ackAt # None /\ w.since >= WaitS(w.tries)

Due(w) == w.since >= WaitS(w.tries)

\* The link LED is green.
Fresh(w) == w.ackAt # None /\ w.ackAt < OkS

OlderWatch(w) == [w EXCEPT !.since = Older(@, Longest), !.ackAt = Older(@, OkS)]

-----------------------------------------------------------------------------
(* Commands: a turn of poll() applies what the last turn accepted, whose   *)
(* answer has been sent meanwhile, and only then reads the next.           *)

NewCmd == [mode |-> "udp", last |-> 0, pending |-> FALSE, radioOff |-> FALSE]

NoCommand == [boot |-> 0, seq |-> 0]

\* Mutant: a command of another boot is taken.
Accepts_AnyBoot(c, m) == named /\ m # NoCommand /\ m.seq > c.last

\* cmd_check.
Accepts(c, m) == named /\ m # NoCommand /\ m.boot = boot /\ m.seq > c.last

CmdApply(c) == IF c.pending THEN [c EXCEPT !.pending = FALSE, !.mode = "off"] ELSE c

CmdPoll(c, m) ==
  IF c.mode = "udp" /\ Accepts(c, m) THEN [c EXCEPT !.last = m.seq, !.pending = TRUE] ELSE c

CommandTurn(c, m) == CmdPoll(CmdApply(c), m)

\* ack_check.
GoodAck(b) == named /\ b = boot

-----------------------------------------------------------------------------
(* The steps of the Pico.                                                  *)

\* poll(), and the flush of its notes: m and b are what the sockets have.
Poll(m, b, state) ==
  /\ state \in {net, "QUIET"}
  /\ net' = state
  /\ cmd' = CommandTurn(cmd, m)
  /\ LET read == cmd'.mode = "udp" /\ b # 0
         good == read /\ GoodAck(b)
     IN  /\ acks' = IF read THEN acks \ {b} ELSE acks
         /\ watch' = IF good THEN Acked(watch) ELSE watch
         /\ waited' = IF good THEN 0 ELSE waited
         /\ cycles' = IF good THEN 0 ELSE cycles
  /\ did' = "none"
  /\ UNCHANGED <<boot, named, tower, known, tried, wifi, through, commands, heard>>

\* udp_send: lwIP takes it or not, it gets through or not; a heartbeat that
\* gets through is acked.  A stroke starts the ringing, sent or not.
Send(kind, ok) ==
  /\ cmd.mode = "udp"
  /\ ok => wifi
  /\ named' = TRUE
  /\ net' = IF kind = "stroke" THEN "RINGING" ELSE net
  /\ watch' = IF ok THEN Sent(watch) ELSE watch
  /\ heard' = IF ok /\ through THEN heard \cup {boot} ELSE heard
  /\ acks' = IF ok /\ through /\ kind = "heartbeat" THEN acks \cup {boot} ELSE acks
  /\ did' = "none"
  /\ UNCHANGED <<boot, cmd, tower, known, tried, wifi, through, commands, past>>

\* What every link pass does to the clocks and to what it leaves alone.
Passes ==
  /\ waited' = Older(waited, Longest)
  /\ UNCHANGED <<boot, named, net, tower, air>>

\* radio_off: by command, in the quiet, the tower inactive.
PassOff ==
  /\ cmd.mode = "off"
  /\ LET due == ~cmd.radioOff /\ net = "QUIET" /\ tower = "inactive"
     IN  /\ cmd' = IF due THEN [cmd EXCEPT !.radioOff = TRUE] ELSE cmd
         /\ IF due THEN wifi' \in {FALSE, wifi} ELSE wifi' = wifi
         /\ did' = IF due THEN "off" ELSE "none"
  /\ watch' = OlderWatch(watch) /\ tried' = Older(tried, RejoinS)
  /\ UNCHANGED <<known, through, cycles>>

\* The Wi-Fi is back: a fresh socket, and silence counts from the next send.
PassBack ==
  /\ cmd.mode = "udp" /\ wifi /\ ~known
  /\ known' = TRUE
  /\ watch' = Restarted(OlderWatch(watch)) /\ tried' = Older(tried, RejoinS)
  /\ did' = "none"
  /\ UNCHANGED <<cmd, wifi, through, cycles>>

DeadNow == wifi /\ known /\ Due(OlderWatch(watch))

\* Wi-Fi up and nothing to do, or a dead link while ringing: it waits.
PassUp ==
  /\ cmd.mode = "udp" /\ wifi /\ known
  /\ ~(DeadNow /\ Rejoins)
  /\ watch' = OlderWatch(watch) /\ tried' = Older(tried, RejoinS)
  /\ did' = "none"
  /\ UNCHANGED <<cmd, wifi, known, through, cycles>>

\* _udp_dead_step: radio off and on, and a join, which may fail; whether
\* datagrams get through afterwards is the extender's business.
PassDead ==
  /\ cmd.mode = "udp" /\ DeadNow /\ Rejoins
  /\ watch' = Tried(OlderWatch(watch))
  /\ wifi' \in BOOLEAN /\ known' = wifi' /\ through' \in BOOLEAN
  /\ tried' = IF wifi' THEN Older(tried, RejoinS) ELSE 0
  /\ cycles' = IF cycles < Len(Backoff) THEN cycles + 1 ELSE cycles
  /\ did' = "cycle"
  /\ UNCHANGED cmd

\* Wi-Fi down: noted once, then joined every WIFI_REJOIN_S in the quiet.
JoinDue == ~known /\ Rejoins /\ Older(tried, RejoinS) >= RejoinS

\* Mutant: the loss is noted again and again.
PassLost_Again ==
  /\ cmd.mode = "udp" /\ ~wifi
  /\ known' = FALSE /\ tried' = 0 /\ wifi' = wifi
  /\ did' = "none"
  /\ watch' = OlderWatch(watch)
  /\ UNCHANGED <<cmd, through, cycles>>

PassLost ==
  /\ cmd.mode = "udp" /\ ~wifi
  /\ known' = FALSE
  /\ tried' = IF known \/ JoinDue THEN 0 ELSE Older(tried, RejoinS)
  /\ IF JoinDue THEN wifi' \in BOOLEAN ELSE wifi' = wifi
  /\ did' = IF JoinDue THEN "join" ELSE "none"
  /\ watch' = OlderWatch(watch)
  /\ UNCHANGED <<cmd, through, cycles>>

\* link_step, with "udp" or, after the command, "off".
Pass ==
  \/ Passes /\ (PassOff \/ PassBack \/ PassUp \/ PassLost)
  \/ /\ PassDead /\ waited' = 0
     /\ UNCHANGED <<boot, named, net, tower, air>>

\* A power cycle, or the watchdog: everything in RAM is gone.
Reboot ==
  /\ boot < Boots /\ boot' = boot + 1
  /\ named' = FALSE /\ cmd' = NewCmd /\ net' = "QUIET" /\ tower' = "inactive"
  /\ watch' = NewWatch /\ wifi' \in BOOLEAN /\ known' = wifi' /\ tried' = 0
  /\ waited' = 0 /\ cycles' = 0 /\ did' = "none"
  /\ UNCHANGED <<through, air>>

-----------------------------------------------------------------------------
(* What the Pico does not do.                                              *)

\* Sandbells commands the boot it hears, with a seq of its choice.
Command(b, n) ==
  /\ b \in heard /\ commands' = commands \cup {[boot |-> b, seq |-> n]} /\ did' = "none"
  /\ UNCHANGED <<pico, wifi, through, acks, heard, past>>

AckLost(b) ==
  /\ acks' = acks \ {b} /\ did' = "none"
  /\ UNCHANGED <<pico, wifi, through, commands, heard, past>>

TowerMoves ==
  /\ tower' \in {"active", "inactive"} /\ did' = "none"
  /\ UNCHANGED <<boot, named, cmd, net, watch, known, tried, wifi, through, air, past>>

\* The Wi-Fi comes and goes, and so does the path behind it; a radio that is
\* off stays off.
WifiMoves ==
  /\ wifi' \in BOOLEAN /\ through' \in BOOLEAN /\ did' = "none"
  /\ cmd.radioOff => (wifi' => wifi)
  /\ UNCHANGED <<pico, air, past>>

World == \/ \E b \in 1..Boots, n \in 1..MaxSeq : Command(b, n)
         \/ \E b \in acks : AckLost(b)
         \/ TowerMoves \/ WifiMoves

\* start_app with "udp": one join, tried, and configure_udp.
Init ==
  /\ boot = 1 /\ named = FALSE /\ cmd = NewCmd /\ net = "QUIET" /\ tower = "inactive"
  /\ watch = NewWatch /\ wifi \in BOOLEAN /\ known = wifi /\ tried = 0 /\ through \in BOOLEAN
  /\ commands = {} /\ acks = {} /\ heard = {}
  /\ waited = 0 /\ cycles = 0 /\ did = "none"

Next ==
  \/ \E m \in commands \cup {NoCommand}, b \in acks \cup {0}, state \in {"QUIET", "RINGING"} :
       Poll(m, b, state)
  \/ \E kind \in {"stroke", "heartbeat", "event"}, ok \in BOOLEAN : Send(kind, ok)
  \/ Pass \/ Reboot \/ World

Spec == Init /\ [][Next]_vars

\* link_task and heartbeat_task go on for ever; lwIP takes a heartbeat again
\* and again while the Wi-Fi is up.
FairSpec == Spec /\ WF_vars(Pass) /\ SF_vars(Send("heartbeat", TRUE))

-----------------------------------------------------------------------------
\* The Pico is only off the air because Sandbells told this very boot to be:
\* no command is left over for the next boot, however late or often it comes.
OffIsMeant == cmd.mode = "off" => \E m \in commands : m.boot = boot

\* Radio cycles for a silent Sandbells come further and further apart until it
\* is heard again, whatever the Wi-Fi did in between: each costs seconds in
\* which a stroke would sound late.
RejoinsBackOff == [][did' = "cycle" => Older(waited, Longest) >= WaitS(cycles)]_vars

\* A Wi-Fi that says up and carries nothing is cycled, again and again, as
\* long as nobody rings.
DeadLinkIsCycled ==
  <>[](cmd.mode = "udp" /\ wifi /\ ~through /\ net = "QUIET" /\ acks = {}) => []<>(did = "cycle")

\* A lost Wi-Fi is joined, again and again, as long as nobody rings.
LostWifiIsJoined ==
  <>[](cmd.mode = "udp" /\ ~wifi /\ net = "QUIET") => []<>(did = "join")
=============================================================================
