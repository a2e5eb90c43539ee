------------------------------ MODULE Delivery ------------------------------
(***************************************************************************)
(* How a stroke gets from the sense path to Sandbells over /ws             *)
(* (farm_ws.py: send, poll and what they call; link_health.py: ClientPath, *)
(* NetMode).  send() fans an event out, or queues it; poll() accepts,      *)
(* refuses, starts replays, pumps the queues and reads, in phases that     *)
(* share one plan and one time budget.  Both run in one asyncio task turn, *)
(* so they never interleave with each other; the peers, the TCP stack and  *)
(* the clock interleave with them.                                         *)
(*                                                                         *)
(* The send path appears as what it promises (module Embargo, which        *)
(* SendPath implements): a door that is open, refusing or sealed, whose    *)
(* hold may run out at any moment.  A message is its seq.  A connection    *)
(* slot of Clients is used again after it is closed.                       *)
(***************************************************************************)
EXTENDS Queues, FiniteSets, SequencesExt

CONSTANTS
  Clients,       \* connection slots of the peers
  N,             \* bound: messages made in the longest scene
  StrokeKeep,    \* STROKE_KEEP
  ReplayN,       \* REPLAY_N: how many kept messages _recent holds
  ReplaySizes,   \* what plan.replay_n may be, over the levels
  TodoMax,       \* TODO_MAX
  BatchMax,      \* frames that fit BATCH_MAX_B
  MaxWire,       \* bound: frames lwIP takes for one socket before it is full
  Scenes         \* bound: link.ring_send, MAX_WS_CLIENTS, how many messages of
                 \* which kinds are made, which things go wrong and how often

FaultKinds == {"slow", "late", "starved", "failed", "nomem", "amnesia", "quiet", "dies", "wifi"}

ASSUME DeliveryAssumption ==
  /\ IsFiniteSet(Clients)
  /\ {N, StrokeKeep, ReplayN, TodoMax, BatchMax, MaxWire} \subseteq Nat \ {0}
  /\ ReplaySizes \subseteq 0..ReplayN /\ ReplaySizes # {}
  /\ Scenes # {}
  /\ Scenes \subseteq [mode : {"live", "batched", "shed"}, room : Nat \ {0}, made : 1..N,
                      kinds : SUBSET {"stroke", "event", "beat"},
                      faults : SUBSET FaultKinds, most : Nat]

VARIABLES
  scene,      \* the scene of this behaviour
  door,       \* the SendPath: "open", "refusing" or "sealed" (SEND_DRAIN)
  net,        \* the NetMode: its state, and its mode (link.ring_send)
  turn,       \* where the running send() or poll() is, and its snapshot of the plan
  clients,    \* _clients, oldest first
  fresh,      \* _new: replay not begun
  refused,    \* _refused
  meta,       \* _meta, with each client's ClientPath state
  recent,     \* _recent
  strokes,    \* _strokes
  confirmed,  \* _confirmed
  seq,        \* Emitter.seq
  sock,       \* "none", "open", or "dead" (the peer is gone, nobody told the Pico)
  wire,       \* frames lwIP has for the peer
  up,         \* a hello of the peer has not been read
  made,       \* history: the strokes made
  got,        \* the strokes Sandbells has
  faults,     \* how many things went wrong
  wrote       \* history: what the latest step handed to lwIP

farm  == <<clients, fresh, refused, meta>>
kept  == <<recent, strokes, confirmed, seq, made>>
pipes == <<sock, wire, up>>
vars  == <<scene, door, net, turn, farm, kept, pipes, got, faults, wrote>>

Seqs == 1..N

\* A client nobody has.  handed and bare are history: what this connection was
\* given since its replay began, and that its replay could not be built.
NoMeta == [state |-> "GONE", todo |-> <<>>, left |-> 0, out |-> <<>>, unconf |-> {},
           ack |-> 0, hb |-> FALSE, handed |-> {}, bare |-> FALSE]

Idle == [phase |-> "idle", writes |-> FALSE, rest |-> <<>>, msg |-> 0, keep |-> FALSE,
         pump |-> "door", spent |-> FALSE, nomem |-> FALSE]

LastN(s, n) == SubSeq(s, IF Len(s) > n THEN Len(s) - n + 1 ELSE 1, Len(s))
FirstN(s, n) == SubSeq(s, 1, IF Len(s) < n THEN Len(s) ELSE n)
Without(s, D) == Keeping(s, ToSet(s) \ D)
Later(s) == SubSeq(s, 2, Len(s))

\* Mutant: a starved lwIP costs every client its connection.
Lagging_Everyone == ToSet(clients)

Lagging == {c \in ToSet(clients) : meta[c].state = "LAGGING"}

Fault(f) == f \in scene.faults /\ faults < scene.most /\ faults' = faults + 1

\* SendPath.observe of a bad call.
Bad(d) == IF d = "open" THEN "refusing" ELSE d

\* NET_PLAN: may send() write, may the poll task write and serve.
Inline(n) == n.state = "QUIET" \/ n.mode = "live"
NetWrites(n) == ~(n.state = "RINGING" /\ n.mode = "shed")
Batching == net.state = "RINGING" /\ net.mode = "batched"

-----------------------------------------------------------------------------
(* _drop, _close, _shut: the clients D are forgotten and their sockets     *)
(* shut; what lwIP still had for them is lost.  m, w and u are what        *)
(* happens to the others.                                                  *)
LeaveWith(D, m, w, u) ==
  /\ clients' = Without(clients, D)
  /\ fresh' = fresh \ D
  /\ meta' = [c \in Clients |-> IF c \in D THEN NoMeta ELSE m[c]]
  /\ sock' = [c \in Clients |-> IF c \in D THEN "none" ELSE sock[c]]
  /\ wire' = [c \in Clients |-> IF c \in D THEN <<>> ELSE w[c]]
  /\ up' = [c \in Clients |-> c \notin D /\ u[c]]

Leave(D, m, w) == LeaveWith(D, m, w, up)

Stay == UNCHANGED <<farm, pipes>>

\* Reads follow the pump; a poll whose budget is spent reads nobody.
Reading(t, cs) ==
  IF cs = <<>> /\ ~t.spent THEN Idle ELSE [t EXCEPT !.phase = "read", !.rest = cs, !.pump = "door"]

\* The turn goes on with the next client of the round, without the clients D,
\* or with the next phase.
NextClient(D, spent) ==
  LET t == [turn EXCEPT !.rest = Without(Later(@), D), !.pump = "door", !.spent = spent]
  IN  CASE t.rest # <<>> -> t
        [] t.rest = <<>> /\ turn.phase = "pump" -> Reading(t, Without(clients, D))
        [] OTHER -> Idle

\* Nothing happens to this client: the next one.
PassOn == Stay /\ turn' = NextClient({}, turn.spent)

-----------------------------------------------------------------------------
(* Writing: _deliver, _deliver_batch, _deliver_parked, all through _flush. *)

\* What is to go to c's socket, and what lwIP has room for; the rest is
\* parked in the client's out buffer.
Pending(c, fs) == meta[c].out \o fs
Taken(c, fs)   == FirstN(Pending(c, fs), MaxWire - Len(wire[c]))
Parked(c, fs)  == SubSeq(Pending(c, fs), Len(Taken(c, fs)) + 1, Len(Pending(c, fs)))

\* A client's record with the first n of its queue done with, fs given to it
\* and ks parked.
Delivered(m, fs, n, ks) ==
  [m EXCEPT !.out = ks, !.unconf = @ \cup (ToSet(fs) \cap ToSet(strokes)), !.handed = @ \cup ToSet(fs),
            !.todo = SubSeq(@, n + 1, Len(@)), !.left = IF n > 0 /\ @ > 0 THEN @ - 1 ELSE @]

\* The frames fs are written to c in time, behind what is parked; the first n
\* of its queue are done with.
Deliver(c, fs, n) ==
  /\ Leave({}, [meta EXCEPT ![c] = Delivered(@, fs, n, Parked(c, fs))],
              [wire EXCEPT ![c] = @ \o Taken(c, fs)])
  /\ refused' = refused
  /\ wrote' = "frame"

\* A write to c that took too long, starved or failed.  The clients D go (the
\* table CUTs them, or their half-written frame forbids a close frame).
SendFails(D, d, late) ==
  /\ Leave(D, meta, wire)
  /\ refused' = refused
  /\ door' = d
  /\ \E b \in late : turn' = NextClient(D, b)
  /\ wrote' = "frame"

\* The peer is gone: EBADF, ECONNRESET...  Nothing about the link.
SendGone(c) ==
  sock[c] = "dead" /\ SendFails({c}, door, {turn.spent}) /\ UNCHANGED faults

\* It took longer than send_block_ms, or bytes stayed parked that long.
SendOverran(c) == Fault("late") /\ SendFails({c}, Bad(door), {turn.spent, TRUE})

\* lwIP's ERR_MEM sleep: LAGGING clients are the likely cause, and go too.
SendStarved(c) == Fault("starved") /\ SendFails({c} \cup Lagging, "sealed", {TRUE})

\* Any other error of the socket.
SendErrs(c) == Fault("failed") /\ SendFails({c}, Bad(door), {turn.spent})

SendTrouble(c) == SendGone(c) \/ SendOverran(c) \/ SendStarved(c) \/ SendErrs(c)

\* Not in time for its kind (SLOW_S), but it went: noticed by the send path,
\* and during a replay by the client's table as well.
Slow == Fault("slow") /\ door' = Bad(door)
InTime == UNCHANGED <<door, faults>>

-----------------------------------------------------------------------------
(* send(): one message made on the sense path, or a heartbeat.             *)

Kept(kind) == kind # "beat"

\* Mutant: an off-by-one in the limit.
Full_OneMore(c) == Len(meta[c].todo) > TodoMax

\* A full queue ends the client.
Full(c) == Len(meta[c].todo) >= TodoMax

Wants(c, kind) == Kept(kind) \/ meta[c].state # "LAGGING"

\* _queue_all: ringing and batched.  LAGGING clients get no heartbeats.
QueueAll(s, kind) ==
  LET full == {c \in ToSet(clients) : Wants(c, kind) /\ Full(c)}
  IN  Leave(full, [c \in Clients |->
                     IF c \in ToSet(clients) /\ Wants(c, kind)
                     THEN [meta[c] EXCEPT !.todo = Append(@, s)] ELSE meta[c]], wire)

\* _net_stroke, "shed": every client is cut, every refusal shut, unwritten.
Shed == Leave(ToSet(clients) \cup refused, meta, wire)

\* _recent, _strokes and _confirmed after a message was kept.
Keep(s, kind) ==
  /\ seq' = s
  /\ recent' = IF Kept(kind) THEN LastN(Append(recent, s), ReplayN) ELSE recent
  /\ strokes' = IF kind = "stroke" THEN LastN(Append(strokes, s), StrokeKeep) ELSE strokes
  /\ made' = IF kind = "stroke" THEN made \cup {s} ELSE made
  /\ confirmed' = confirmed \cap ToSet(strokes')

\* Mutant: NetMode is asked before the stroke has started the ringing.
Ringing_Before(kind) == net

\* The NetMode a message is sent under.
Ringing(kind) == IF kind = "stroke" THEN [net EXCEPT !.state = "RINGING"] ELSE net

\* The message is kept, a stroke starts the ringing, and only then is it
\* decided whether it may be written from here.
Emit(kind) ==
  LET s == seq + 1
  IN
  /\ turn.phase = "idle" /\ seq < scene.made
  /\ Keep(s, kind)
  /\ net' = IF kind = "stroke" THEN [net EXCEPT !.state = "RINGING"] ELSE net
  /\ \/ Inline(Ringing(kind)) /\ Stay
        /\ turn' = IF clients = <<>> THEN Idle
                   ELSE [Idle EXCEPT !.phase = "fan", !.rest = clients, !.msg = s,
                                     !.keep = Kept(kind), !.writes = (door # "sealed")]
     \/ ~Inline(Ringing(kind)) /\ net.mode = "batched" /\ QueueAll(s, kind)
        /\ turn' = Idle /\ refused' = refused
     \/ ~Inline(Ringing(kind)) /\ net.mode = "shed" /\ Shed
        /\ turn' = Idle /\ refused' = {}
  /\ wrote' = "none"
  /\ UNCHANGED <<scene, door, got, faults>>

\* Mutant: only what is parked and held has to go first.
Behind_Overtakes(c) == \/ meta[c].out # <<>>
                       \/ meta[c].state = "LAGGING" \/ ~turn.writes \/ turn.spent

\* The message has to wait behind what this client is still to get.
Behind(c) == \/ meta[c].todo # <<>> \/ meta[c].out # <<>>
             \/ meta[c].state = "LAGGING" \/ ~turn.writes \/ turn.spent

FanQueue(c) ==
  /\ Behind(c)
  /\ LET full == turn.keep /\ Full(c)
         D == IF full THEN {c} ELSE {}
     IN  /\ Leave(D, IF turn.keep THEN [meta EXCEPT ![c].todo = Append(@, turn.msg)]
                                  ELSE meta, wire)
         /\ turn' = NextClient(D, turn.spent)
  /\ wrote' = "none"
  /\ InTime /\ refused' = refused

FanWrite(c) ==
  /\ ~Behind(c)
  /\ Deliver(c, <<turn.msg>>, 0)
  /\ InTime \/ Slow
  /\ turn' = NextClient({}, turn.spent)

FanTrouble(c) ==
  ~Behind(c) /\ SendTrouble(c)

Fan ==
  /\ turn.phase = "fan"
  /\ LET c == Head(turn.rest)
     IN  FanQueue(c) \/ FanWrite(c) \/ FanTrouble(c)
  /\ UNCHANGED <<scene, net, kept, got>>

-----------------------------------------------------------------------------
(* poll(): one plan and one budget for all of its phases.                  *)

Admit == [turn EXCEPT !.phase = "admit"]

\* Mutant: the plan forgets the drain.
Allowed_Draining(n) == NetWrites(n)

\* Both permissions of the plan: the send path's and NetMode's.
Allowed(n) == door # "sealed" /\ NetWrites(n)

\* _net_tick, then the plan, narrowed by NetMode: what this poll may do.
PollBegin(state) ==
  LET n == [net EXCEPT !.state = state]
  IN  /\ turn.phase = "idle"
      /\ state \in {net.state, "QUIET"}
      /\ net' = n
      /\ turn' = [Idle EXCEPT !.phase = IF Allowed(n) THEN "server" ELSE "admit",
                              !.writes = Allowed(n)]
      /\ wrote' = "none"
      /\ Stay /\ InTime /\ UNCHANGED <<scene, kept, got>>

\* The clients D go, and nobody comes: no request, or a 503 (the path refuses),
\* or a connection that is lost in its handshake and forgotten.
AcceptNobody(D) == Leave(D, meta, wire) /\ refused' = refused

\* route_ws, _accept: a new client, or one too many, which gets its handshake
\* first and its refusal below.  Its replay is begun below as well.
Accept(c, D) ==
  LET room   == Len(clients) < scene.room
      joined == IF room THEN [meta EXCEPT ![c] = [NoMeta EXCEPT !.state = "NEW"]] ELSE meta
  IN  /\ door = "open" /\ sock[c] = "none"
      /\ clients' = Without(clients, D) \o (IF room THEN <<c>> ELSE <<>>)
      /\ fresh' = (fresh \ D) \cup (IF room THEN {c} ELSE {})
      /\ refused' = refused \cup (IF room THEN {} ELSE {c})
      /\ meta' = [d \in Clients |-> IF d \in D THEN NoMeta ELSE joined[d]]
      /\ sock' = [d \in Clients |-> IF d \in D THEN "none" ELSE IF d = c THEN "open" ELSE sock[d]]
      /\ wire' = [d \in Clients |-> IF d \in D THEN <<>> ELSE wire[d]]
      /\ up' = [d \in Clients |-> d \notin D /\ up[d]]

Answer(D) == /\ AcceptNobody(D) \/ \E c \in Clients : Accept(c, D)
             /\ wrote' = "handshake"

ServeNothing ==
  AcceptNobody({}) /\ InTime /\ turn' = Admit /\ wrote' = "none"

ServeOne ==
  Answer({}) /\ InTime /\ turn' = Admit

\* It took longer than SLOW_S["server"].
ServeSlow ==
  /\ Answer({}) /\ Fault("slow") /\ door' = Bad(door)
  /\ \E b \in BOOLEAN : turn' = [Admit EXCEPT !.spent = b]

\* It met lwIP's ERR_MEM sleep: LAGGING clients go, the path drains.
ServeStarved ==
  /\ Answer(Lagging) /\ Fault("starved") /\ door' = "sealed"
  /\ turn' = [Admit EXCEPT !.spent = TRUE]

\* A MemoryError inside: what it was accepting is forgotten, the path drains,
\* and the poll goes on with its old plan.
ServeNoMemory ==
  /\ AcceptNobody({}) /\ Fault("nomem") /\ door' = "sealed"
  /\ turn' = [Admit EXCEPT !.nomem = TRUE] /\ wrote' = "none"

Serve ==
  /\ turn.phase = "server"
  /\ ServeNothing \/ ServeOne \/ ServeSlow \/ ServeStarved \/ ServeNoMemory
  /\ UNCHANGED <<scene, net, kept, got>>

\* A polite refusal; writing a close frame may be slow as well.
RefuseOne(c) ==
  /\ turn.writes /\ ~turn.spent /\ c \in refused
  /\ Leave({c}, meta, wire) /\ refused' = refused \ {c}
  /\ InTime \/ Slow
  /\ turn' = turn /\ wrote' = "close"

RefusalsDone == refused = {} \/ ~turn.writes \/ turn.spent

\* A MemoryError that leaves poll(): ws_poll_task drains the path.
PollOutOfMemory == door' = "sealed" /\ turn' = Idle

\* Mutant: strokes that left _recent are not replayed.
Replay_OnlyRecent(n) == LastN(recent, n)

\* The newest n events and every stroke still held, in the order of their seq.
Replay(n) == Keeping([s \in 1..seq |-> s], ToSet(LastN(recent, n)) \cup ToSet(strokes))

\* _begin_replay, at the level the send path is at now.
BeginReplay(c) ==
  /\ \E n \in ReplaySizes :
       meta' = [meta EXCEPT ![c].todo = Replay(n), ![c].left = Len(Replay(n))]
  /\ fresh' = fresh \ {c} /\ turn' = turn
  /\ InTime /\ UNCHANGED <<clients, refused, pipes>>

\* There is no memory for the list: the client has left _new, nobody puts it
\* back.
BeginReplayFails(c) ==
  /\ Fault("amnesia") /\ PollOutOfMemory
  /\ meta' = [meta EXCEPT ![c].bare = TRUE]
  /\ fresh' = fresh \ {c} /\ UNCHANGED <<clients, refused, pipes>>

\* This client has something to get, and may get it.
Due(c) == /\ turn.writes /\ (meta[c].todo # <<>> \/ meta[c].out # <<>>)
          /\ meta[c].state # "LAGGING"

Admitted ==
  /\ LET due == Keeping(clients, {c \in ToSet(clients) : Due(c)})
     IN  turn' = IF due = <<>> THEN Reading(turn, clients)
                 ELSE [turn EXCEPT !.phase = "pump", !.rest = due]
  /\ Stay /\ InTime

\* The refusals, then the replays, then on to the pump.
LetIn ==
  /\ turn.phase = "admit"
  /\ \/ \E c \in refused : RefuseOne(c)
     \/ /\ RefusalsDone /\ wrote' = "none"
        /\ \/ \E c \in fresh : BeginReplay(c) \/ BeginReplayFails(c)
           \/ fresh = {} /\ Admitted
  /\ UNCHANGED <<scene, net, kept, got>>

-----------------------------------------------------------------------------
(* _pump: the parked bytes first; then, while batching, one batch; else    *)
(* one frame of the replay and whatever queued behind it.  turn.pump is    *)
(* "door" before the client, "inside" once its parked bytes are out, and   *)
(* "sent" after a frame.                                                   *)

\* The budget allows the next write of this client's turn.
MayWrite(c) == ~turn.spent

BatchNext(c) == Batching /\ meta[c].left = 0 /\ turn.pump # "sent"

ParkedNext(c) == MayWrite(c) /\ meta[c].out # <<>>

FrameNext(c) == /\ MayWrite(c) /\ meta[c].out = <<>> /\ meta[c].todo # <<>>
                /\ ~(meta[c].left > 0 /\ turn.pump = "sent")

\* next_at lies ahead, or nothing may be written to this client.
PumpPass(c) ==
  /\ turn.pump = "door"
  /\ turn.spent \/ meta[c].out = <<>>
  /\ PassOn /\ InTime /\ wrote' = "none"

PumpParked(c) ==
  /\ ParkedNext(c)
  /\ Deliver(c, <<>>, 0)
  /\ InTime \/ Slow
  /\ turn' = IF meta'[c].out = <<>> THEN [turn EXCEPT !.pump = "inside"] ELSE NextClient({}, turn.spent)

PumpBatch(c) ==
  /\ FrameNext(c) /\ BatchNext(c)
  /\ LET n == Len(FirstN(meta[c].todo, BatchMax)) IN Deliver(c, FirstN(meta[c].todo, n), n)
  /\ InTime \/ Slow
  /\ turn' = NextClient({}, turn.spent)

PumpFrame(c) ==
  /\ FrameNext(c) /\ ~BatchNext(c)
  /\ Deliver(c, <<Head(meta[c].todo)>>, 1)
  /\ InTime \/ (meta[c].left = 0 /\ Slow)
  /\ turn' = IF meta'[c].out = <<>> THEN [turn EXCEPT !.pump = "sent"] ELSE NextClient({}, turn.spent)

\* A slow frame of a replay: the table cuts the client.
PumpSlowReplay(c) ==
  /\ FrameNext(c) /\ ~BatchNext(c) /\ meta[c].left > 0
  /\ Fault("slow") /\ SendFails({c}, Bad(door), {turn.spent, TRUE})

PumpTrouble(c) == (ParkedNext(c) \/ FrameNext(c)) /\ SendTrouble(c)

PumpLeave(c) ==
  /\ turn.pump # "door" /\ ~ParkedNext(c) /\ ~FrameNext(c)
  /\ PassOn /\ InTime /\ wrote' = "none"

Pump(c) == \/ PumpPass(c) \/ PumpParked(c) \/ PumpBatch(c) \/ PumpFrame(c)
           \/ PumpSlowReplay(c) \/ PumpTrouble(c) \/ PumpLeave(c)

PumpAll ==
  /\ turn.phase = "pump"
  /\ Pump(Head(turn.rest))
  /\ UNCHANGED <<scene, net, kept, got>>

-----------------------------------------------------------------------------
(* The read phase, in a drain too: _receive, _ack, and the silence rules.  *)

ReadsOn(D) == turn' = NextClient(D, turn.spent)

Older(c) == {clients[i] : i \in {j \in 1..Len(clients) :
                                   \E k \in (j + 1)..Len(clients) : clients[k] = c}}
Newer(c) == {d \in ToSet(clients) : c \in Older(d)}

\* Mutant: parked or not.
Sure_Parked(c) == meta[c].unconf

\* Mutant: only an ack confirms.
Sure_AckOnly(c) == {}

\* What this hello confirms: all that was handed over, if nothing is parked.
Sure(c) == IF meta[c].out = <<>> THEN meta[c].unconf ELSE {}

\* An ack_seq is true: every stroke up to it has arrived.
Truthful == {n \in made : \A s \in made : s <= n => s \in got}

\* c is heard: all of this connection's strokes count as delivered if nothing
\* is parked, and an ack_seq (n, or 0 for none) trims the queue.  The clients
\* old are replaced by it.
Hear(c, n, old) ==
  LET m      == meta[c]
      sure   == Sure(c) \cup {s \in Seqs : s <= n}
      ack    == IF n > m.ack THEN n ELSE m.ack
      todo   == IF n = 0 THEN m.todo
                ELSE Without(m.todo, {s \in ToSet(strokes) : s <= ack})
      heard  == [m EXCEPT !.state = "LIVE", !.hb = TRUE, !.ack = ack, !.todo = todo,
                          !.left = IF @ > Len(todo) THEN Len(todo) ELSE @,
                          !.unconf = @ \ Sure(c)]
  IN  /\ LeaveWith(old, [meta EXCEPT ![c] = heard], wire, [up EXCEPT ![c] = FALSE])
      /\ confirmed' = confirmed \cup (sure \cap ToSet(strokes))

\* A hello was read.  The first one tells who it is, and replaces the LAGGING
\* connections that the same display, by its peer and its src, left behind.
ReadHello(c, n) ==
  /\ up[c]
  /\ \E old \in SUBSET (IF meta[c].hb THEN {} ELSE Older(c) \cap Lagging) :
       Hear(c, n, old) /\ ReadsOn(old)
  /\ InTime /\ wrote' = "none"

\* A ping was read, which the library answers, drain or no drain: the pong
\* goes straight to the socket.  In the middle of a parked frame it is garbage,
\* and the peer gives up.  Whether the ping counts as a frame heard depends on
\* the library.  (Behind a hello a ping is as good as one in the next poll.)
ReadPing(c) ==
  /\ sock[c] = "open" /\ ~up[c] /\ wrote' = "answer"
  /\ \/ /\ Hear(c, 0, {}) \/ (Stay /\ confirmed' = confirmed)
        /\ \/ InTime /\ ReadsOn({})
           \/ Slow /\ \E b \in BOOLEAN : turn' = NextClient({}, b)
     \/ /\ meta[c].out # <<>> /\ Fault("dies") /\ door' = door
        /\ sock' = [sock EXCEPT ![c] = "dead"] /\ UNCHANGED <<farm, wire, up, confirmed>>
        /\ ReadsOn({})

\* The peer closes: the library answers with a close frame of its own.
ReadClosed(c) ==
  /\ sock[c] = "open" /\ Fault("dies") /\ door' = door
  /\ Leave({c}, meta, wire) /\ wrote' = "answer" /\ ReadsOn({}) /\ confirmed' = confirmed

ReadNothing(c) ==
  /\ ~up[c]
  /\ PassOn /\ InTime /\ wrote' = "none" /\ confirmed' = confirmed

\* The socket is dead.  The library may still try a close frame.
ReadGone(c) ==
  /\ sock[c] = "dead"
  /\ Leave({c}, meta, wire) /\ InTime /\ wrote' \in {"none", "answer"} /\ ReadsOn({}) /\ confirmed' = confirmed

\* Reading, or the answer to what was read, failed: a polite close, if anything
\* may be written.
ReadFails(c) ==
  /\ Fault("failed") /\ door' = door
  /\ Leave({c}, meta, wire)
  /\ wrote' \in IF meta[c].out = <<>> /\ Allowed(net) THEN {"close"} ELSE {"none", "answer"}
  /\ ReadsOn({}) /\ confirmed' = confirmed

\* Nothing heard for too long; a draining path judges nobody.
Unheard(c) ==
  /\ meta[c].hb /\ ~up[c] /\ door # "sealed"
  /\ door' = door /\ (Fault("quiet") \/ (sock[c] = "dead" /\ UNCHANGED faults))

\* CLIENT_LAG_S: hold its frames, unless its display, by its peer and its src,
\* has a newer connection.
ReadQuiet(c) ==
  /\ meta[c].state = "LIVE" /\ Unheard(c)
  /\ \E D \in SUBSET {c} :
       /\ D # {} => \E d \in Newer(c) : meta[d].hb
       /\ Leave(D, [meta EXCEPT ![c].state = "LAGGING"], wire)
  /\ wrote' = "none" /\ ReadsOn({}) /\ confirmed' = confirmed

\* CLIENT_SILENT_S: cut.
ReadSilent(c) ==
  /\ Unheard(c)
  /\ Leave({c}, meta, wire)
  /\ wrote' = "none" /\ ReadsOn({}) /\ confirmed' = confirmed

Read(c) == \/ \E n \in {0} \cup Truthful : ReadHello(c, n)
           \/ ReadPing(c) \/ ReadClosed(c) \/ ReadNothing(c) \/ ReadGone(c) \/ ReadFails(c) \/ ReadQuiet(c) \/ ReadSilent(c)

ReadAll ==
  /\ turn.phase = "read" /\ ~turn.spent
  /\ Read(Head(turn.rest))
  /\ refused' = refused
  /\ UNCHANGED <<scene, net, recent, strokes, seq, made, got>>

\* The budget is spent: nobody is read, and a poll that long may be a bad one.
PollEnd ==
  /\ turn.phase = "read" /\ turn.spent
  /\ door' \in {door, Bad(door)}
  /\ turn' = Idle /\ wrote' = "none"
  /\ Stay /\ UNCHANGED <<scene, net, kept, got, faults>>

-----------------------------------------------------------------------------
(* drop_all (Wi-Fi lost, server stopped), and what is not the Pico's doing. *)
(* All of it happens between turns: a poll looks at what a peer sent once,  *)
(* and what a peer takes meanwhile only makes room it might have found, so *)
(* a peer's move during a turn is one before or after it.                  *)

Between == turn.phase = "idle"

\* drop_all asks no plan: its close frames go out in a drain as well.
DropAll ==
  /\ Between /\ clients # <<>> /\ Fault("wifi")
  /\ Leave(ToSet(clients), meta, wire)
  /\ wrote' = IF \E c \in ToSet(clients) : meta[c].out = <<>> THEN "close" ELSE "none"
  /\ door' \in {door, Bad(door)}
  /\ UNCHANGED <<scene, net, turn, refused, kept, got>>

\* A hold of the send path runs out.
Reopen ==
  /\ Between /\ door # "open" /\ door' = "open" /\ wrote' = "none"
  /\ UNCHANGED <<scene, net, turn, farm, kept, pipes, got, faults>>

PeerReads(c) ==
  /\ Between /\ sock[c] = "open" /\ wire[c] # <<>>
  /\ got' = got \cup ({Head(wire[c])} \cap made)
  /\ wire' = [wire EXCEPT ![c] = Later(@)] /\ wrote' = "none"
  /\ UNCHANGED <<scene, door, net, turn, farm, kept, sock, up, faults>>

PeerHellos(c) ==
  /\ Between /\ sock[c] = "open" /\ ~up[c]
  /\ up' = [up EXCEPT ![c] = TRUE] /\ wrote' = "none"
  /\ UNCHANGED <<scene, door, net, turn, farm, kept, sock, wire, got, faults>>

PeerDies(c) ==
  /\ Between /\ sock[c] = "open" /\ Fault("dies")
  /\ sock' = [sock EXCEPT ![c] = "dead"] /\ wrote' = "none"
  /\ UNCHANGED <<scene, door, net, turn, farm, kept, wire, up, got>>

-----------------------------------------------------------------------------
Init ==
  /\ scene \in Scenes /\ net = [state |-> "QUIET", mode |-> scene.mode]
  /\ door = "open" /\ turn = Idle
  /\ clients = <<>> /\ fresh = {} /\ refused = {} /\ meta = [c \in Clients |-> NoMeta]
  /\ recent = <<>> /\ strokes = <<>> /\ confirmed = {} /\ seq = 0 /\ made = {}
  /\ sock = [c \in Clients |-> "none"]
  /\ wire = [c \in Clients |-> <<>>] /\ up = [c \in Clients |-> FALSE]
  /\ got = {} /\ faults = 0 /\ wrote = "none"

Send == Fan \/ \E kind \in scene.kinds : Emit(kind)

Poll == (\E state \in {"QUIET", "RINGING"} : PollBegin(state))
        \/ Serve \/ LetIn \/ PumpAll \/ ReadAll \/ PollEnd

Peers == \E c \in Clients : PeerReads(c) \/ PeerHellos(c) \/ PeerDies(c)

Next == Send \/ Poll \/ Peers \/ DropAll \/ Reopen

Spec == Init /\ [][Next]_vars

\* ws_poll_task calls poll() for ever and a poll always ends; what could go
\* well goes well in the end, if it keeps being possible: Sandbells comes back
\* and says hello, its TCP stack takes what it was sent, holds and the ringing
\* end, a client's chunk gap passes, a dead connection is noticed (the
\* heartbeats written to it see to that).
Fairness ==
  /\ WF_vars(Poll) /\ WF_vars(Fan) /\ SF_vars(Reopen)
  /\ SF_vars(PollBegin("QUIET"))
  /\ \A c \in Clients :
       /\ SF_vars(PeerReads(c)) /\ SF_vars(PeerHellos(c))
       /\ SF_vars(Serve /\ Accept(c, {}))
       /\ SF_vars(PumpAll /\ Head(turn.rest) = c /\ (PumpParked(c) \/ PumpBatch(c) \/ PumpFrame(c)))
       /\ SF_vars(ReadAll /\ Head(turn.rest) = c /\ ReadGone(c))

FairSpec == Spec /\ Fairness

-----------------------------------------------------------------------------
(* Properties.                                                             *)

Increasing(s) == \A i \in 1..(Len(s) - 1) : s[i] < s[i + 1]

\* Since its replay began a connection is given every message at most once and
\* in the order they were made, whatever was queued, parked, held, batched or
\* acknowledged in between: nothing overtakes a queue.
InOrder ==
  \A c \in ToSet(clients) \ fresh :
    /\ Increasing(meta[c].todo)
    /\ Increasing(meta[c].out)
    /\ \A h \in meta[c].handed, t \in ToSet(meta[c].todo) : h < t

\* A kept stroke is on its way to every client whose replay was begun: queued
\* for it, handed to it, acknowledged by it, or about to be fanned out to it.
\* A client whose replay could not be built gets what is made from then on.
Coming(c, s) == \/ s \in ToSet(meta[c].todo) \/ s \in meta[c].handed \/ s <= meta[c].ack
                \/ (turn.phase = "fan" /\ turn.msg = s /\ c \in ToSet(turn.rest))

NoStrokeForgotten ==
  \A c \in ToSet(clients) \ fresh : \A s \in ToSet(strokes) : meta[c].bare \/ Coming(c, s)

\* The queues of a client stay within their bounds however long it holds, lags
\* or parks: TODO_MAX, or the replay alone, and one batch of parked frames.
QueuesAreBounded ==
  \A c \in ToSet(clients) :
    /\ Len(meta[c].todo) <= TodoMax \/ Len(meta[c].todo) = meta[c].left
    /\ Len(meta[c].out) <= BatchMax
    /\ meta[c].left <= Len(meta[c].todo)

\* Ringing with "batched", nothing is written from the sense path, not even
\* for the stroke that starts the ringing.
SensePathNeverWrites ==
  [][net.mode = "batched" /\ net.state = "RINGING" /\ wrote' = "frame" => turn.phase # "fan"]_vars

\* SEND_DRAIN: no message, no replay, no handshake and no refusal is written,
\* whoever sealed the path and whenever; only a poll that itself ran out of
\* memory finishes its plan.  What does go out is the library's answer to a
\* client being read, and the close frames of drop_all.
SealedSendsNothing ==
  [][door = "sealed" /\ wrote' # "none" =>
       \/ turn.nomem
       \/ turn.phase = "read" /\ wrote' = "answer"
       \/ turn.phase = "idle" /\ wrote' = "close" /\ clients' = <<>>]_vars

\* A write that goes wrong costs the client it was for, and the LAGGING ones;
\* a client that talks never pays for another.
InnocentsStay ==
  [][\A c \in ToSet(clients) \ ToSet(clients') :
       turn.phase \in {"fan", "pump", "read"} =>
         c = Head(turn.rest) \/ meta[c].state = "LAGGING"]_vars

\* A stroke becomes confirmed only when Sandbells has it, or when a client it
\* was handed to whole is heard.
ConfirmedWithReason ==
  [][\A s \in confirmed' \ confirmed :
       \/ s \in got
       \/ \E c \in ToSet(clients) : s \in meta[c].unconf /\ s \notin ToSet(meta[c].out)]_vars

\* Once nothing goes wrong any more, every stroke reaches Sandbells, or it is
\* the oldest of more than STROKE_KEEP and leaves the buffer.
StrokesArrive == \A s \in Seqs : s \in made ~> (s \in got \/ s \notin ToSet(strokes))

\* And the Pico comes to know it: no stroke holds a Pico reset for ever.
StrokesAreConfirmed == \A s \in Seqs : s \in made ~> s \notin ToSet(strokes) \ confirmed

=============================================================================
