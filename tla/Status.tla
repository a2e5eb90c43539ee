------------------------------- MODULE Status -------------------------------
(* GET /status: what each request gets (link_health.STATUS_ASK), the        *)
(* document it is cut from (StatusDoc), the tower's gate over it            *)
(* (StatusGate), and the one writer that sends the replies a chunk a turn   *)
(* (farm_ws._pump_replies, ReplyPath).                                      *)
(*                                                                          *)
(* Everything runs in one task; what interleaves with it is the tower, the  *)
(* clock, lwIP, the memory, and the pollers, each of which keeps a copy of  *)
(* the page and asks for what changed since.  Times are ages in ticks, kept *)
(* only as far as a comparison reads them.  Whether the send path lets a    *)
(* turn serve and write is SendPath's business: here any turn may, or may   *)
(* not.                                                                     *)
EXTENDS StatusDoc, Queues

CONSTANTS Peers,          \* the addresses that poll
          Patched,        \* those that ask for what changed since their copy;
                          \* the others (old pages, curl) ask a plain /status
          RebuildS,       \* STATUS_REBUILD_S
          DeadlineS,      \* REPLY_DEADLINE_S
          HintS,          \* STATUS_POLL_HINT_S
          FullMinS,       \* STATUS_FULL_MIN_S
          NomemS,         \* STATUS_NOMEM_S
          WindowS,        \* STATUS_PEER_WINDOW_S
          PeerN,          \* STATUS_PEER_N
          MaxPeers,       \* STATUS_MAX_PEERS
          QueueMax,       \* REPLY_QUEUE_MAX
          MaxUpsets       \* bound: changes of the page, MemoryErrors and reboots

ASSUME StatusAssumption ==
  /\ Patched \subseteq Peers
  /\ {RebuildS, DeadlineS, HintS, FullMinS, NomemS, WindowS} \subseteq Nat \ {0}
  /\ FullMinS <= WindowS /\ HintS <= WindowS
  /\ {PeerN, MaxPeers, QueueMax} \subseteq Nat \ {0}
  /\ MaxUpsets \in Nat

VARIABLES world,          \* the page there would be to build now
          changes,        \* how often it has changed
          boot,           \* boot_id
          doc,            \* _doc
          age,            \* ticks since its built_at, up to RebuildS
          resets,         \* MemoryErrors so far: resets of _doc in this history
          nomem,          \* ticks until _nomem_until
          peers,          \* _peers
          gate,           \* _gate.state
          replies,        \* _replies, oldest first
          copies          \* external: the copy each patched poller keeps

vars == <<world, changes, boot, doc, age, resets, nomem, peers, gate, replies,
          copies>>

Bounded == changes + resets + (boot - 1) < MaxUpsets

SERVE == "SERVE"
HELD  == "HELD"

----------------------------------------------------------------------------
(* What a request gets: one row per gate state and event.                   *)
STATUS_ASK ==
  [q \in {SERVE, HELD} \X {"first", "plain", "since", "again", "crowd",
                           "refull", "nomem"} |->
     CASE q = <<SERVE, "first">> -> "full"
       [] q = <<SERVE, "plain">> -> "full_parts"
       [] q = <<SERVE, "since">> -> "delta"
       [] OTHER -> "held"]

Kinds == {"held", "delta", "full", "full_parts"}

(* Chunks of REPLY_CHUNK_B: a held body and a delta fit in one.             *)
Chunks(kind) == IF kind \in {"full", "full_parts"} THEN 2 ELSE 1

(* A peer's record; unknown (seen long ago, or never) is a record too.      *)
UNSEEN == [seen |-> WindowS + 1, times |-> <<>>, full |-> FullMinS]

Known(p) == peers[p].seen <= WindowS

(* What this request is, checked in this order (_ask_event).                *)
AskEvent(p) ==
  IF nomem > 0 THEN "nomem"
  ELSE IF ~Known(p) /\ Cardinality({q \in Peers : Known(q)}) >= MaxPeers THEN "crowd"
  ELSE IF Len(peers[p].times) >= PeerN THEN "again"
  ELSE IF p \in Patched
       THEN IF Knows(doc, boot, copies[p].version, copies[p].boot) THEN "since" ELSE "first"
  ELSE IF peers[p].full < FullMinS THEN "refull"
  ELSE "plain"

Served(p, kind) ==
  [peers EXCEPT ![p] =
     LET was == IF Known(p) THEN @ ELSE UNSEEN
     IN [seen  |-> 0,
         times |-> Append(was.times, 0),
         full  |-> IF kind = "full_parts" THEN 0 ELSE was.full]]

(* What a body brings to the poller it is for.                              *)
Body(kind, d, since) ==
  [kind    |-> kind,
   boot    |-> boot,
   resets  |-> resets,
   version |-> d.version,
   page    |-> CASE kind = "held"  -> PageOf(Forgotten)
                 [] kind = "delta" -> Delta(d, since)
                 [] OTHER          -> PageOf(d)]

Job(p, body) == [peer |-> p, body |-> body,
                 left |-> Chunks(body.kind), age |-> 0, hung |-> FALSE]

(* _queue_reply: with the queue full the newcomer's socket is closed.       *)
Queue(p, body) ==
  replies' = IF Len(replies) >= QueueMax THEN replies
             ELSE Append(replies, Job(p, body))

----------------------------------------------------------------------------
(* route_status.  A poller asks again once its last request was answered,   *)
(* refused or given up.                                                     *)
Asks(p) ==
  /\ \A i \in 1..Len(replies) : replies[i].peer = p => replies[i].hung

Kind(p) == STATUS_ASK[<<gate, AskEvent(p)>>]

AskHeld(p) ==
  /\ Asks(p)
  /\ Kind(p) = "held"
  /\ Queue(p, Body("held", doc, 0))
  /\ UNCHANGED <<world, changes, boot, doc, age, resets, nomem, peers, gate, copies>>

(* The request is let through, and the document built first if it must be.  *)
Builds(p) ==
  /\ Asks(p)
  /\ Kind(p) # "held"
  /\ ~StillFresh(doc, age < RebuildS, Kind(p) = "full_parts")

Answer(p, d) ==
  LET since == IF p \in Patched THEN copies[p].version ELSE 0
      kind  == IF Kind(p) = "delta" /\ ~Knows(d, boot, since, copies[p].boot)
               THEN "full" ELSE Kind(p)
  IN /\ Queue(p, Body(kind, d, since))
     /\ peers' = Served(p, kind)

(* full() and delta() need units: a document without any fails the request, *)
(* and nothing is queued or counted for it.                                 *)
Reply(p, d) ==
  IF d.units = <<>> THEN UNCHANGED <<replies, peers>> ELSE Answer(p, d)

AskFresh(p) ==
  /\ Asks(p)
  /\ Kind(p) # "held"
  /\ ~Builds(p)
  /\ Reply(p, doc)
  /\ UNCHANGED <<world, changes, boot, doc, age, resets, nomem, gate,
                 copies>>

AskBuilt(p) ==
  /\ Builds(p)
  /\ doc' = Refreshed(doc, world, Kind(p) = "full_parts")
  /\ age' = 0
  /\ Reply(p, doc')
  /\ UNCHANGED <<world, changes, boot, resets, nomem, gate, copies>>

(* The build failed: the old document answers, or a held one says there is  *)
(* none yet.  When it failed on a unit the build's time was already taken,  *)
(* so whatever units there are count as just built.                         *)
AskFailed(p, taken) ==
  /\ Builds(p)
  /\ doc' = [doc EXCEPT !.built = @ \/ taken]
  /\ age' = IF taken THEN 0 ELSE age
  /\ IF doc'.built
     THEN Reply(p, doc')
     ELSE Queue(p, Body("held", doc, 0)) /\ UNCHANGED peers
  /\ UNCHANGED <<world, changes, boot, resets, nomem, gate, copies>>

(* Mutant: the replies live on.                                             *)
MemoryLow_KeepsReplies(left) ==
  /\ Bounded
  /\ resets' = resets + 1
  /\ replies' = replies
  /\ doc' = Forgotten
  /\ nomem' = NomemS

(* memory_low: every reply cancelled, the document dropped, /status held.   *)
MemoryLow(left) ==
  /\ Bounded
  /\ resets' = resets + 1
  /\ replies' = left
  /\ doc' = Forgotten
  /\ nomem' = NomemS

AskNoMemory(p) ==
  /\ Builds(p)
  /\ MemoryLow(<<Job(p, [Body("held", Forgotten, 0) EXCEPT !.resets = resets + 1])>>)
  /\ UNCHANGED <<world, changes, boot, age, peers, gate, copies>>

(* A MemoryError anywhere else on the poll path.                            *)
PollNoMemory ==
  /\ MemoryLow(<<>>)
  /\ UNCHANGED <<world, changes, boot, age, peers, gate, copies>>

Ask(p) ==
  \/ AskHeld(p)
  \/ AskFresh(p)
  \/ AskBuilt(p)
  \/ \E taken \in BOOLEAN : AskFailed(p, taken)
  \/ AskNoMemory(p)

----------------------------------------------------------------------------
(* A reply leaves the queue with its socket; what the poller got with it.   *)
Receives(job) ==
  IF job.hung \/ job.body.kind = "held" \/ job.peer \notin Patched THEN UNCHANGED copies
  ELSE copies' = [copies EXCEPT ![job.peer] =
         [boot    |-> job.body.boot,
          resets  |-> IF job.body.kind = "delta" THEN @.resets ELSE job.body.resets,
          version |-> job.body.version,
          page    |-> IF job.body.kind = "delta"
                      THEN Merge(@.page, job.body.page) ELSE job.body.page]]

Overdue(job) == job.age > DeadlineS

InTime(js) == Keeping(js, {job \in ToSet(js) : ~Overdue(job)})

(* _pump_replies: the overdue are closed before any byte; then there may be *)
(* no time left in the turn, nothing may be written, or lwIP has no room.   *)
PumpNothing ==
  /\ replies # <<>>
  /\ replies' = InTime(replies)
  /\ UNCHANGED <<world, changes, boot, doc, age, resets, nomem, peers, gate,
                 copies>>

(* ... or one chunk of the oldest goes, perhaps its last one ...              *)
Turn ==
  /\ InTime(replies) # <<>>
  /\ UNCHANGED <<world, changes, boot, doc, age, resets, nomem, peers, gate>>

PumpChunk ==
  /\ Turn
  /\ LET job == Head(InTime(replies))
     IN IF job.left = 1
        THEN replies' = Tail(InTime(replies)) /\ Receives(job)
        ELSE /\ replies' = [InTime(replies) EXCEPT ![1].left = @ - 1]
             /\ UNCHANGED copies

(* ... or it is given up: the poller hung up, the socket failed, or the     *)
(* send took lwIP's whole retry (with a last chunk, which then did go, the  *)
(* socket closes as it does when all went well: PumpChunk).                 *)
PumpFails ==
  /\ Turn
  /\ replies' = Tail(InTime(replies))
  /\ UNCHANGED copies

Pump == PumpNothing \/ PumpChunk \/ PumpFails

----------------------------------------------------------------------------
(* set_tower: StatusGate.fire on the tower's changes.                       *)
Hold ==
  /\ gate = SERVE
  /\ gate' = HELD
  /\ replies' = <<>>
  /\ UNCHANGED <<world, changes, boot, doc, age, resets, nomem, peers,
                 copies>>

Resume ==
  /\ gate = HELD
  /\ gate' = SERVE
  /\ UNCHANGED <<world, changes, boot, doc, age, resets, nomem, peers,
                 replies, copies>>

(* _net_stroke in ring_send shed: the first stroke cancels every reply.     *)
Shed ==
  /\ replies # <<>>
  /\ replies' = <<>>
  /\ UNCHANGED <<world, changes, boot, doc, age, resets, nomem, peers, gate,
                 copies>>

----------------------------------------------------------------------------
(* The rest of the world: what there is to say changes, in one unit, or in  *)
(* which sections there are and in what order ...                           *)
Differ(page) == {k \in DOMAIN page.text \cap DOMAIN world.text :
                   page.text[k] # world.text[k]}

Change ==
  /\ Bounded
  /\ changes' = changes + 1
  /\ world' \in {page \in Pages :
       IF page.order = world.order THEN Cardinality(Differ(page)) = 1
                                   ELSE Differ(page) = {}}
  /\ UNCHANGED <<boot, doc, age, resets, nomem, peers, gate, replies,
                 copies>>

(* ... a poller gives up waiting ...                                        *)
HangUp(p) ==
  /\ \E i \in 1..Len(replies) :
       /\ replies[i].peer = p
       /\ ~replies[i].hung
       /\ replies' = [replies EXCEPT ![i].hung = TRUE]
  /\ UNCHANGED <<world, changes, boot, doc, age, resets, nomem, peers, gate, copies>>

(* ... time passes ...                                                      *)
OlderTo(n, limit) == IF n < limit THEN n + 1 ELSE n

Tick ==
  /\ age' = OlderTo(age, RebuildS)
  /\ nomem' = IF nomem > 0 THEN nomem - 1 ELSE 0
  /\ peers' = [p \in Peers |->
       [seen  |-> OlderTo(peers[p].seen, WindowS + 1),
        times |-> SelectSeq([i \in DOMAIN peers[p].times |-> peers[p].times[i] + 1],
                            LAMBDA t : t < HintS),
        full  |-> OlderTo(peers[p].full, FullMinS)]]
  /\ replies' = [i \in DOMAIN replies |->
       [replies[i] EXCEPT !.age = OlderTo(@, DeadlineS + 1)]]
  /\ UNCHANGED <<world, changes, boot, doc, resets, gate, copies>>

(* ... and the Pico boots, with a new boot_id and nothing remembered.       *)
Reboot ==
  /\ Bounded
  /\ boot' = boot + 1
  /\ doc' = Forgotten /\ age' = RebuildS /\ nomem' = 0
  /\ peers' = [p \in Peers |-> UNSEEN]
  /\ gate' = SERVE
  /\ replies' = <<>>
  /\ UNCHANGED <<world, changes, resets, copies>>

Init ==
  /\ world \in {page \in Pages : ToSet(page.order) = Sections
                              /\ Cardinality(Range(page.text)) = 1}
  /\ changes = 0
  /\ boot = 1
  /\ resets = 0
  /\ doc = Forgotten /\ age = RebuildS /\ nomem = 0
  /\ peers = [p \in Peers |-> UNSEEN]
  /\ gate = SERVE
  /\ replies = <<>>
  /\ copies = [p \in Patched |-> [boot |-> 0, resets |-> 0, version |-> 0,
                                page |-> PageOf(Forgotten)]]

Next ==
  \/ \E p \in Peers : Ask(p)
  \/ PollNoMemory
  \/ Pump
  \/ Hold \/ Resume \/ Shed
  \/ Change
  \/ \E p \in Peers : HangUp(p)
  \/ Tick
  \/ Reboot

Spec == Init /\ [][Next]_vars

----------------------------------------------------------------------------
(* A copy put together from whole pages and deltas, over lost replies,      *)
(* hang-ups and reboots, is the page itself: whoever holds this version     *)
(* (since the document was last forgotten) sees what the document says.     *)
CopiesAgree ==
  \A p \in Patched :
    /\ copies[p].boot = boot
    /\ copies[p].resets = resets
    /\ copies[p].version = doc.version
    /\ doc.version > 0
    => copies[p].page = PageOf(doc)

(* While the strokes have the link, or the memory is given back, no reply   *)
(* holds pieces of a page, not even of one asked for before; and no         *)
(* document is kept before that hold is over.                               *)
RepliesGiveWay ==
  gate = HELD \/ nomem > 0 =>
    /\ \A i \in 1..Len(replies) : replies[i].body.kind = "held"
    /\ nomem > 0 => doc.units = <<>>

(* A delta holds whatever changed after the version it was asked from: put  *)
(* on the copy of that version it gives the page ("a delta needs the same   *)
(* boot and a version this document has had", status_doc.py:118).           *)
DeltaSaysAll ==
  [][\A p \in Patched :
       (Ask(p) /\ Len(replies') > Len(replies)) =>
       LET body == Last(replies').body
       IN body.kind = "delta" =>
            Merge(copies[p].page, body.page) = PageOf(doc')]_vars
=============================================================================
