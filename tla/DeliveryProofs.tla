---------------------------- MODULE DeliveryProofs ----------------------------
(***************************************************************************)
(* Delivery over /ws for every number of clients and messages, and every   *)
(* limit: nothing overtakes a queue, no stroke is forgotten, the queues    *)
(* stay within their bounds, the sense path never writes while ringing is  *)
(* batched, and a draining path sends no message.                          *)
(***************************************************************************)
EXTENDS Delivery, QueueFacts

Doors == {"open", "refusing", "sealed"}
Nets == [state : {"QUIET", "RINGING"}, mode : {"live", "batched", "shed"}]
Wires == {s \in Seq(Nat) : Len(s) <= MaxWire}

\* Within a turn: who is still to be served, and from which plan.
Rounds == {"fan", "pump", "read"}
Turns == [phase : {"idle", "server", "admit"} \cup Rounds, writes : BOOLEAN, rest : Seq(Clients),
          msg : Nat, keep : BOOLEAN, pump : {"door", "inside", "sent"}, spent : BOOLEAN,
          nomem : BOOLEAN]

Metas == [state : {"GONE", "NEW", "LIVE", "LAGGING"}, todo : Seq(Nat), left : Nat, out : Seq(Nat),
          unconf : SUBSET Nat, ack : Nat, hb : BOOLEAN, handed : SUBSET Nat, bare : BOOLEAN]

\* What a client is still to get is in order, after all it was given, and
\* within its bounds.
QueueInv(m) ==
  /\ Sorted(m.todo) /\ Sorted(m.out)
  /\ \A x \in m.handed : \A y \in ToSet(m.todo) : x < y
  /\ Len(m.todo) <= TodoMax \/ Len(m.todo) = m.left
  /\ m.left <= Len(m.todo)
  /\ Len(m.out) <= BatchMax

\* A client's record when q messages were made.
Good(q) == {m \in Metas : /\ QueueInv(m)
                          /\ \A x \in m.handed : x <= q
                          /\ \A x \in ToSet(m.todo) : x <= q}

TypeInv ==
  /\ scene \in Scenes /\ door \in Doors /\ net \in Nets /\ turn \in Turns
  /\ clients \in Seq(Clients) /\ fresh \subseteq Clients /\ refused \subseteq Clients
  /\ seq \in Nat /\ meta \in [Clients -> Good(seq)]
  /\ strokes \in Seq(Nat) /\ made \subseteq Nat
  /\ wire \in [Clients -> Wires]

KeptInv == \A s \in ToSet(strokes) : s \in made /\ s \in 1..seq

\* A slot in use is not accepted again.
ClientsInv == NoDups(clients) /\ \A c \in ToSet(clients) : sock[c] # "none"

\* A replay is begun in the poll that accepted the client, or never.
FreshInv == \A c \in fresh : turn.phase = "admit" /\ fresh = {c} /\ meta[c].handed = {}

\* A round serves clients, each once; a message being fanned out is newer than
\* all that those were given, or have queued, who have not had it yet.
RoundInv ==
  /\ turn.phase \in Rounds => NoDups(turn.rest) /\ ToSet(turn.rest) \subseteq ToSet(clients)
  /\ turn.phase \in {"fan", "pump"} => turn.rest # <<>>
  /\ turn.phase = "read" /\ ~turn.spent => turn.rest # <<>>
  /\ turn.phase = "pump" => turn.writes
  /\ turn.phase = "fan" =>
       /\ Inline(net) /\ turn.msg <= seq
       /\ turn.keep \/ turn.msg \notin ToSet(strokes)
       /\ \A c \in ToSet(turn.rest) :
            /\ \A x \in meta[c].handed : x < turn.msg
            /\ \A x \in ToSet(meta[c].todo) : x < turn.msg

\* A turn whose path is sealed writes nothing any more, unless the poll itself
\* ran out of memory.
SealInv ==
  /\ turn.phase = "server" => door # "sealed"
  /\ turn.phase # "idle" /\ door = "sealed" => ~turn.writes \/ turn.spent \/ turn.nomem

DeliveryInv ==
  TypeInv /\ KeptInv /\ ClientsInv /\ FreshInv /\ RoundInv /\ SealInv /\ NoStrokeForgotten

-----------------------------------------------------------------------------
(* The operators of the module.                                            *)

LEMMA Caps ==
  /\ MaxWire \in Nat \ {0} /\ BatchMax \in Nat \ {0} /\ TodoMax \in Nat \ {0}
  /\ ReplayN \in Nat \ {0} /\ StrokeKeep \in Nat \ {0}
BY DeliveryAssumption

LEMMA SceneType ==
  ASSUME NEW s \in Scenes
  PROVE  s.mode \in {"live", "batched", "shed"} /\ s.kinds \subseteq {"stroke", "event", "beat"}
BY DeliveryAssumption

LEMMA WithoutFacts ==
  ASSUME NEW T, NEW s \in Seq(T), NEW D
  PROVE  /\ Without(s, D) \in Seq(T) /\ Len(Without(s, D)) <= Len(s)
         /\ ToSet(Without(s, D)) = ToSet(s) \ D
         /\ NoDups(s) => NoDups(Without(s, D))
BY KeepingFacts DEF Without

LEMMA FirstNFacts ==
  ASSUME NEW T, NEW s \in Seq(T), NEW n \in Nat
  PROVE  /\ FirstN(s, n) \in Seq(T)
         /\ Len(FirstN(s, n)) = IF Len(s) < n THEN Len(s) ELSE n
         /\ \A i \in 1..Len(FirstN(s, n)) : FirstN(s, n)[i] = s[i]
<1> DEFINE k == IF Len(s) < n THEN Len(s) ELSE n
<1>1. Len(s) \in Nat /\ k \in 0..Len(s)
  OBVIOUS
<1>2. FirstN(s, n) = SubSeq(s, 1, k)
  BY DEF FirstN
<1> HIDE DEF k
<1>3. SubSeq(s, 1, k) \in Seq(T) /\ Len(SubSeq(s, 1, k)) = k
  BY <1>1, SubSeqProperties
<1>4. \A i \in 1..k : SubSeq(s, 1, k)[i] = s[i]
  BY <1>1, SubSeqProperties
<1>. QED BY <1>2, <1>3, <1>4 DEF k

LEMMA LastNFacts ==
  ASSUME NEW T, NEW s \in Seq(T), NEW n \in Nat
  PROVE  LastN(s, n) \in Seq(T) /\ ToSet(LastN(s, n)) \subseteq ToSet(s)
<1> DEFINE k == IF Len(s) > n THEN Len(s) - n ELSE 0
<1>1. Len(s) \in Nat /\ k \in 0..Len(s)
  OBVIOUS
<1>2. LastN(s, n) = SubSeq(s, k + 1, Len(s))
  BY <1>1 DEF LastN
<1> HIDE DEF k
<1>. QED BY <1>1, <1>2, SuffixFacts

LEMMA LaterFacts ==
  ASSUME NEW T, NEW s \in Seq(T), s # <<>>, NoDups(s)
  PROVE  /\ Later(s) \in Seq(T) /\ NoDups(Later(s))
         /\ ToSet(Later(s)) = ToSet(s) \ {Head(s)}
<1>1. Len(s) \in Nat /\ 1 \in 0..Len(s) /\ Later(s) = SubSeq(s, 1 + 1, Len(s)) /\ Head(s) = s[1]
  BY SetOf DEF Later
<1>2. /\ Later(s) \in Seq(T) /\ NoDups(Later(s))
      /\ \A i \in 1..Len(Later(s)) : Later(s)[i] = s[i + 1] /\ i + 1 \in 1..Len(s)
      /\ \A i \in 1..Len(s) : i <= 1 \/ s[i] \in ToSet(Later(s))
      /\ ToSet(Later(s)) \subseteq ToSet(s)
  BY <1>1, SuffixFacts
<1>3. \A y : y \in ToSet(s) <=> \E i \in 1..Len(s) : y = s[i]
  BY SetOf
<1>4. \A y : y \in ToSet(Later(s)) <=> \E i \in 1..Len(Later(s)) : y = Later(s)[i]
  BY <1>2, SetOf
<1>5. Len(Later(s)) \in Nat
  BY <1>2, SetOf
<1>6. Head(s) \notin ToSet(Later(s))
  <2> SUFFICES ASSUME NEW i \in 1..Len(Later(s)), Head(s) = Later(s)[i] PROVE FALSE
    BY <1>4
  <2>1. s[i + 1] = s[1] /\ i + 1 \in 1..Len(s) /\ 1 < i + 1 /\ 1 \in 1..Len(s)
    BY <1>1, <1>2, <1>5
  <2>. QED BY <2>1 DEF NoDups
<1>7. \A y \in ToSet(s) : y = Head(s) \/ y \in ToSet(Later(s))
  BY <1>1, <1>2, <1>3
<1>. QED BY <1>2, <1>6, <1>7

LEMMA NewGood ==
  ASSUME NEW q \in Nat
  PROVE  NoMeta \in Good(q) /\ [NoMeta EXCEPT !.state = "NEW"] \in Good(q)
<1>1. <<>> \in Seq(Nat) /\ Len(<<>>) = 0 /\ ToSet(<<>>) = {} /\ Sorted(<<>>)
  BY DEF ToSet, Sorted
<1>2. NoMeta \in Metas /\ [NoMeta EXCEPT !.state = "NEW"] \in Metas
  BY <1>1 DEF NoMeta, Metas
<1>. QED BY <1>1, <1>2, Caps DEF Good, QueueInv, NoMeta

LEMMA GoodFields ==
  ASSUME NEW q \in Nat, NEW m \in Good(q)
  PROVE  /\ m.todo \in Seq(Nat) /\ m.out \in Seq(Nat) /\ m.left \in Nat /\ m.ack \in Nat
         /\ m.handed \subseteq Nat /\ m.unconf \subseteq Nat
         /\ m.state \in {"GONE", "NEW", "LIVE", "LAGGING"}
         /\ m \in Metas /\ QueueInv(m)
         /\ \A x \in m.handed : x <= q
         /\ \A x \in ToSet(m.todo) : x \in Nat /\ x <= q
<1>1. m \in Metas /\ QueueInv(m) /\ (\A x \in m.handed : x <= q) /\ \A x \in ToSet(m.todo) : x <= q
  BY DEF Good
<1>2. m.todo \in Seq(Nat)
  BY <1>1 DEF Metas
<1>3. ToSet(m.todo) \subseteq Nat
  BY <1>2, SetOf
<1>. QED BY <1>1, <1>2, <1>3 DEF Metas

LEMMA GoodGrows ==
  ASSUME NEW q \in Nat, NEW m \in Good(q)
  PROVE  m \in Good(q + 1)
<1>1. \A x \in m.handed : x <= q + 1
  BY GoodFields
<1>2. \A x \in ToSet(m.todo) : x <= q + 1
  <2>1. \A x \in ToSet(m.todo) : x \in Nat /\ x <= q
    BY GoodFields
  <2>. QED BY <2>1
<1>. QED BY <1>1, <1>2, GoodFields DEF Good

LEMMA LeaveFacts ==
  ASSUME NEW q \in Nat, NEW D, NEW m \in [Clients -> Good(q)], NEW w \in [Clients -> Wires], NEW u,
         clients \in Seq(Clients), LeaveWith(D, m, w, u)
  PROVE  /\ clients' \in Seq(Clients) /\ ToSet(clients') = ToSet(clients) \ D
         /\ NoDups(clients) => NoDups(clients')
         /\ fresh' = fresh \ D
         /\ meta' \in [Clients -> Good(q)] /\ \A c \in Clients \ D : meta'[c] = m[c]
         /\ wire' \in [Clients -> Wires]
         /\ \A c \in Clients \ D : sock'[c] = sock[c]
<1>1. clients' = Without(clients, D) /\ fresh' = fresh \ D
  BY DEF LeaveWith
<1>2. /\ clients' \in Seq(Clients) /\ ToSet(clients') = ToSet(clients) \ D
      /\ NoDups(clients) => NoDups(clients')
  BY <1>1, WithoutFacts
<1>3. meta' = [c \in Clients |-> IF c \in D THEN NoMeta ELSE m[c]]
  BY DEF LeaveWith
<1>4. meta' \in [Clients -> Good(q)] /\ \A c \in Clients \ D : meta'[c] = m[c]
  BY <1>3, NewGood
<1>5. wire' = [c \in Clients |-> IF c \in D THEN <<>> ELSE w[c]]
  BY DEF LeaveWith
<1>6. <<>> \in Wires
  BY Caps DEF Wires
<1>7. wire' \in [Clients -> Wires]
  BY <1>5, <1>6
<1>8. sock' = [c \in Clients |-> IF c \in D THEN "none" ELSE sock[c]]
  BY DEF LeaveWith
<1>. QED BY <1>1, <1>2, <1>4, <1>7, <1>8

-----------------------------------------------------------------------------
(* A round: the fan, the pump, the reads.                                  *)

\* The turn goes on without the clients D, its budget spent if b.
RoundGoes(D, b) ==
  /\ turn' \in Turns /\ turn'.phase \in {"idle"} \cup Rounds
  /\ turn'.phase \in Rounds => NoDups(turn'.rest) /\ ToSet(turn'.rest) \subseteq ToSet(clients) \ D
  /\ turn'.phase \in {"fan", "pump"} => turn'.rest # <<>>
  /\ turn'.phase = "read" /\ ~turn'.spent => turn'.rest # <<>>
  /\ turn'.phase # "idle" => /\ turn'.writes => turn.writes
                             /\ turn.nomem => turn'.nomem
                             /\ b => turn'.spent
  /\ turn'.phase = "pump" => turn.phase = "pump" /\ (turn'.writes <=> turn.writes)
  /\ turn'.phase = "fan" => /\ turn.phase = "fan" /\ turn'.msg = turn.msg
                            /\ turn'.keep <=> turn.keep
                            /\ ToSet(turn'.rest) \subseteq ToSet(turn.rest) \ {Head(turn.rest)}
  /\ turn.phase = "fan" =>
       \A c \in ToSet(turn.rest) \ D :
         c = Head(turn.rest) \/ (turn'.phase = "fan" /\ c \in ToSet(turn'.rest))

LEMMA NextGoes ==
  ASSUME turn \in Turns, turn.phase \in Rounds, turn.rest # <<>>, NoDups(turn.rest),
         ToSet(turn.rest) \subseteq ToSet(clients), clients \in Seq(Clients), NoDups(clients),
         NEW D, NEW b \in BOOLEAN, turn' = NextClient(D, b)
  PROVE  RoundGoes(D, b)
<1> DEFINE r == Without(Later(turn.rest), D)
<1> DEFINE t == [turn EXCEPT !.rest = r, !.pump = "door", !.spent = b]
<1> DEFINE cs == Without(clients, D)
<1>1. turn.rest \in Seq(Clients)
  BY DEF Turns
<1>2. /\ r \in Seq(Clients) /\ NoDups(r)
      /\ ToSet(r) = (ToSet(turn.rest) \ {Head(turn.rest)}) \ D
  <2>1. /\ Later(turn.rest) \in Seq(Clients) /\ NoDups(Later(turn.rest))
        /\ ToSet(Later(turn.rest)) = ToSet(turn.rest) \ {Head(turn.rest)}
    BY <1>1, LaterFacts
  <2>. QED BY <2>1, WithoutFacts
<1>3. cs \in Seq(Clients) /\ NoDups(cs) /\ ToSet(cs) = ToSet(clients) \ D
  BY WithoutFacts
<1>4. turn' = CASE t.rest # <<>> -> t
                [] t.rest = <<>> /\ turn.phase = "pump" -> Reading(t, cs)
                [] OTHER -> Idle
  BY DEF NextClient
<1>5. r # <<>> <=> ToSet(r) # {}
  BY <1>2, SetOf
<1> HIDE DEF r, cs
<1>6. t \in Turns /\ t.rest = r /\ t.phase = turn.phase /\ t.msg = turn.msg
  BY <1>2 DEF Turns
<1>7. (t.keep <=> turn.keep) /\ (t.writes <=> turn.writes) /\ (t.nomem <=> turn.nomem) /\ (t.spent <=> b)
  BY DEF Turns
<1>8. Idle \in Turns /\ Idle.phase = "idle"
  BY DEF Idle, Turns, Rounds
<1> HIDE DEF t
<1>9. CASE r # <<>>
  <2>1. turn' = t
    BY <1>4, <1>6, <1>9
  <2>. QED BY <1>2, <1>6, <1>7, <1>9, <2>1 DEF RoundGoes, Rounds
<1>10. CASE r = <<>> /\ turn.phase = "pump" /\ ~(cs = <<>> /\ ~t.spent)
  <2>1. turn' = [t EXCEPT !.phase = "read", !.rest = cs, !.pump = "door"]
    BY <1>4, <1>6, <1>10 DEF Reading
  <2>2. turn' \in Turns /\ turn'.phase = "read" /\ turn'.rest = cs
    BY <1>3, <1>6, <2>1 DEF Turns, Rounds
  <2>3. (turn'.writes <=> t.writes) /\ (turn'.nomem <=> t.nomem) /\ (turn'.spent <=> t.spent)
    BY <1>6, <2>1 DEF Turns
  <2>. QED BY <1>3, <1>7, <1>10, <2>2, <2>3 DEF RoundGoes, Rounds
<1>11. CASE r = <<>> /\ ~(turn.phase = "pump" /\ ~(cs = <<>> /\ ~t.spent))
  <2>1. turn' = Idle
    BY <1>4, <1>6, <1>11 DEF Reading
  <2>. QED BY <1>2, <1>5, <1>8, <1>11, <2>1 DEF RoundGoes, Rounds
<1>. QED BY <1>9, <1>10, <1>11

\* A stroke a client has, or is to get, whatever the turn does.
Sees(m, s) == m.bare \/ s \in ToSet(m.todo) \/ s \in m.handed \/ s <= m.ack

\* The clients D left; what the others have is within its bounds.
Left(D) ==
  /\ clients' \in Seq(Clients) /\ ToSet(clients') = ToSet(clients) \ D /\ NoDups(clients')
  /\ fresh' = fresh \ D
  /\ meta' \in [Clients -> Good(seq)] /\ wire' \in [Clients -> Wires]
  /\ \A c \in Clients \ D : sock'[c] = sock[c]

LEMMA RoundMove ==
  ASSUME DeliveryInv, turn.phase \in Rounds, NEW D, NEW b \in BOOLEAN, RoundGoes(D, b), Left(D),
         scene' = scene, net' = net, strokes' = strokes, seq' = seq, made' = made,
         refused' \subseteq Clients, door' \in Doors,
         door' = "sealed" => door = "sealed" \/ b, turn.spent => b,
         NEW h, h = Head(turn.rest),
         \A c \in Clients \ D : c # h => meta'[c] = meta[c],
         h \notin D => \A s \in ToSet(strokes) : Sees(meta'[h], s)
  PROVE  DeliveryInv'
<1>1. TypeInv /\ KeptInv /\ ClientsInv /\ FreshInv /\ RoundInv /\ SealInv /\ NoStrokeForgotten
  BY DEF DeliveryInv
<1>2. /\ clients \in Seq(Clients) /\ ToSet(clients) \subseteq Clients /\ seq \in Nat
      /\ NoDups(clients)
  BY <1>1, SetOf DEF TypeInv, ClientsInv
<1>3. fresh = {}
  BY <1>1 DEF FreshInv, Rounds
<1>4. /\ clients' \in Seq(Clients) /\ ToSet(clients') = ToSet(clients) \ D /\ NoDups(clients')
      /\ fresh' = {} /\ meta' \in [Clients -> Good(seq)] /\ wire' \in [Clients -> Wires]
      /\ \A c \in Clients \ D : sock'[c] = sock[c]
  BY <1>3 DEF Left
<1>5. TypeInv'
  BY <1>1, <1>4 DEF TypeInv, RoundGoes
<1>6. KeptInv'
  BY <1>1 DEF KeptInv
<1>7. ClientsInv'
  BY <1>1, <1>2, <1>4 DEF ClientsInv
<1>8. FreshInv'
  BY <1>4 DEF FreshInv
<1>9. RoundInv'
  <2>1. turn'.phase = "fan" =>
          /\ Inline(net') /\ turn'.msg <= seq'
          /\ turn'.keep \/ turn'.msg \notin ToSet(strokes')
    BY <1>1 DEF RoundInv, RoundGoes, Inline
  <2>2. ASSUME turn'.phase = "fan", NEW c \in ToSet(turn'.rest)
        PROVE  /\ \A x \in meta'[c].handed : x < turn'.msg
               /\ \A x \in ToSet(meta'[c].todo) : x < turn'.msg
    <3>1. c \in ToSet(turn.rest) /\ c # h /\ c \in Clients \ D
          /\ turn.phase = "fan" /\ turn'.msg = turn.msg
      BY <1>1, <1>2, <2>2 DEF RoundInv, RoundGoes, Rounds
    <3>2. meta'[c] = meta[c]
      BY <3>1
    <3>. QED BY <1>1, <3>1, <3>2 DEF RoundInv
  <2>3. turn'.phase = "pump" => turn'.writes
    BY <1>1 DEF RoundInv, RoundGoes
  <2>. QED BY <1>4, <2>1, <2>2, <2>3 DEF RoundInv, RoundGoes
<1>10. SealInv'
  BY <1>1 DEF SealInv, RoundGoes, Rounds
<1>11. NoStrokeForgotten'
  <2> SUFFICES ASSUME NEW c \in ToSet(clients'), NEW s \in ToSet(strokes)
               PROVE  (meta[c].bare \/ Coming(c, s))'
    BY DEF NoStrokeForgotten
  <2>1. c \in ToSet(clients) /\ c \in Clients \ D
    BY <1>2, <1>4
  <2>2. CASE c = h
    BY <2>1, <2>2 DEF Sees, Coming
  <2>3. CASE c # h
    <3>1. meta'[c] = meta[c]
      BY <2>1, <2>3
    <3>2. meta[c].bare \/ Coming(c, s)
      BY <1>1, <1>3, <2>1 DEF NoStrokeForgotten
    <3>3. turn.phase = "fan" /\ turn.msg = s /\ c \in ToSet(turn.rest)
            => turn'.phase = "fan" /\ turn'.msg = s /\ c \in ToSet(turn'.rest)
      BY <2>1, <2>3 DEF RoundGoes
    <3>. QED BY <3>1, <3>2, <3>3 DEF Coming
  <2>. QED BY <2>2, <2>3
<1>. QED BY <1>5, <1>6, <1>7, <1>8, <1>9, <1>10, <1>11 DEF DeliveryInv

LEMMA RoundStep ==
  ASSUME DeliveryInv, turn.phase \in Rounds,
         NEW D, NEW b \in BOOLEAN, NEW m \in [Clients -> Good(seq)], NEW w \in [Clients -> Wires], NEW u,
         RoundGoes(D, b), LeaveWith(D, m, w, u),
         scene' = scene, net' = net, strokes' = strokes, seq' = seq, made' = made,
         refused' \subseteq Clients, door' \in Doors,
         door' = "sealed" => door = "sealed" \/ b, turn.spent => b,
         NEW h \in Clients, h = Head(turn.rest),
         \A c \in Clients \ {h} : m[c] = meta[c],
         h \notin D => \A s \in ToSet(strokes) : Sees(m[h], s)
  PROVE  DeliveryInv'
<1>1. clients \in Seq(Clients) /\ seq \in Nat /\ NoDups(clients)
  BY DEF DeliveryInv, TypeInv, ClientsInv
<1>2. /\ clients' \in Seq(Clients) /\ ToSet(clients') = ToSet(clients) \ D
      /\ NoDups(clients) => NoDups(clients')
      /\ fresh' = fresh \ D
      /\ meta' \in [Clients -> Good(seq)] /\ \A c \in Clients \ D : meta'[c] = m[c]
      /\ wire' \in [Clients -> Wires]
      /\ \A c \in Clients \ D : sock'[c] = sock[c]
  BY <1>1, LeaveFacts, Zenon
<1>3. Left(D)
  BY <1>1, <1>2 DEF Left
<1>4. \A c \in Clients \ D : c # h => meta'[c] = meta[c]
  BY <1>2
<1>5. h \notin D => \A s \in ToSet(strokes) : Sees(meta'[h], s)
  BY <1>2
<1>. QED BY <1>3, <1>4, <1>5, RoundMove

LEMMA RoundHead ==
  ASSUME DeliveryInv, turn.phase \in Rounds, turn.phase = "read" => ~turn.spent
  PROVE  /\ turn.rest # <<>> /\ Head(turn.rest) \in ToSet(turn.rest)
         /\ Head(turn.rest) \in Clients /\ Head(turn.rest) \in ToSet(clients)
         /\ \A D : \A b \in BOOLEAN : turn' = NextClient(D, b) => RoundGoes(D, b)
         /\ \A s \in ToSet(strokes) : Sees(meta[Head(turn.rest)], s)
                                       \/ (turn.phase = "fan" /\ s = turn.msg)
<1>1. TypeInv /\ RoundInv /\ ClientsInv /\ FreshInv /\ NoStrokeForgotten
  BY DEF DeliveryInv
<1>2. turn \in Turns /\ turn.rest \in Seq(Clients) /\ clients \in Seq(Clients)
  BY <1>1 DEF TypeInv, Turns
<1>3. turn.rest # <<>> /\ NoDups(turn.rest) /\ ToSet(turn.rest) \subseteq ToSet(clients)
  BY <1>1 DEF RoundInv, Rounds
<1>4. Head(turn.rest) \in ToSet(turn.rest) /\ ToSet(turn.rest) \subseteq Clients
  BY <1>2, <1>3, SetOf
<1>5. ASSUME NEW D, NEW b \in BOOLEAN, turn' = NextClient(D, b) PROVE RoundGoes(D, b)
  BY <1>1, <1>2, <1>3, <1>5, NextGoes DEF ClientsInv
<1>6. fresh = {}
  BY <1>1 DEF FreshInv, Rounds
<1>7. ASSUME NEW s \in ToSet(strokes)
      PROVE  Sees(meta[Head(turn.rest)], s) \/ (turn.phase = "fan" /\ s = turn.msg)
  BY <1>1, <1>3, <1>4, <1>6 DEF NoStrokeForgotten, Coming, Sees
<1>. QED BY <1>3, <1>4, <1>5, <1>7

LEMMA SeesParts ==
  ASSUME NEW m, NEW r, NEW s, Sees(m, s), m.bare => r.bare, r.ack = m.ack \/ s <= r.ack,
         s \in m.handed => s \in r.handed,
         s \in ToSet(m.todo) => s \in ToSet(r.todo) \/ s \in r.handed
  PROVE  Sees(r, s)
BY DEF Sees

LEMMA DeliveredGood ==
  ASSUME NEW q \in Nat, NEW m \in Good(q), NEW fs \in Seq(Nat), NEW n \in 0..Len(m.todo),
         NEW ks \in Seq(Nat), Sorted(ks), Len(ks) <= BatchMax,
         n \in {0, 1} \/ m.left = 0,
         \A x \in ToSet(fs) : x <= q,
         \A x \in ToSet(fs) : \A y \in ToSet(SubSeq(m.todo, n + 1, Len(m.todo))) : x < y,
         \A i \in 1..n : m.todo[i] \in ToSet(fs)
  PROVE  /\ Delivered(m, fs, n, ks) \in Good(q)
         /\ \A s : Sees(m, s) \/ s \in ToSet(fs) => Sees(Delivered(m, fs, n, ks), s)
<1> DEFINE r == Delivered(m, fs, n, ks)
<1> DEFINE rest == SubSeq(m.todo, n + 1, Len(m.todo))
<1> DEFINE left == IF n > 0 /\ m.left > 0 THEN m.left - 1 ELSE m.left
<1> DEFINE unconf == m.unconf \cup (ToSet(fs) \cap ToSet(strokes))
<1> DEFINE handed == m.handed \cup ToSet(fs)
<1>1. /\ m.todo \in Seq(Nat) /\ m.left \in Nat /\ m.handed \subseteq Nat /\ m.unconf \subseteq Nat
      /\ m \in Metas /\ QueueInv(m) /\ ToSet(fs) \subseteq Nat /\ Len(m.todo) \in Nat
  BY GoodFields, SetOf
<1>2. rest \in Seq(Nat) /\ Len(rest) = Len(m.todo) - n /\ ToSet(rest) \subseteq ToSet(m.todo)
      /\ \A i \in 1..Len(m.todo) : i <= n \/ m.todo[i] \in ToSet(rest)
  <2> DEFINE t == m.todo
  <2>1. t \in Seq(Nat) /\ n \in 0..Len(t)
    BY <1>1
  <2> HIDE DEF t
  <2>2. LET r0 == SubSeq(t, n + 1, Len(t))
        IN  r0 \in Seq(Nat) /\ Len(r0) = Len(t) - n /\ ToSet(r0) \subseteq ToSet(t)
            /\ \A i \in 1..Len(t) : i <= n \/ t[i] \in ToSet(r0)
    BY <2>1, SuffixFacts
  <2>. QED BY <2>2 DEF t
<1>3. Sorted(rest)
  BY <1>1, SuffixSorted DEF QueueInv
<1>4. left \in Nat /\ (left = m.left \/ (n > 0 /\ m.left > 0 /\ left = m.left - 1))
  BY <1>1
<1> DEFINE len == Len(m.todo)
<1> DEFINE was == m.left
<1> HIDE DEF len, was
<1>5. /\ len \in Nat /\ n \in 0..len /\ was \in Nat /\ was <= len
      /\ len <= TodoMax \/ len = was
      /\ n \in {0, 1} \/ was = 0
      /\ Len(rest) = len - n
      /\ left \in Nat /\ left = IF n > 0 /\ was > 0 THEN was - 1 ELSE was
  BY <1>1, <1>2, <1>4 DEF QueueInv, len, was
<1>6. (Len(rest) <= TodoMax \/ Len(rest) = left) /\ left <= Len(rest)
  <2> HIDE DEF rest, left
  <2>1. CASE n = 0
    BY <1>5, <2>1, Caps
  <2>2. CASE n > 0 /\ was = 0
    <3>1. left = 0 /\ len <= TodoMax
      BY <1>5, <2>2, Caps
    <3>. QED BY <1>5, <2>2, <3>1, Caps
  <2>3. CASE n = 1 /\ was > 0
    <3>1. left = was - 1 /\ Len(rest) = len - 1 /\ was - 1 <= len - 1
      BY <1>5, <2>3
    <3>2. len <= TodoMax => len - 1 <= TodoMax
      BY <1>5, Caps
    <3>3. len = was => len - 1 = was - 1
      OBVIOUS
    <3>. QED BY <1>5, <3>1, <3>2, <3>3
  <2>. QED BY <1>5, <2>1, <2>2, <2>3
<1>7. unconf \subseteq Nat /\ handed \subseteq Nat
  BY <1>1
<1>8. r = [m EXCEPT !.out = ks, !.unconf = unconf, !.handed = handed, !.todo = rest, !.left = left]
  BY DEF Delivered
<1> HIDE DEF rest, left, unconf, r
<1>9. r \in Metas
  <2> HIDE DEF handed
  <2>. QED BY <1>1, <1>2, <1>4, <1>7, <1>8 DEF Metas
<1>10. r.out = ks /\ r.todo = rest /\ r.left = left /\ r.handed = handed /\ r.ack = m.ack
       /\ (m.bare => r.bare)
  <2> HIDE DEF handed
  <2>. QED BY <1>1, <1>8 DEF Metas
<1>11. \A x \in handed : \A y \in ToSet(rest) : x < y
  BY <1>1, <1>2 DEF QueueInv, rest
<1>12. QueueInv(r)
  BY <1>3, <1>6, <1>10, <1>11 DEF QueueInv
<1>13. \A x \in r.handed : x <= q
  BY <1>10, GoodFields
<1>14. \A x \in ToSet(r.todo) : x <= q
  BY <1>2, <1>10, GoodFields
<1>15. r \in Good(q)
  BY <1>9, <1>12, <1>13, <1>14 DEF Good
<1>16. ASSUME NEW s, Sees(m, s) \/ s \in ToSet(fs) PROVE Sees(r, s)
  <2>1. s \in ToSet(m.todo) => s \in ToSet(rest) \/ s \in handed
    <3>1. \A y : y \in ToSet(m.todo) <=> \E i \in 1..Len(m.todo) : y = m.todo[i]
      BY <1>1, SetOf
    <3>2. ASSUME NEW i \in 1..Len(m.todo), i <= n PROVE m.todo[i] \in handed
      BY <3>2
    <3>3. SUFFICES ASSUME NEW i \in 1..Len(m.todo), s = m.todo[i]
                   PROVE  s \in ToSet(rest) \/ s \in handed
      BY <3>1
    <3> HIDE DEF handed
    <3>4. i <= n \/ m.todo[i] \in ToSet(rest)
      BY <1>2
    <3>. QED BY <3>2, <3>3, <3>4
  <2>2. CASE s \in ToSet(fs)
    BY <1>10, <2>2 DEF Sees
  <2>3. CASE Sees(m, s)
    BY <1>10, <2>1, <2>3, SeesParts
  <2>. QED BY <1>16, <2>2, <2>3
<1>. QED BY <1>15, <1>16 DEF r

\* A message goes to the end of a queue that is not full.
Queued(m, x) == [m EXCEPT !.todo = Append(@, x)]

LEMMA QueuedGood ==
  ASSUME NEW q \in Nat, NEW m \in Good(q), NEW x \in Nat, x <= q, Len(m.todo) < TodoMax,
         \A y \in m.handed : y < x, \A y \in ToSet(m.todo) : y < x
  PROVE  Queued(m, x) \in Good(q) /\ Sees(Queued(m, x), x) /\ \A s : Sees(m, s) => Sees(Queued(m, x), s)
<1> DEFINE r == Queued(m, x)
<1> DEFINE todo == Append(m.todo, x)
<1>1. m.todo \in Seq(Nat) /\ m \in Metas /\ QueueInv(m) /\ Len(m.todo) \in Nat /\ m.left \in Nat
  BY GoodFields, SetOf
<1>2. todo \in Seq(Nat) /\ Len(todo) = Len(m.todo) + 1 /\ ToSet(todo) = ToSet(m.todo) \cup {x}
  BY <1>1, AppendFacts
<1>3. Sorted(todo)
  BY <1>1, AppendSorted DEF QueueInv
<1>4. r = [m EXCEPT !.todo = todo]
  BY DEF Queued
<1> HIDE DEF todo, r
<1>5. /\ r \in Metas /\ r.todo = todo /\ r.out = m.out /\ r.left = m.left /\ r.handed = m.handed
      /\ r.ack = m.ack /\ (m.bare => r.bare)
  BY <1>1, <1>2, <1>4 DEF Metas
<1>6. QueueInv(r)
  <2>1. Len(todo) <= TodoMax /\ m.left <= Len(todo)
    <3>1. Len(m.todo) \in Nat /\ m.left \in Nat /\ m.left <= Len(m.todo)
      BY <1>1 DEF QueueInv
    <3>2. Len(todo) = Len(m.todo) + 1
      BY <1>2
    <3>. QED BY <3>1, <3>2, Caps
  <2>2. \A y \in m.handed : \A z \in ToSet(todo) : y < z
    BY <1>1, <1>2 DEF QueueInv
  <2>. QED BY <1>1, <1>3, <1>5, <2>1, <2>2 DEF QueueInv
<1>7. r \in Good(q)
  <2>1. \A y \in r.handed : y <= q
    BY <1>5, GoodFields
  <2>2. \A y \in ToSet(r.todo) : y <= q
    BY <1>2, <1>5, GoodFields
  <2>. QED BY <1>5, <1>6, <2>1, <2>2 DEF Good
<1>8. ASSUME NEW s, Sees(m, s) PROVE Sees(r, s)
  BY <1>2, <1>5, <1>8 DEF Sees
<1>9. Sees(r, x)
  BY <1>2, <1>5 DEF Sees
<1>. QED BY <1>7, <1>8, <1>9 DEF r

-----------------------------------------------------------------------------
(* Writing.                                                                *)

LEMMA WriteFacts ==
  ASSUME DeliveryInv, NEW c \in Clients, NEW fs \in Seq(Nat)
  PROVE  /\ Pending(c, fs) \in Seq(Nat) /\ Parked(c, fs) \in Seq(Nat)
         /\ \E k \in 0..Len(Pending(c, fs)) :
              Parked(c, fs) = SubSeq(Pending(c, fs), k + 1, Len(Pending(c, fs)))
         /\ [wire EXCEPT ![c] = @ \o Taken(c, fs)] \in [Clients -> Wires]
<1> DEFINE p == Pending(c, fs)
<1> DEFINE t == Taken(c, fs)
<1>1. wire \in [Clients -> Wires] /\ meta \in [Clients -> Good(seq)] /\ seq \in Nat
  BY DEF DeliveryInv, TypeInv
<1>2. wire[c] \in Seq(Nat) /\ Len(wire[c]) <= MaxWire /\ Len(wire[c]) \in Nat
  BY <1>1 DEF Wires
<1>3. meta[c].out \in Seq(Nat)
  BY <1>1, GoodFields
<1>4. p \in Seq(Nat)
  BY <1>3, ConcatProperties DEF Pending
<1> DEFINE room == MaxWire - Len(wire[c])
<1>5. room \in Nat
  BY <1>2, Caps
<1>6. t = FirstN(p, room)
  BY DEF Taken
<1> HIDE DEF p, t
<1>7. t \in Seq(Nat) /\ Len(t) = IF Len(p) < room THEN Len(p) ELSE room
  <2> HIDE DEF room
  <2>. QED BY <1>4, <1>5, <1>6, FirstNFacts
<1>8. Len(p) \in Nat /\ Len(t) \in 0..Len(p) /\ Len(t) <= room
  BY <1>4, <1>5, <1>7
<1>9. Parked(c, fs) = SubSeq(p, Len(t) + 1, Len(p))
  BY DEF Parked, p, t
<1>10. Parked(c, fs) \in Seq(Nat)
  BY <1>4, <1>8, <1>9, SuffixFacts
<1>11. wire[c] \o t \in Wires
  <2>1. wire[c] \o t \in Seq(Nat) /\ Len(wire[c] \o t) = Len(wire[c]) + Len(t)
    BY <1>2, <1>7, ConcatProperties
  <2>. QED BY <1>2, <1>8, <2>1, Caps DEF Wires
<1>. QED BY <1>1, <1>4, <1>8, <1>9, <1>10, <1>11 DEF p, t

\* What of fs is parked is in order and within one batch, if fs is and nothing
\* else was parked, or if there is nothing new.
LEMMA ParkedSorted ==
  ASSUME DeliveryInv, NEW c \in Clients, NEW fs \in Seq(Nat),
         fs = <<>> \/ (meta[c].out = <<>> /\ Sorted(fs) /\ Len(fs) <= BatchMax)
  PROVE  Sorted(Parked(c, fs)) /\ Len(Parked(c, fs)) <= BatchMax
<1> DEFINE p == Pending(c, fs)
<1>1. meta \in [Clients -> Good(seq)] /\ seq \in Nat
  BY DEF DeliveryInv, TypeInv
<1>2. meta[c].out \in Seq(Nat) /\ QueueInv(meta[c])
  BY <1>1, GoodFields
<1>3. p \in Seq(Nat) /\ Sorted(p) /\ Len(p) <= BatchMax
  <2>1. CASE fs = <<>>
    <3>1. p = meta[c].out
      BY <1>2, <2>1, ConcatEmptySeq DEF Pending
    <3>. QED BY <1>2, <3>1 DEF QueueInv
  <2>2. CASE fs # <<>>
    <3>1. p = fs
      BY <2>2, ConcatEmptySeq DEF Pending
    <3>. QED BY <2>2, <3>1
  <2>. QED BY <2>1, <2>2
<1>4. PICK k \in 0..Len(p) : Parked(c, fs) = SubSeq(p, k + 1, Len(p))
  BY WriteFacts
<1> HIDE DEF p
<1>5. Len(p) \in Nat /\ Len(SubSeq(p, k + 1, Len(p))) = Len(p) - k
  BY <1>3, SuffixFacts
<1>6. Sorted(SubSeq(p, k + 1, Len(p)))
  BY <1>3, SuffixSorted
<1>. QED BY <1>3, <1>4, <1>5, <1>6, Caps

LEMMA BadDoor == ASSUME NEW d \in Doors PROVE Bad(d) \in Doors /\ (Bad(d) = "sealed" <=> d = "sealed")
BY DEF Bad, Doors

LEMMA Trouble ==
  ASSUME DeliveryInv, turn.phase \in {"fan", "pump"}, NEW D, Head(turn.rest) \in D,
         NEW d \in Doors, NEW late \in SUBSET BOOLEAN, SendFails(D, d, late),
         d = "sealed" => door = "sealed" \/ late = {TRUE},
         \A b \in late : turn.spent => b,
         UNCHANGED <<scene, net, kept>>
  PROVE  DeliveryInv'
<1>1. PICK b \in late : turn' = NextClient(D, b)
  BY DEF SendFails
<1>2. b \in BOOLEAN /\ (turn.spent => b) /\ (d = "sealed" => door = "sealed" \/ b)
  BY <1>1
<1>3. turn.phase \in Rounds /\ turn.phase # "read"
  BY DEF Rounds
<1>4. RoundGoes(D, b)
  BY <1>1, <1>2, <1>3, RoundHead
<1>5. LeaveWith(D, meta, wire, up) /\ refused' = refused /\ door' = d
  BY DEF SendFails, Leave
<1>6. /\ meta \in [Clients -> Good(seq)] /\ wire \in [Clients -> Wires] /\ refused \subseteq Clients
  BY DEF DeliveryInv, TypeInv
<1>7. strokes' = strokes /\ seq' = seq /\ made' = made /\ scene' = scene /\ net' = net
  BY DEF kept
<1>8. Head(turn.rest) \in Clients
  BY <1>3, RoundHead
<1>. QED BY <1>2, <1>3, <1>4, <1>5, <1>6, <1>7, <1>8, RoundStep

LEMMA TroubleStep ==
  ASSUME DeliveryInv, turn.phase \in {"fan", "pump"}, NEW c, c = Head(turn.rest),
         SendTrouble(c), UNCHANGED <<scene, net, kept>>
  PROVE  DeliveryInv'
<1>1. door \in Doors /\ turn.spent \in BOOLEAN /\ "sealed" \in Doors
  BY DEF DeliveryInv, TypeInv, Turns, Doors
<1>2. Bad(door) \in Doors /\ (Bad(door) = "sealed" => door = "sealed")
  BY <1>1, BadDoor
<1> DEFINE b == turn.spent
<1>3. {b} \in SUBSET BOOLEAN /\ {b, TRUE} \in SUBSET BOOLEAN /\ {TRUE} \in SUBSET BOOLEAN
  BY <1>1
<1>4. (\A x \in {b} : turn.spent => x) /\ (\A x \in {b, TRUE} : turn.spent => x)
      /\ (\A x \in {TRUE} : turn.spent => x)
  OBVIOUS
<1> HIDE DEF b
<1>5. CASE SendGone(c)
  <2>1. SendFails({c}, door, {b})
    BY <1>5 DEF SendGone, b
  <2>. QED BY <1>1, <1>3, <1>4, <2>1, Trouble
<1>6. CASE SendOverran(c)
  <2>1. SendFails({c}, Bad(door), {b, TRUE})
    BY <1>6 DEF SendOverran, b
  <2>. QED BY <1>2, <1>3, <1>4, <2>1, Trouble
<1>7. CASE SendStarved(c)
  <2>1. SendFails({c} \cup Lagging, "sealed", {TRUE})
    BY <1>7 DEF SendStarved
  <2>. QED BY <1>1, <1>3, <1>4, <2>1, Trouble
<1>8. CASE SendErrs(c)
  <2>1. SendFails({c}, Bad(door), {b})
    BY <1>8 DEF SendErrs, b
  <2>. QED BY <1>2, <1>3, <1>4, <2>1, Trouble
<1>. QED BY <1>5, <1>6, <1>7, <1>8 DEF SendTrouble

LEMMA DeliverStep ==
  ASSUME DeliveryInv, turn.phase \in {"fan", "pump"}, NEW c, c = Head(turn.rest),
         NEW fs \in Seq(Nat), NEW n \in 0..Len(meta[c].todo), Deliver(c, fs, n),
         fs = <<>> \/ (meta[c].out = <<>> /\ Sorted(fs) /\ Len(fs) <= BatchMax),
         n \in {0, 1} \/ meta[c].left = 0,
         \A x \in ToSet(fs) : x <= seq,
         \A x \in ToSet(fs) :
            \A y \in ToSet(SubSeq(meta[c].todo, n + 1, Len(meta[c].todo))) : x < y,
         \A i \in 1..n : meta[c].todo[i] \in ToSet(fs),
         turn.phase = "fan" => turn.msg \in ToSet(fs),
         InTime \/ Slow, RoundGoes({}, turn.spent), UNCHANGED <<scene, net, kept>>
  PROVE  DeliveryInv'
<1> DEFINE r == Delivered(meta[c], fs, n, Parked(c, fs))
<1> DEFINE w == [wire EXCEPT ![c] = @ \o Taken(c, fs)]
<1> DEFINE m == [meta EXCEPT ![c] = r]
<1>1. /\ meta \in [Clients -> Good(seq)] /\ seq \in Nat /\ refused \subseteq Clients
      /\ door \in Doors /\ strokes \in Seq(Nat)
  BY DEF DeliveryInv, TypeInv
<1>2. turn.phase \in Rounds /\ turn.phase # "read" /\ turn.spent \in BOOLEAN
  BY DEF Rounds, DeliveryInv, TypeInv, Turns
<1>3. c \in Clients
  BY <1>2, RoundHead
<1>4. LeaveWith({}, m, w, up) /\ refused' = refused
  BY DEF Deliver, Leave
<1>5. Parked(c, fs) \in Seq(Nat) /\ w \in [Clients -> Wires]
  BY <1>3, WriteFacts
<1>6. Sorted(Parked(c, fs)) /\ Len(Parked(c, fs)) <= BatchMax
  BY <1>3, ParkedSorted
<1>7. meta[c] \in Good(seq)
  BY <1>1, <1>3
<1>9. r \in Good(seq) /\ \A s : Sees(meta[c], s) \/ s \in ToSet(fs) => Sees(r, s)
  BY <1>1, <1>5, <1>6, <1>7, DeliveredGood
<1> HIDE DEF r, w
<1>10. m \in [Clients -> Good(seq)] /\ m[c] = r /\ \A d \in Clients \ {c} : m[d] = meta[d]
  BY <1>1, <1>3, <1>9
<1>11. \A s \in ToSet(strokes) : Sees(m[c], s)
  <2>1. \A s \in ToSet(strokes) : Sees(meta[c], s) \/ (turn.phase = "fan" /\ s = turn.msg)
    BY <1>2, RoundHead
  <2>. QED BY <1>9, <1>10, <2>1
<1>12. door' \in Doors /\ (door' = "sealed" => door = "sealed")
  BY <1>1, BadDoor DEF InTime, Slow
<1>13. strokes' = strokes /\ seq' = seq /\ made' = made /\ scene' = scene /\ net' = net
  BY DEF kept
<1> DEFINE b == turn.spent
<1> DEFINE none == {}
<1>14. b \in BOOLEAN /\ (turn.spent => b) /\ RoundGoes(none, b) /\ LeaveWith(none, m, w, up)
  BY <1>2, <1>4
<1> HIDE DEF m, b, none
<1>. QED BY <1>1, <1>2, <1>3, <1>4, <1>5, <1>10, <1>11, <1>12, <1>13, <1>14, RoundStep

\* A client that nothing is done for.
LEMMA StayStep ==
  ASSUME DeliveryInv, turn.phase \in Rounds, Stay,
         NEW b \in BOOLEAN, RoundGoes({}, b), turn.spent => b,
         scene' = scene, net' = net, strokes' = strokes, seq' = seq, made' = made, door' = door,
         turn.phase = "fan" => turn.msg \notin ToSet(strokes),
         turn.phase = "read" => ~turn.spent
  PROVE  DeliveryInv'
<1>1. TypeInv /\ ClientsInv
  BY DEF DeliveryInv
<1>2. /\ clients' = clients /\ fresh' = fresh /\ meta' = meta /\ wire' = wire /\ sock' = sock
      /\ refused' = refused
  BY DEF Stay, farm, pipes
<1> DEFINE D == {}
<1>3. Left(D)
  BY <1>1, <1>2 DEF Left, TypeInv, ClientsInv
<1>4. refused' \subseteq Clients /\ door' \in Doors
  BY <1>1, <1>2 DEF TypeInv
<1>5. \A s \in ToSet(strokes) : Sees(meta'[Head(turn.rest)], s)
  BY <1>2, RoundHead
<1>6. RoundGoes(D, b)
  OBVIOUS
<1> HIDE DEF D
<1>. QED BY <1>2, <1>3, <1>4, <1>5, <1>6, RoundMove

-----------------------------------------------------------------------------
(* The fan: the rounds of send().                                          *)

LEMMA FanInv == DeliveryInv /\ Fan => DeliveryInv'
<1> SUFFICES ASSUME DeliveryInv, Fan PROVE DeliveryInv'
  OBVIOUS
<1> DEFINE c == Head(turn.rest)
<1> DEFINE b == turn.spent
<1> DEFINE none == {}
<1>1. /\ turn.phase = "fan" /\ turn.phase \in Rounds /\ UNCHANGED <<scene, net, kept>>
      /\ FanQueue(c) \/ FanWrite(c) \/ FanTrouble(c)
  BY DEF Fan, Rounds
<1>2. TypeInv /\ RoundInv
  BY DEF DeliveryInv
<1>3. /\ turn.rest # <<>> /\ c \in ToSet(turn.rest) /\ c \in Clients
      /\ \A D : turn' = NextClient(D, b) => RoundGoes(D, b)
      /\ \A s \in ToSet(strokes) : Sees(meta[c], s) \/ s = turn.msg
      /\ b \in BOOLEAN
  <2>1. turn.phase # "read" /\ b \in BOOLEAN
    BY <1>1, <1>2 DEF TypeInv, Turns
  <2> HIDE DEF b
  <2>. QED BY <1>1, <2>1, RoundHead
<1>4. /\ meta \in [Clients -> Good(seq)] /\ wire \in [Clients -> Wires] /\ seq \in Nat
      /\ refused \subseteq Clients /\ door \in Doors /\ turn.msg \in Nat /\ strokes \in Seq(Nat)
  BY <1>2 DEF TypeInv, Turns
<1>5. strokes' = strokes /\ seq' = seq /\ made' = made /\ scene' = scene /\ net' = net
  BY <1>1 DEF kept
<1>6. /\ turn.msg <= seq
      /\ \A x \in meta[c].handed : x < turn.msg
      /\ \A x \in ToSet(meta[c].todo) : x < turn.msg
      /\ turn.keep \/ turn.msg \notin ToSet(strokes)
  BY <1>1, <1>2, <1>3 DEF RoundInv
<1>7. meta[c] \in Good(seq)
  BY <1>3, <1>4
<1> HIDE DEF c, b, none
<1>8. CASE FanQueue(c)
  <2>1. door' = door /\ refused' = refused
    BY <1>8 DEF FanQueue, InTime
  <2>2. CASE ~turn.keep
    <3> DEFINE m == IF turn.keep THEN [meta EXCEPT ![c].todo = Append(@, turn.msg)] ELSE meta
    <3>1. LeaveWith(none, m, wire, up) /\ turn' = NextClient(none, b)
      BY <1>8, <2>2 DEF FanQueue, Leave, none, b
    <3>2. m = meta
      BY <2>2
    <3>3. \A s \in ToSet(strokes) : Sees(meta[c], s)
      BY <1>3, <1>6, <2>2
    <3> HIDE DEF m
    <3>4. RoundGoes(none, b) /\ (turn.spent => b)
      BY <1>3, <3>1 DEF b
    <3>. QED BY <1>1, <1>3, <1>4, <1>5, <2>1, <3>1, <3>2, <3>3, <3>4, RoundStep DEF c
  <2>3. CASE turn.keep /\ ~Full(c)
    <3> DEFINE r == [meta[c] EXCEPT !.todo = Append(@, turn.msg)]
    <3> DEFINE m == [meta EXCEPT ![c] = r]
    <3>1. LeaveWith(none, m, wire, up) /\ turn' = NextClient(none, b)
      BY <1>8, <2>3 DEF FanQueue, Leave, none, b
    <3>2. Len(meta[c].todo) < TodoMax
      <4>1. Len(meta[c].todo) \in Nat
        BY <1>7, GoodFields, SetOf
      <4>. QED BY <2>3, <4>1, Caps DEF Full
    <3>3. r \in Good(seq) /\ Sees(r, turn.msg) /\ \A s : Sees(meta[c], s) => Sees(r, s)
      <4> DEFINE k == meta[c]
      <4>1. k \in Good(seq) /\ Len(k.todo) < TodoMax /\ (\A x \in k.handed : x < turn.msg)
            /\ (\A x \in ToSet(k.todo) : x < turn.msg) /\ r = Queued(k, turn.msg)
        BY <1>6, <1>7, <3>2 DEF Queued
      <4> HIDE DEF k, r
      <4>2. /\ Queued(k, turn.msg) \in Good(seq) /\ Sees(Queued(k, turn.msg), turn.msg)
            /\ \A s : Sees(k, s) => Sees(Queued(k, turn.msg), s)
        BY <1>4, <1>6, <4>1, QueuedGood
      <4>. QED BY <4>1, <4>2 DEF k
    <3> HIDE DEF r
    <3>4. m \in [Clients -> Good(seq)] /\ m[c] = r /\ \A d \in Clients \ {c} : m[d] = meta[d]
      BY <1>3, <1>4, <3>3
    <3>5. \A s \in ToSet(strokes) : Sees(m[c], s)
      BY <1>3, <3>3, <3>4
    <3> HIDE DEF m
    <3>6. RoundGoes(none, b) /\ (turn.spent => b)
      BY <1>3, <3>1 DEF b
    <3>. QED BY <1>1, <1>3, <1>4, <1>5, <2>1, <3>1, <3>4, <3>5, <3>6, RoundStep DEF c
  <2>4. CASE turn.keep /\ Full(c)
    <3> DEFINE r == [meta[c] EXCEPT !.todo = Append(@, turn.msg)]
    <3> DEFINE D == {c}
    <3>1. LeaveWith(D, [meta EXCEPT ![c] = r], wire, up) /\ turn' = NextClient(D, b)
      BY <1>8, <2>4 DEF FanQueue, Leave, b
    <3>2. [d \in Clients |-> IF d \in D THEN NoMeta ELSE [meta EXCEPT ![c] = r][d]]
            = [d \in Clients |-> IF d \in D THEN NoMeta ELSE meta[d]]
      <4> HIDE DEF r
      <4>. QED BY <1>4
    <3>3. LeaveWith(D, meta, wire, up)
      BY <3>1, <3>2 DEF LeaveWith
    <3>4. c \in D
      OBVIOUS
    <3> HIDE DEF D
    <3>5. RoundGoes(D, b) /\ (turn.spent => b)
      BY <1>3, <3>1 DEF b
    <3>. QED BY <1>1, <1>3, <1>4, <1>5, <2>1, <3>3, <3>4, <3>5, RoundStep DEF c
  <2>. QED BY <2>2, <2>3, <2>4
<1>9. CASE FanWrite(c)
  <2> DEFINE fs == <<turn.msg>>
  <2>1. meta[c].todo = <<>> /\ meta[c].out = <<>>
    BY <1>9 DEF FanWrite, Behind
  <2>2. fs \in Seq(Nat) /\ Len(fs) = 1 /\ ToSet(fs) = {turn.msg} /\ Sorted(fs)
    BY <1>4 DEF ToSet, Sorted
  <2>3. /\ Len(meta[c].todo) = 0 /\ 1..0 = {} /\ 0 \in 0..Len(meta[c].todo)
        /\ ToSet(SubSeq(meta[c].todo, 0 + 1, Len(meta[c].todo))) = {}
    BY <2>1 DEF ToSet
  <2>4. Deliver(c, fs, 0) /\ (InTime \/ Slow) /\ turn' = NextClient(none, b)
    BY <1>9 DEF FanWrite, none, b
  <2> HIDE DEF fs
  <2>5. RoundGoes(none, b)
    BY <1>3, <2>4
  <2>6. c = Head(turn.rest) /\ RoundGoes({}, turn.spent) /\ Len(fs) <= BatchMax
    BY <2>2, <2>5, Caps DEF c, none, b
  <2>. QED BY <1>1, <1>6, <2>1, <2>2, <2>3, <2>4, <2>6, DeliverStep, ZenonT(40)
<1>10. CASE FanTrouble(c)
  BY <1>1, <1>10, TroubleStep DEF FanTrouble, c
<1>. QED BY <1>1, <1>8, <1>9, <1>10

-----------------------------------------------------------------------------
(* The pump.                                                               *)

\* The first n of a queue in order, and what is left behind them.
LEMMA HeadOfQueue ==
  ASSUME NEW s \in Seq(Nat), Sorted(s), NEW n \in 0..Len(s)
  PROVE  /\ FirstN(s, n) \in Seq(Nat) /\ Len(FirstN(s, n)) = n /\ Sorted(FirstN(s, n))
         /\ ToSet(FirstN(s, n)) \subseteq ToSet(s)
         /\ \A i \in 1..n : s[i] \in ToSet(FirstN(s, n))
         /\ \A x \in ToSet(FirstN(s, n)) : \A y \in ToSet(SubSeq(s, n + 1, Len(s))) : x < y
<1> DEFINE f == FirstN(s, n)
<1>1. Len(s) \in Nat /\ n \in Nat /\ n <= Len(s) /\ \A i \in 1..Len(s) : s[i] \in ToSet(s)
  BY SetOf
<1>2. f \in Seq(Nat) /\ Len(f) = n /\ \A i \in 1..n : f[i] = s[i]
  BY <1>1, FirstNFacts
<1>3. \A i \in 1..n : \A y \in ToSet(SubSeq(s, n + 1, Len(s))) : s[i] < y
  BY SuffixSorted
<1> HIDE DEF f
<1>4. \A y : y \in ToSet(f) <=> \E i \in 1..n : y = f[i]
  BY <1>2, SetOf
<1>5. Sorted(f)
  <2> SUFFICES ASSUME NEW i \in 1..n, NEW j \in 1..n, i < j PROVE f[i] < f[j]
    BY <1>2 DEF Sorted
  <2>1. i \in 1..Len(s) /\ j \in 1..Len(s)
    BY <1>1
  <2>2. s[i] < s[j]
    BY <2>1 DEF Sorted
  <2>. QED BY <1>2, <2>2
<1>6. \A i \in 1..n : i \in 1..Len(s)
  BY <1>1
<1>7. \A y \in ToSet(f) : \E i \in 1..n : y = s[i] /\ y \in ToSet(s)
  BY <1>1, <1>2, <1>4, <1>6
<1>8. \A i \in 1..n : s[i] \in ToSet(f)
  BY <1>2, <1>4
<1>9. \A x \in ToSet(f) : \A y \in ToSet(SubSeq(s, n + 1, Len(s))) : x < y
  BY <1>3, <1>7
<1>. QED BY <1>2, <1>5, <1>7, <1>8, <1>9 DEF f

LEMMA PumpGoes ==
  ASSUME DeliveryInv, turn.phase = "pump", NEW p \in {"inside", "sent"},
         turn' = [turn EXCEPT !.pump = p]
  PROVE  RoundGoes({}, turn.spent)
<1>1. turn \in Turns /\ turn.rest # <<>> /\ NoDups(turn.rest) /\ ToSet(turn.rest) \subseteq ToSet(clients)
  BY DEF DeliveryInv, TypeInv, RoundInv, Rounds
<1>2. /\ turn' \in Turns /\ turn'.phase = "pump" /\ turn'.rest = turn.rest /\ turn'.spent = turn.spent
      /\ turn'.writes = turn.writes /\ turn'.nomem = turn.nomem
  BY <1>1 DEF Turns
<1>. QED BY <1>1, <1>2 DEF RoundGoes, Rounds

LEMMA PumpInv == DeliveryInv /\ PumpAll => DeliveryInv'
<1> SUFFICES ASSUME DeliveryInv, PumpAll PROVE DeliveryInv'
  OBVIOUS
<1> DEFINE c == Head(turn.rest)
<1> DEFINE b == turn.spent
<1> DEFINE none == {}
<1>1. /\ turn.phase = "pump" /\ turn.phase \in Rounds /\ turn.phase \in {"fan", "pump"}
      /\ UNCHANGED <<scene, net, kept>> /\ Pump(c)
  BY DEF PumpAll, Rounds
<1>2. TypeInv
  BY DEF DeliveryInv
<1>3. /\ c \in Clients /\ b \in BOOLEAN
      /\ \A D : turn' = NextClient(D, b) => RoundGoes(D, b)
  <2>1. turn.phase # "read" /\ b \in BOOLEAN
    BY <1>1, <1>2 DEF TypeInv, Turns
  <2> HIDE DEF b
  <2>. QED BY <1>1, <2>1, RoundHead
<1>4. /\ meta \in [Clients -> Good(seq)] /\ seq \in Nat /\ door \in Doors
  BY <1>2 DEF TypeInv
<1>5. strokes' = strokes /\ seq' = seq /\ made' = made /\ scene' = scene /\ net' = net
  BY <1>1 DEF kept
<1> DEFINE todo == meta[c].todo
<1>6. /\ todo \in Seq(Nat) /\ Sorted(todo) /\ Len(todo) \in Nat
      /\ \A x \in ToSet(todo) : x <= seq
  BY <1>3, <1>4, GoodFields, SetOf DEF QueueInv
<1> HIDE DEF c, b, none, todo
<1>7. c = Head(turn.rest) /\ turn.phase # "fan" /\ turn.phase # "read"
  BY <1>1 DEF c
<1>8. ASSUME PassOn, InTime PROVE DeliveryInv'
  <2>1. Stay /\ turn' = NextClient(none, b) /\ door' = door
    BY <1>8 DEF PassOn, InTime, b, none
  <2>2. RoundGoes({}, b) /\ (turn.spent => b)
    BY <1>3, <2>1 DEF none, b
  <2>. QED BY <1>1, <1>3, <1>5, <1>7, <2>1, <2>2, StayStep
<1>9. CASE PumpPass(c)
  BY <1>8, <1>9 DEF PumpPass
<1>10. CASE PumpLeave(c)
  BY <1>8, <1>10 DEF PumpLeave
<1>11. ASSUME NEW p \in {"inside", "sent"},
              turn' = [turn EXCEPT !.pump = p] \/ turn' = NextClient(none, b)
       PROVE  RoundGoes({}, turn.spent)
  BY <1>1, <1>3, <1>11, PumpGoes DEF b, none
<1>12. CASE PumpParked(c)
  <2> DEFINE fs == <<>>
  <2>1. Deliver(c, fs, 0) /\ (InTime \/ Slow)
    BY <1>12 DEF PumpParked
  <2>2. turn' = [turn EXCEPT !.pump = "inside"] \/ turn' = NextClient(none, b)
    BY <1>12 DEF PumpParked, none, b
  <2>3. RoundGoes({}, turn.spent)
    BY <1>11, <2>2
  <2>4. fs \in Seq(Nat) /\ ToSet(fs) = {} /\ fs = <<>> /\ 1..0 = {} /\ 0 \in 0..Len(meta[c].todo)
    BY <1>6 DEF ToSet, todo
  <2> HIDE DEF fs
  <2>. QED BY <1>1, <1>7, <2>1, <2>3, <2>4, DeliverStep
<1>13. CASE PumpBatch(c)
  <2> DEFINE n == Len(FirstN(todo, BatchMax))
  <2> DEFINE fs == FirstN(todo, n)
  <2>1. Deliver(c, fs, n) /\ (InTime \/ Slow) /\ meta[c].out = <<>> /\ meta[c].left = 0
    BY <1>13 DEF PumpBatch, FrameNext, BatchNext, todo
  <2>2. turn' = NextClient(none, b)
    BY <1>13 DEF PumpBatch, none, b
  <2>3. RoundGoes({}, turn.spent)
    BY <1>3, <2>2 DEF none, b
  <2>4. n \in 0..Len(todo) /\ n <= BatchMax
    <3>1. n = IF Len(todo) < BatchMax THEN Len(todo) ELSE BatchMax
      BY <1>6, Caps, FirstNFacts
    <3>. QED BY <1>6, <3>1, Caps
  <2> HIDE DEF n
  <2>5. /\ fs \in Seq(Nat) /\ Len(fs) = n /\ Sorted(fs) /\ ToSet(fs) \subseteq ToSet(todo)
        /\ \A i \in 1..n : todo[i] \in ToSet(fs)
        /\ \A x \in ToSet(fs) : \A y \in ToSet(SubSeq(todo, n + 1, Len(todo))) : x < y
    BY <1>6, <2>4, HeadOfQueue
  <2> HIDE DEF fs
  <2>6. \A x \in ToSet(fs) : x <= seq
    BY <1>6, <2>5
  <2>. QED BY <1>1, <1>7, <2>1, <2>3, <2>4, <2>5, <2>6, DeliverStep DEF todo
<1>14. CASE PumpFrame(c)
  <2> DEFINE fs == <<Head(todo)>>
  <2>1. Deliver(c, fs, 1) /\ (InTime \/ Slow) /\ meta[c].out = <<>> /\ todo # <<>>
    BY <1>14 DEF PumpFrame, FrameNext, todo
  <2>2. turn' = [turn EXCEPT !.pump = "sent"] \/ turn' = NextClient(none, b)
    BY <1>14 DEF PumpFrame, none, b
  <2>3. RoundGoes({}, turn.spent)
    BY <1>11, <2>2
  <2>4. 1 \in 0..Len(todo) /\ Head(todo) = todo[1] /\ Head(todo) \in ToSet(todo) /\ Head(todo) \in Nat
    BY <1>6, <2>1, SetOf
  <2>5. fs \in Seq(Nat) /\ Len(fs) = 1 /\ ToSet(fs) = {Head(todo)} /\ Sorted(fs)
    BY <2>4 DEF ToSet, Sorted
  <2> HIDE DEF fs
  <2>6. \A i \in 1..1 : \A y \in ToSet(SubSeq(todo, 1 + 1, Len(todo))) : todo[i] < y
    BY <1>6, <2>4, SuffixSorted
  <2>7. /\ \A x \in ToSet(fs) : x <= seq
        /\ \A x \in ToSet(fs) : \A y \in ToSet(SubSeq(todo, 1 + 1, Len(todo))) : x < y
        /\ \A i \in 1..1 : todo[i] \in ToSet(fs)
        /\ Len(fs) <= BatchMax
    BY <1>6, <2>4, <2>5, <2>6, Caps
  <2>. QED BY <1>1, <1>7, <2>1, <2>3, <2>4, <2>5, <2>7, DeliverStep DEF todo
<1>15. CASE PumpSlowReplay(c)
  <2>1. SendFails({c}, Bad(door), {b, TRUE})
    BY <1>15 DEF PumpSlowReplay, b
  <2>2. Bad(door) \in Doors /\ (Bad(door) = "sealed" => door = "sealed")
    BY <1>4, BadDoor
  <2>3. {b, TRUE} \in SUBSET BOOLEAN /\ (\A x \in {b, TRUE} : turn.spent => x) /\ c \in {c}
    BY <1>3 DEF b
  <2>. QED BY <1>1, <1>7, <2>1, <2>2, <2>3, Trouble
<1>16. CASE PumpTrouble(c)
  BY <1>1, <1>7, <1>16, TroubleStep DEF PumpTrouble
<1>. QED BY <1>1, <1>9, <1>10, <1>12, <1>13, <1>14, <1>15, <1>16 DEF Pump

-----------------------------------------------------------------------------
(* The reads.                                                              *)

\* A client that said hello, its queue trimmed to t.
Heard(m, a, t, u) ==
  [m EXCEPT !.state = "LIVE", !.hb = TRUE, !.ack = a, !.todo = t,
            !.left = IF @ > Len(t) THEN Len(t) ELSE @, !.unconf = @ \ u]

LEMMA HeardGood ==
  ASSUME NEW q \in Nat, NEW m \in Good(q), NEW a \in Nat, a >= m.ack, NEW u,
         NEW t \in Seq(Nat), Sorted(t), Len(t) <= Len(m.todo), ToSet(t) \subseteq ToSet(m.todo),
         \A s \in ToSet(m.todo) : s \in ToSet(t) \/ s <= a
  PROVE  Heard(m, a, t, u) \in Good(q) /\ \A s \in Nat : Sees(m, s) => Sees(Heard(m, a, t, u), s)
<1> DEFINE left == IF m.left > Len(t) THEN Len(t) ELSE m.left
<1> DEFINE unconf == m.unconf \ u
<1> DEFINE r == Heard(m, a, t, u)
<1>1. /\ m.todo \in Seq(Nat) /\ m.left \in Nat /\ m.ack \in Nat /\ m.unconf \subseteq Nat
      /\ m \in Metas /\ QueueInv(m) /\ Len(m.todo) \in Nat /\ Len(t) \in Nat
  BY GoodFields, SetOf
<1>2. (Len(t) <= TodoMax \/ Len(t) = left) /\ left <= Len(t) /\ left \in Nat
  <2> DEFINE was == m.left
  <2> DEFINE len == Len(m.todo)
  <2> DEFINE n == Len(t)
  <2>1. /\ was \in Nat /\ len \in Nat /\ n \in Nat /\ n <= len /\ was <= len
        /\ len <= TodoMax \/ len = was
    BY <1>1 DEF QueueInv
  <2>2. left = IF was > n THEN n ELSE was
    OBVIOUS
  <2> HIDE DEF was, len, n, left
  <2>3. (n <= TodoMax \/ n = left) /\ left <= n /\ left \in Nat
    BY <2>1, <2>2, Caps
  <2>. QED BY <2>3 DEF n
<1>3. unconf \subseteq Nat
  BY <1>1
<1>4. r = [m EXCEPT !.state = "LIVE", !.hb = TRUE, !.ack = a, !.todo = t, !.left = left, !.unconf = unconf]
  BY DEF Heard
<1> HIDE DEF left, unconf, r
<1>5. r \in Metas
  BY <1>1, <1>2, <1>3, <1>4 DEF Metas
<1>6. r.todo = t /\ r.out = m.out /\ r.left = left /\ r.handed = m.handed /\ r.ack = a /\ (m.bare => r.bare)
  BY <1>1, <1>4 DEF Metas
<1>7. QueueInv(r)
  BY <1>1, <1>2, <1>6 DEF QueueInv
<1>8. (\A x \in r.handed : x <= q) /\ \A x \in ToSet(r.todo) : x <= q
  BY <1>6, GoodFields
<1>9. ASSUME NEW s \in Nat, Sees(m, s) PROVE Sees(r, s)
  <2>1. s <= m.ack => s <= a
    BY <1>1
  <2>. QED BY <1>6, <1>9, <2>1 DEF Sees
<1>. QED BY <1>5, <1>7, <1>8, <1>9 DEF Good, r

\* Whoever leaves while it is read: the rounds go on without it.
LEMMA ReadGoes ==
  ASSUME DeliveryInv, turn.phase = "read", ~turn.spent, NEW b \in BOOLEAN, turn' = NextClient({}, b)
  PROVE  RoundGoes({Head(turn.rest)}, b)
<1> DEFINE c == Head(turn.rest)
<1>1. turn.phase \in Rounds /\ turn.rest \in Seq(Clients) /\ turn.rest # <<>> /\ NoDups(turn.rest)
  BY DEF DeliveryInv, TypeInv, RoundInv, Turns, Rounds
<1>2. ToSet(Later(turn.rest)) = ToSet(turn.rest) \ {c}
  BY <1>1, LaterFacts
<1>3. Without(Later(turn.rest), {}) = Without(Later(turn.rest), {c})
  <2>1. ToSet(Later(turn.rest)) \ {} = ToSet(Later(turn.rest)) \ {c}
    BY <1>2
  <2>. QED BY <2>1 DEF Without
<1>4. turn.phase # "pump"
  OBVIOUS
<1> HIDE DEF c
<1>5. NextClient({}, b) = NextClient({c}, b)
  BY <1>3, <1>4 DEF NextClient
<1>. QED BY <1>1, <1>5, RoundHead DEF c

\* A client is heard, by a hello or by a ping.
LEMMA HearStep ==
  ASSUME DeliveryInv, turn.phase = "read", ~turn.spent, NEW c, c = Head(turn.rest),
         NEW n \in {0} \cup Truthful, NEW old, Hear(c, n, old),
         NEW b \in BOOLEAN, turn' = NextClient(old, b),
         door' \in Doors, door' = "sealed" => door = "sealed", refused' = refused,
         scene' = scene, net' = net, strokes' = strokes, seq' = seq, made' = made
  PROVE  DeliveryInv'
<1> DEFINE k == meta[c]
<1> DEFINE ack == IF n > k.ack THEN n ELSE k.ack
<1> DEFINE todo == IF n = 0 THEN k.todo ELSE Without(k.todo, {s \in ToSet(strokes) : s <= ack})
<1> DEFINE r == Heard(k, ack, todo, Sure(c))
<1> DEFINE m == [meta EXCEPT ![c] = r]
<1> DEFINE hi == [up EXCEPT ![c] = FALSE]
<1>1. /\ turn.phase \in Rounds /\ meta \in [Clients -> Good(seq)] /\ seq \in Nat
      /\ made \subseteq Nat /\ strokes \in Seq(Nat) /\ wire \in [Clients -> Wires]
      /\ refused' \subseteq Clients
  BY DEF DeliveryInv, TypeInv, Turns, Rounds
<1>2. c \in Clients /\ c \in ToSet(clients)
  BY <1>1, RoundHead
<1>3. LeaveWith(old, m, wire, hi)
  BY DEF Hear, Heard
<1> HIDE DEF hi, r
<1>4. RoundGoes(old, b)
  BY <1>1, RoundHead
<1>5. k \in Good(seq)
  BY <1>1, <1>2
<1> HIDE DEF k
<1>6. k.todo \in Seq(Nat) /\ k.ack \in Nat /\ QueueInv(k)
  BY <1>1, <1>5, GoodFields
<1>7. n \in Nat
  BY <1>1 DEF Truthful
<1>8. ack \in Nat /\ ack >= k.ack
  BY <1>6, <1>7
<1> HIDE DEF ack
<1>9. /\ todo \in Seq(Nat) /\ Sorted(todo) /\ Len(todo) <= Len(k.todo)
      /\ ToSet(todo) \subseteq ToSet(k.todo)
      /\ \A s \in ToSet(k.todo) : s \in ToSet(todo) \/ s <= ack
  <2>1. CASE n = 0
    BY <1>6, <2>1, SetOf DEF QueueInv
  <2>2. CASE n # 0
    <3> DEFINE D == {s \in ToSet(strokes) : s <= ack}
    <3>1. todo = Without(k.todo, D) /\ (\A s \in D : s <= ack)
      BY <2>2
    <3> HIDE DEF D, todo
    <3>2. Sorted(k.todo)
      BY <1>6 DEF QueueInv
    <3>3. Sorted(Without(k.todo, D))
      BY <1>6, <3>2, KeepingSorted DEF Without
    <3>4. /\ Without(k.todo, D) \in Seq(Nat) /\ Len(Without(k.todo, D)) <= Len(k.todo)
          /\ ToSet(Without(k.todo, D)) = ToSet(k.todo) \ D
      BY <1>6, WithoutFacts
    <3>. QED BY <3>1, <3>3, <3>4
  <2>. QED BY <2>1, <2>2
<1> HIDE DEF todo
<1>10. r \in Good(seq) /\ \A s \in Nat : Sees(k, s) => Sees(r, s)
  BY <1>1, <1>5, <1>8, <1>9, HeardGood DEF r
<1>11. m \in [Clients -> Good(seq)] /\ m[c] = r /\ \A d \in Clients \ {c} : m[d] = meta[d]
  BY <1>1, <1>2, <1>10
<1> HIDE DEF m
<1>12. \A s \in ToSet(strokes) : Sees(m[c], s)
  <2>1. \A s \in ToSet(strokes) : Sees(k, s) /\ s \in Nat
    BY <1>1, RoundHead, SetOf DEF k
  <2>. QED BY <1>10, <1>11, <2>1
<1>. QED BY <1>1, <1>2, <1>3, <1>4, <1>11, <1>12, RoundStep

LEMMA CalmStep ==
  ASSUME DeliveryInv, turn.phase # "fan", turn' \in Turns, net' \in Nets, door' \in Doors,
         scene' = scene, clients' = clients, fresh' = fresh, refused' = refused, meta' = meta,
         strokes' = strokes, seq' = seq, made' = made, wire' \in [Clients -> Wires],
         \A c \in Clients : sock[c] # "none" => sock'[c] # "none",
         FreshInv', RoundInv', SealInv'
  PROVE  DeliveryInv'
<1>1. TypeInv /\ KeptInv /\ ClientsInv /\ NoStrokeForgotten
  BY DEF DeliveryInv
<1>2. TypeInv' /\ KeptInv'
  BY <1>1 DEF TypeInv, KeptInv
<1>3. ToSet(clients) \subseteq Clients
  BY <1>1, SetOf DEF TypeInv
<1>4. ClientsInv'
  BY <1>1, <1>3 DEF ClientsInv
<1>5. NoStrokeForgotten'
  BY <1>1 DEF NoStrokeForgotten, Coming
<1>. QED BY <1>2, <1>4, <1>5 DEF DeliveryInv

\* A read that changes no client's record.
LEMMA QuietStep ==
  ASSUME DeliveryInv, turn.phase = "read", ~turn.spent, NEW b \in BOOLEAN, RoundGoes({}, b),
         scene' = scene, net' = net, strokes' = strokes, seq' = seq, made' = made, refused' = refused,
         clients' = clients, fresh' = fresh, meta' = meta, wire' = wire,
         door' \in Doors, door' = "sealed" => door = "sealed",
         \A c \in Clients : sock[c] # "none" => sock'[c] # "none"
  PROVE  DeliveryInv'
<1>1. TypeInv /\ SealInv /\ fresh = {} /\ clients \in Seq(Clients)
  BY DEF DeliveryInv, FreshInv, TypeInv
<1>2. turn' \in Turns /\ turn'.phase \in {"idle", "read"}
  BY DEF RoundGoes, Rounds
<1>3. net' \in Nets /\ wire' \in [Clients -> Wires]
  BY <1>1 DEF TypeInv
<1>4. FreshInv' /\ RoundInv'
  BY <1>1, <1>2 DEF FreshInv, RoundInv, RoundGoes, Rounds
<1>5. SealInv'
  BY <1>1, <1>2 DEF SealInv, RoundGoes
<1>. QED BY <1>2, <1>3, <1>4, <1>5, CalmStep

LEMMA ReadInv == DeliveryInv /\ ReadAll => DeliveryInv'
<1> SUFFICES ASSUME DeliveryInv, ReadAll PROVE DeliveryInv'
  OBVIOUS
<1> DEFINE c == Head(turn.rest)
<1> DEFINE b == turn.spent
<1> DEFINE none == {}
<1> DEFINE self == {c}
<1>1. /\ turn.phase = "read" /\ ~turn.spent /\ turn.phase \in Rounds /\ refused' = refused /\ Read(c)
      /\ scene' = scene /\ net' = net /\ strokes' = strokes /\ seq' = seq /\ made' = made
  BY DEF ReadAll, Rounds
<1>2. /\ meta \in [Clients -> Good(seq)] /\ seq \in Nat /\ wire \in [Clients -> Wires]
      /\ refused \subseteq Clients /\ door \in Doors /\ b \in BOOLEAN
  BY DEF DeliveryInv, TypeInv, Turns
<1>3. /\ c \in Clients /\ \A s \in ToSet(strokes) : Sees(meta[c], s)
  BY <1>1, RoundHead
<1>4. turn' = NextClient(none, b) => RoundGoes(none, b) /\ RoundGoes(self, b)
  BY <1>1, <1>2, RoundHead, ReadGoes
<1>5. (turn.spent => b) /\ c \in self
  OBVIOUS
<1> HIDE DEF b, none, self
<1>6. ASSUME Leave(self, meta, wire), turn' = NextClient(none, b), door' = door PROVE DeliveryInv'
  <2>1. LeaveWith(self, meta, wire, up) /\ RoundGoes(self, b)
    BY <1>4, <1>6 DEF Leave
  <2> HIDE DEF c
  <2>2. c = Head(turn.rest)
    BY DEF c
  <2>. QED BY <1>1, <1>2, <1>3, <1>5, <1>6, <2>1, <2>2, RoundStep
<1>7. CASE \E n \in {0} \cup Truthful : ReadHello(c, n)
  <2>1. PICK n \in {0} \cup Truthful :
          \E old : Hear(c, n, old) /\ turn' = NextClient(old, b) /\ door' = door
    BY <1>7 DEF ReadHello, ReadsOn, InTime, b
  <2>2. c = Head(turn.rest)
    OBVIOUS
  <2> HIDE DEF c
  <2>. QED BY <1>1, <1>2, <2>1, <2>2, HearStep
<1>8. CASE ReadNothing(c)
  <2>1. Stay /\ turn' = NextClient(none, b) /\ door' = door
    BY <1>8 DEF ReadNothing, PassOn, InTime, none, b
  <2>2. RoundGoes({}, b)
    BY <1>4, <2>1 DEF none
  <2>. QED BY <1>1, <1>2, <1>5, <2>1, <2>2, StayStep
<1>9. CASE ReadGone(c)
  BY <1>6, <1>9 DEF ReadGone, ReadsOn, InTime, none, self, b
<1>10. CASE ReadFails(c)
  BY <1>6, <1>10 DEF ReadFails, ReadsOn, none, self, b
<1>11. CASE ReadSilent(c)
  BY <1>6, <1>11 DEF ReadSilent, Unheard, ReadsOn, none, self, b
<1>12. CASE ReadQuiet(c)
  <2> DEFINE r == [meta[c] EXCEPT !.state = "LAGGING"]
  <2> DEFINE m == [meta EXCEPT ![c] = r]
  <2>1. turn' = NextClient(none, b) /\ door' = door
        /\ (LeaveWith(none, m, wire, up) \/ LeaveWith(self, m, wire, up))
    BY <1>12 DEF ReadQuiet, Unheard, ReadsOn, Leave, none, self, b
  <2>2. meta[c] \in Good(seq)
    BY <1>2, <1>3
  <2>3. meta[c] \in Metas
    BY <1>2, <2>2, GoodFields
  <2>4. /\ r \in Metas /\ r.todo = meta[c].todo /\ r.out = meta[c].out /\ r.left = meta[c].left
        /\ r.handed = meta[c].handed /\ r.ack = meta[c].ack /\ (meta[c].bare => r.bare)
    BY <2>3 DEF Metas
  <2> HIDE DEF r
  <2>5. r \in Good(seq)
    BY <2>2, <2>4 DEF Good, QueueInv
  <2>6. m \in [Clients -> Good(seq)] /\ m[c] = r /\ \A d \in Clients \ {c} : m[d] = meta[d]
    BY <1>2, <1>3, <2>5
  <2>7. \A s \in ToSet(strokes) : Sees(m[c], s)
    BY <1>3, <2>4, <2>6 DEF Sees
  <2>8. c = Head(turn.rest)
    BY DEF c
  <2>9. RoundGoes(none, b) /\ RoundGoes(self, b)
    BY <1>4, <2>1
  <2> HIDE DEF m, c
  <2>10. CASE LeaveWith(none, m, wire, up)
    BY <1>1, <1>2, <1>3, <1>5, <2>1, <2>6, <2>7, <2>8, <2>9, <2>10, RoundStep
  <2>11. CASE LeaveWith(self, m, wire, up)
    BY <1>1, <1>2, <1>3, <1>5, <2>1, <2>6, <2>7, <2>8, <2>9, <2>11, RoundStep
  <2>. QED BY <2>1, <2>10, <2>11
<1>13. CASE ReadClosed(c)
  BY <1>6, <1>13 DEF ReadClosed, ReadsOn, none, self, b
<1>14. CASE ReadPing(c)
  <2>1. Bad(door) \in Doors /\ (Bad(door) = "sealed" => door = "sealed")
    BY <1>2, BadDoor
  <2>2. c = Head(turn.rest) /\ 0 \in {0} \cup Truthful
    OBVIOUS
  <2>3. CASE /\ Hear(c, 0, none) \/ Stay
             /\ door' \in {door, Bad(door)} /\ \E d \in BOOLEAN : turn' = NextClient(none, d)
    <3>1. PICK d \in BOOLEAN : turn' = NextClient(none, d)
      BY <2>3
    <3>2. door' \in Doors /\ (door' = "sealed" => door = "sealed")
      BY <1>2, <2>1, <2>3
    <3>3. RoundGoes(none, d)
      BY <1>1, <3>1, RoundHead
    <3> HIDE DEF c
    <3>4. CASE Hear(c, 0, none)
      BY <1>1, <2>2, <3>1, <3>2, <3>4, HearStep
    <3>5. CASE Stay
      <4>1. /\ meta' = meta /\ clients' = clients /\ fresh' = fresh /\ refused' = refused
            /\ UNCHANGED <<wire, sock, up>>
        BY <3>5 DEF Stay, farm, pipes
      <4>. QED BY <1>1, <3>2, <3>3, <4>1, QuietStep DEF none
    <3>. QED BY <2>3, <3>4, <3>5
  <2>4. CASE /\ UNCHANGED <<farm, wire, up>> /\ sock' = [sock EXCEPT ![c] = "dead"]
             /\ door' = door /\ turn' = NextClient(none, b)
    <3>1. RoundGoes(none, b)
      BY <1>4, <2>4
    <3>2. \A d \in Clients : sock[d] # "none" => sock'[d] # "none"
      BY <2>4
    <3>. QED BY <1>1, <1>2, <2>4, <3>1, <3>2, QuietStep DEF none, farm
  <2>6. ReadsOn({}) => \E d \in BOOLEAN : turn' = NextClient(none, d)
    BY <1>2 DEF ReadsOn, none, b
  <2>7. (Hear(c, 0, {}) \/ Stay) /\ ((InTime /\ ReadsOn({})) \/ (Slow /\ \E d \in BOOLEAN : turn' = NextClient({}, d)))
          => DeliveryInv'
    <3> HIDE DEF c
    <3>. QED BY <2>3, <2>6 DEF InTime, Slow, none
  <2>8. ReadsOn({}) <=> turn' = NextClient(none, b)
    BY DEF ReadsOn, none, b
  <2> HIDE DEF c
  <2>9. ASSUME UNCHANGED <<farm, wire, up>>, sock' = [sock EXCEPT ![c] = "dead"], door' = door, ReadsOn({})
        PROVE  DeliveryInv'
    BY <2>4, <2>8, <2>9
  <2>. QED BY <1>14, <2>7, <2>9 DEF ReadPing
<1>. QED BY <1>1, <1>7, <1>8, <1>9, <1>10, <1>11, <1>12, <1>13, <1>14 DEF Read

-----------------------------------------------------------------------------
(* Steps that leave the clients as they are.                               *)

LEMMA IdleTurn == Idle \in Turns /\ Idle.phase = "idle" /\ ~Idle.writes /\ ~Idle.nomem
BY DEF Idle, Turns, Rounds

LEMMA PollEndInv == DeliveryInv /\ PollEnd => DeliveryInv'
<1> SUFFICES ASSUME DeliveryInv, PollEnd PROVE DeliveryInv'
  OBVIOUS
<1>1. /\ turn.phase = "read" /\ turn' = Idle /\ door' \in {door, Bad(door)}
      /\ Stay /\ UNCHANGED <<scene, net, kept>>
  BY DEF PollEnd
<1>2. TypeInv /\ fresh = {}
  BY <1>1 DEF DeliveryInv, FreshInv
<1>3. door' \in Doors
  BY <1>1, <1>2, BadDoor DEF TypeInv
<1>4. FreshInv' /\ RoundInv' /\ SealInv'
  BY <1>1, <1>2, IdleTurn DEF FreshInv, RoundInv, SealInv, Rounds, Stay, farm
<1>. QED BY <1>1, <1>2, <1>3, <1>4, IdleTurn, CalmStep DEF Stay, farm, pipes, kept, TypeInv

LEMMA PollBeginInv == ASSUME DeliveryInv, NEW state \in {"QUIET", "RINGING"}, PollBegin(state)
                      PROVE  DeliveryInv'
<1> DEFINE n == [net EXCEPT !.state = state]
<1>1. /\ turn.phase = "idle" /\ net' = n /\ door' = door
      /\ turn' = [Idle EXCEPT !.phase = IF Allowed(n) THEN "server" ELSE "admit",
                              !.writes = Allowed(n)]
      /\ Stay /\ UNCHANGED <<scene, kept>>
  BY DEF PollBegin, InTime
<1>2. TypeInv /\ fresh = {}
  BY <1>1 DEF DeliveryInv, FreshInv
<1>3. n \in Nets
  BY <1>2 DEF TypeInv, Nets
<1> DEFINE b == Allowed(n)
<1>4. b \in BOOLEAN /\ (b => door # "sealed")
  BY DEF Allowed, NetWrites
<1> HIDE DEF b
<1>5. turn' = [Idle EXCEPT !.phase = IF b THEN "server" ELSE "admit", !.writes = b]
  BY <1>1 DEF b
<1>6. turn' \in Turns /\ turn'.phase = (IF b THEN "server" ELSE "admit") /\ turn'.writes = b
  BY <1>4, <1>5, IdleTurn DEF Turns
<1>7. FreshInv' /\ RoundInv' /\ SealInv'
  BY <1>1, <1>2, <1>4, <1>6 DEF FreshInv, RoundInv, SealInv, Rounds, Stay, farm
<1>. QED BY <1>1, <1>2, <1>3, <1>6, <1>7, CalmStep DEF Stay, farm, pipes, kept, TypeInv

\* What happens between turns without the Pico.
LEMMA PeersInv == DeliveryInv /\ (Peers \/ Reopen) => DeliveryInv'
<1> SUFFICES ASSUME DeliveryInv, Peers \/ Reopen PROVE DeliveryInv'
  OBVIOUS
<1>1. /\ TypeInv /\ turn.phase = "idle" /\ turn' = turn /\ net' = net /\ scene' = scene
      /\ UNCHANGED <<farm, kept>> /\ fresh = {}
  BY DEF Peers, Reopen, PeerReads, PeerHellos, PeerDies, Between, DeliveryInv, FreshInv
<1>2. door' \in Doors /\ (door' = door \/ door' = "open")
  BY <1>1 DEF Peers, Reopen, PeerReads, PeerHellos, PeerDies, TypeInv, Doors
<1>3. wire' \in [Clients -> Wires]
  <2>1. CASE \E c \in Clients : PeerReads(c)
    <3>1. PICK c \in Clients : wire[c] # <<>> /\ wire' = [wire EXCEPT ![c] = Later(@)]
      BY <2>1 DEF PeerReads
    <3>2. wire[c] \in Seq(Nat) /\ Len(wire[c]) \in Nat \ {0} /\ Len(wire[c]) <= MaxWire
      BY <1>1, <3>1, SetOf DEF TypeInv, Wires
    <3>3. Later(wire[c]) \in Seq(Nat) /\ Len(Later(wire[c])) = Len(wire[c]) - 1
      <4>1. 1 \in 0..Len(wire[c]) /\ Later(wire[c]) = SubSeq(wire[c], 1 + 1, Len(wire[c]))
        BY <3>2 DEF Later
      <4>. QED BY <3>2, <4>1, SuffixFacts, SMTT(30)
    <3>4. Later(wire[c]) \in Wires
      BY <3>2, <3>3, Caps DEF Wires
    <3>. QED BY <1>1, <3>1, <3>4 DEF TypeInv
  <2>2. CASE ~\E c \in Clients : PeerReads(c)
    <3>1. wire' = wire
      BY <2>2 DEF Peers, Reopen, PeerHellos, PeerDies, pipes
    <3>. QED BY <1>1, <3>1 DEF TypeInv
  <2>. QED BY <2>1, <2>2
<1>4. \A c \in Clients : sock[c] # "none" => sock'[c] # "none"
  <2>1. CASE \E c \in Clients : PeerDies(c)
    <3>1. PICK c \in Clients : sock' = [sock EXCEPT ![c] = "dead"]
      BY <2>1 DEF PeerDies
    <3>2. \A d \in Clients : sock'[d] = sock[d] \/ sock'[d] = "dead"
      BY <3>1
    <3>. QED BY <3>2
  <2>2. CASE ~\E c \in Clients : PeerDies(c)
    BY <2>2 DEF Peers, Reopen, PeerReads, PeerHellos, pipes
  <2>. QED BY <2>1, <2>2
<1>5. FreshInv' /\ RoundInv' /\ SealInv'
  BY <1>1 DEF FreshInv, RoundInv, SealInv, Rounds, farm
<1>. QED BY <1>1, <1>2, <1>3, <1>4, <1>5, CalmStep DEF farm, kept, TypeInv

-----------------------------------------------------------------------------
(* Accepting, refusing, and the beginning of a replay.                     *)

\* The clients and the fresh one among them after a poll answered the server.
Seated ==
  /\ clients' \in Seq(Clients) /\ NoDups(clients')
  /\ meta' \in [Clients -> Good(seq)] /\ wire' \in [Clients -> Wires]
  /\ fresh' \subseteq Clients /\ refused' \subseteq Clients
  /\ \A c \in ToSet(clients') : sock'[c] # "none"
  /\ \A c \in fresh' : fresh' = {c} /\ meta'[c].handed = {}
  /\ \A c \in ToSet(clients') \ fresh' : c \in ToSet(clients) \ fresh /\ meta'[c] = meta[c]

LEMMA NobodyComes ==
  ASSUME DeliveryInv, NEW D, LeaveWith(D, meta, wire, up), refused' \subseteq Clients
  PROVE  Seated
<1>1. TypeInv /\ ClientsInv /\ FreshInv
  BY DEF DeliveryInv
<1>2. /\ clients \in Seq(Clients) /\ NoDups(clients) /\ seq \in Nat /\ meta \in [Clients -> Good(seq)]
      /\ wire \in [Clients -> Wires]
  BY <1>1 DEF TypeInv, ClientsInv
<1>3. /\ clients' \in Seq(Clients) /\ ToSet(clients') = ToSet(clients) \ D
      /\ NoDups(clients) => NoDups(clients')
      /\ fresh' = fresh \ D
      /\ meta' \in [Clients -> Good(seq)] /\ \A c \in Clients \ D : meta'[c] = meta[c]
      /\ wire' \in [Clients -> Wires]
      /\ \A c \in Clients \ D : sock'[c] = sock[c]
  BY <1>2, LeaveFacts, Zenon
<1>4. ToSet(clients') \subseteq Clients \ D
  BY <1>2, <1>3, SetOf
<1>5. fresh \subseteq Clients
  BY <1>1 DEF TypeInv
<1>6. \A c \in fresh' : fresh' = {c} /\ meta'[c].handed = {}
  BY <1>1, <1>3, <1>5 DEF FreshInv
<1>. QED BY <1>1, <1>2, <1>3, <1>4, <1>5, <1>6 DEF Seated, ClientsInv

LEMMA SomebodyComes ==
  ASSUME DeliveryInv, turn.phase = "server", NEW D, D \subseteq ToSet(clients),
         NEW c \in Clients, Accept(c, D)
  PROVE  Seated
<1> DEFINE room == Len(clients) < scene.room
<1> DEFINE new == [NoMeta EXCEPT !.state = "NEW"]
<1> DEFINE joined == IF room THEN [meta EXCEPT ![c] = new] ELSE meta
<1> DEFINE kin == Without(clients, D)
<1> DEFINE seat == IF room THEN {c} ELSE {}
<1>1. /\ TypeInv /\ ClientsInv /\ fresh = {}
  BY DEF DeliveryInv, FreshInv
<1>2. /\ clients \in Seq(Clients) /\ NoDups(clients) /\ seq \in Nat /\ meta \in [Clients -> Good(seq)]
      /\ wire \in [Clients -> Wires] /\ refused \subseteq Clients /\ ToSet(clients) \subseteq Clients
      /\ \A d \in ToSet(clients) : sock[d] # "none"
  BY <1>1, SetOf DEF TypeInv, ClientsInv
<1>3. /\ sock[c] = "none" /\ clients' = kin \o (IF room THEN <<c>> ELSE <<>>)
      /\ fresh' = (fresh \ D) \cup seat /\ refused' = refused \cup (IF room THEN {} ELSE {c})
      /\ meta' = [d \in Clients |-> IF d \in D THEN NoMeta ELSE joined[d]]
      /\ sock' = [d \in Clients |-> IF d \in D THEN "none" ELSE IF d = c THEN "open" ELSE sock[d]]
      /\ wire' = [d \in Clients |-> IF d \in D THEN <<>> ELSE wire[d]]
  BY DEF Accept
<1>4. c \notin ToSet(clients) /\ c \notin D
  BY <1>2, <1>3
<1>5. kin \in Seq(Clients) /\ NoDups(kin) /\ ToSet(kin) = ToSet(clients) \ D
  BY <1>2, WithoutFacts
<1> HIDE DEF kin
<1>6. /\ clients' \in Seq(Clients) /\ NoDups(clients')
      /\ ToSet(clients') = ToSet(kin) \cup seat
  <2>1. CASE room
    <3>1. clients' = Append(kin, c)
      BY <1>3, <1>5, <2>1
    <3>2. c \notin ToSet(kin)
      BY <1>4, <1>5
    <3>. QED BY <1>5, <2>1, <3>1, <3>2, AppendFacts, AppendNoDups
  <2>2. CASE ~room
    <3>1. clients' = kin
      BY <1>3, <1>5, <2>2, ConcatEmptySeq
    <3>. QED BY <1>5, <2>2, <3>1
  <2>. QED BY <2>1, <2>2
<1>7. NoMeta \in Good(seq) /\ new \in Good(seq) /\ new.handed = {}
  BY <1>2, NewGood DEF NoMeta
<1> HIDE DEF new
<1>8. joined \in [Clients -> Good(seq)] /\ (\A d \in Clients \ seat : joined[d] = meta[d])
      /\ (room => joined[c] = new)
  BY <1>2, <1>7
<1> HIDE DEF joined
<1>9. meta' \in [Clients -> Good(seq)] /\ \A d \in Clients \ D : meta'[d] = joined[d]
  BY <1>3, <1>7, <1>8
<1>10. <<>> \in Wires
  BY Caps DEF Wires
<1>11. wire' \in [Clients -> Wires]
  BY <1>2, <1>3, <1>10
<1>12. \A d \in ToSet(clients') : sock'[d] # "none"
  BY <1>2, <1>3, <1>4, <1>5, <1>6
<1>13. fresh' = seat /\ seat \subseteq {c}
  BY <1>1, <1>3
<1>14. \A d \in fresh' : fresh' = {d} /\ meta'[d].handed = {}
  BY <1>4, <1>7, <1>8, <1>9, <1>13
<1>15. \A d \in ToSet(clients') \ fresh' : d \in ToSet(clients) \ fresh /\ meta'[d] = meta[d]
  BY <1>1, <1>2, <1>5, <1>6, <1>8, <1>9, <1>13
<1>16. refused' \subseteq Clients /\ fresh' \subseteq Clients
  BY <1>2, <1>3, <1>13
<1> HIDE DEF room
<1>. QED BY <1>6, <1>9, <1>11, <1>12, <1>14, <1>15, <1>16 DEF Seated

\* A turn that serves nobody in a round.
LEMMA SeatedStep ==
  ASSUME DeliveryInv, turn.phase # "fan", Seated, turn' \in Turns, turn'.phase \notin Rounds,
         fresh' = {} \/ turn'.phase = "admit", door' \in Doors,
         scene' = scene, net' = net, strokes' = strokes, seq' = seq, made' = made,
         SealInv'
  PROVE  DeliveryInv'
<1>1. TypeInv /\ KeptInv /\ NoStrokeForgotten
  BY DEF DeliveryInv
<1>2. TypeInv' /\ KeptInv'
  BY <1>1 DEF TypeInv, KeptInv, Seated
<1>3. ClientsInv' /\ FreshInv'
  BY DEF ClientsInv, FreshInv, Seated
<1>4. RoundInv'
  BY DEF RoundInv, Rounds
<1>5. NoStrokeForgotten'
  BY <1>1 DEF NoStrokeForgotten, Coming, Seated
<1>. QED BY <1>2, <1>3, <1>4, <1>5 DEF DeliveryInv

LEMMA ServeInv == DeliveryInv /\ Serve => DeliveryInv'
<1> SUFFICES ASSUME DeliveryInv, Serve PROVE DeliveryInv'
  OBVIOUS
<1>1. /\ turn.phase = "server" /\ UNCHANGED <<scene, net, kept>> /\ TypeInv /\ door # "sealed"
      /\ turn \in Turns /\ door \in Doors
  BY DEF Serve, DeliveryInv, SealInv, TypeInv
<1>2. Bad(door) \in Doors /\ Bad(door) # "sealed" /\ "sealed" \in Doors
  BY <1>1, BadDoor DEF Doors
<1>3. Lagging \subseteq ToSet(clients)
  BY DEF Lagging
<1>4. ASSUME NEW D, D \subseteq ToSet(clients), AcceptNobody(D) \/ Answer(D) PROVE Seated
  <2>1. CASE AcceptNobody(D)
    <3>1. LeaveWith(D, meta, wire, up) /\ refused' \subseteq Clients
      BY <1>1, <2>1 DEF AcceptNobody, Leave, TypeInv
    <3>. QED BY <1>1, <3>1, NobodyComes
  <2>2. CASE \E c \in Clients : Accept(c, D)
    BY <1>1, <1>4, <2>2, SomebodyComes
  <2>. QED BY <1>4, <2>1, <2>2 DEF Answer
<1>5. /\ Admit \in Turns /\ Admit.phase = "admit"
      /\ \A b \in BOOLEAN : LET t == [Admit EXCEPT !.spent = b]
                            IN  t \in Turns /\ t.phase = "admit" /\ t.spent = b
      /\ LET t == [Admit EXCEPT !.nomem = TRUE]
         IN  t \in Turns /\ t.phase = "admit" /\ t.nomem
  BY <1>1 DEF Admit, Turns
<1> DEFINE none == {}
<1>6. none \subseteq ToSet(clients)
  OBVIOUS
<1> HIDE DEF none
<1>7. /\ Seated /\ turn' \in Turns /\ turn'.phase = "admit" /\ door' \in Doors
      /\ door' = "sealed" => turn'.spent \/ turn'.nomem
  <2>1. CASE ServeNothing
    <3>1. AcceptNobody(none) /\ door' = door /\ turn' = Admit
      BY <2>1 DEF ServeNothing, InTime, none
    <3>. QED BY <1>1, <1>4, <1>5, <1>6, <3>1
  <2>2. CASE ServeOne
    <3>1. Answer(none) /\ door' = door /\ turn' = Admit
      BY <2>2 DEF ServeOne, InTime, none
    <3>. QED BY <1>1, <1>4, <1>5, <1>6, <3>1
  <2>3. CASE ServeSlow
    <3>1. Answer(none) /\ door' = Bad(door) /\ \E b \in BOOLEAN : turn' = [Admit EXCEPT !.spent = b]
      BY <2>3 DEF ServeSlow, none
    <3>. QED BY <1>2, <1>4, <1>5, <1>6, <3>1
  <2>4. CASE ServeStarved
    <3>1. Answer(Lagging) /\ door' = "sealed" /\ turn' = [Admit EXCEPT !.spent = TRUE]
      BY <2>4 DEF ServeStarved
    <3>. QED BY <1>2, <1>3, <1>4, <1>5, <3>1
  <2>5. CASE ServeNoMemory
    <3>1. AcceptNobody(none) /\ door' = "sealed" /\ turn' = [Admit EXCEPT !.nomem = TRUE]
      BY <2>5 DEF ServeNoMemory, none
    <3>. QED BY <1>2, <1>4, <1>5, <1>6, <3>1
  <2>. QED BY <2>1, <2>2, <2>3, <2>4, <2>5 DEF Serve
<1>8. SealInv'
  BY <1>7 DEF SealInv
<1>9. turn.phase # "fan" /\ turn'.phase \notin Rounds
  BY <1>1, <1>7 DEF Rounds
<1>. QED BY <1>1, <1>7, <1>8, <1>9, SeatedStep DEF kept

LEMMA DropAllInv == DeliveryInv /\ DropAll => DeliveryInv'
<1> SUFFICES ASSUME DeliveryInv, DropAll PROVE DeliveryInv'
  OBVIOUS
<1>1. /\ turn.phase = "idle" /\ turn' = turn /\ door' \in {door, Bad(door)} /\ refused' = refused
      /\ UNCHANGED <<scene, net, kept>> /\ LeaveWith(ToSet(clients), meta, wire, up)
      /\ TypeInv /\ fresh = {}
  BY DEF DropAll, Between, Leave, DeliveryInv, FreshInv
<1>2. fresh' = {}
  BY <1>1 DEF LeaveWith
<1>3. Seated
  BY <1>1, NobodyComes DEF TypeInv
<1>4. SealInv'
  BY <1>1 DEF SealInv
<1>5. door' \in Doors
  BY <1>1, BadDoor DEF TypeInv
<1>. QED BY <1>1, <1>2, <1>3, <1>4, <1>5, SeatedStep DEF kept, TypeInv, Rounds

LEMMA ReplayFacts ==
  ASSUME DeliveryInv, NEW n
  PROVE  /\ Replay(n) \in Seq(Nat) /\ Sorted(Replay(n)) /\ \A x \in ToSet(Replay(n)) : x <= seq
         /\ ToSet(strokes) \subseteq ToSet(Replay(n))
<1> DEFINE all == [i \in 1..seq |-> i]
<1> DEFINE S == ToSet(LastN(recent, n)) \cup ToSet(strokes)
<1>1. seq \in Nat /\ \A s \in ToSet(strokes) : s \in 1..seq
  BY DEF DeliveryInv, TypeInv, KeptInv
<1>2. all \in Seq(Nat) /\ Len(all) = seq
  BY <1>1, IsASeq
<1>3. \A y : y \in ToSet(all) <=> y \in 1..seq
  <2>1. \A y : y \in ToSet(all) <=> \E i \in 1..Len(all) : y = all[i]
    <3> HIDE DEF all
    <3>. QED BY <1>2, SetOf
  <2>. QED BY <1>2, <2>1
<1>4. Sorted(all)
  BY <1>2 DEF Sorted
<1>5. Replay(n) = Keeping(all, S)
  BY DEF Replay
<1> HIDE DEF all, S
<1>6. Keeping(all, S) \in Seq(Nat) /\ ToSet(Keeping(all, S)) = ToSet(all) \cap S
  BY <1>2, KeepingFacts
<1>7. Sorted(Keeping(all, S))
  BY <1>2, <1>4, KeepingSorted
<1>8. ToSet(strokes) \subseteq S
  BY DEF S
<1>. QED BY <1>1, <1>3, <1>5, <1>6, <1>7, <1>8

\* The client whose replay is begun, or cannot be.
LEMMA FreshLeaves ==
  ASSUME DeliveryInv, NEW c \in fresh, NEW r \in Good(seq), meta' = [meta EXCEPT ![c] = r],
         r.bare \/ \A s \in ToSet(strokes) : s \in ToSet(r.todo),
         fresh' = fresh \ {c}, turn' \in {turn, Idle}, door' \in Doors, SealInv',
         UNCHANGED <<scene, net, kept, clients, refused, pipes>>
  PROVE  DeliveryInv'
<1>1. /\ TypeInv /\ KeptInv /\ ClientsInv /\ FreshInv /\ NoStrokeForgotten
      /\ turn.phase = "admit" /\ fresh' = {} /\ c \in Clients
  BY DEF DeliveryInv, FreshInv, TypeInv
<1>2. /\ meta \in [Clients -> Good(seq)] /\ clients \in Seq(Clients)
      /\ clients' = clients /\ refused' = refused /\ wire' = wire /\ sock' = sock
      /\ scene' = scene /\ net' = net /\ strokes' = strokes /\ seq' = seq /\ made' = made
  BY <1>1 DEF TypeInv, kept, pipes
<1>3. ToSet(clients) \subseteq Clients
  BY <1>2, SetOf
<1>4. meta' \in [Clients -> Good(seq)] /\ meta'[c] = r /\ \A d \in Clients \ {c} : meta'[d] = meta[d]
  BY <1>1, <1>2
<1>5. TypeInv' /\ KeptInv'
  BY <1>1, <1>2, <1>4, IdleTurn DEF TypeInv, KeptInv
<1>6. ClientsInv' /\ FreshInv' /\ RoundInv'
  BY <1>1, <1>2, IdleTurn DEF ClientsInv, FreshInv, RoundInv, Rounds
<1>7. NoStrokeForgotten'
  <2> SUFFICES ASSUME NEW d \in ToSet(clients), NEW s \in ToSet(strokes)
               PROVE  (meta[d].bare \/ Coming(d, s))'
    BY <1>2 DEF NoStrokeForgotten
  <2>1. CASE d = c
    BY <1>4, <2>1 DEF Coming
  <2>2. CASE d # c
    <3>1. d \in ToSet(clients) \ fresh /\ meta'[d] = meta[d]
      BY <1>1, <1>3, <1>4, <2>2 DEF FreshInv
    <3>2. meta[d].bare \/ s \in ToSet(meta[d].todo) \/ s \in meta[d].handed \/ s <= meta[d].ack
      BY <1>1, <3>1 DEF NoStrokeForgotten, Coming
    <3>. QED BY <3>1, <3>2 DEF Coming
  <2>. QED BY <2>1, <2>2
<1>. QED BY <1>5, <1>6, <1>7 DEF DeliveryInv

LEMMA LetInInv == DeliveryInv /\ LetIn => DeliveryInv'
<1> SUFFICES ASSUME DeliveryInv, LetIn PROVE DeliveryInv'
  OBVIOUS
<1>1. /\ turn.phase = "admit" /\ UNCHANGED <<scene, net, kept>> /\ TypeInv /\ SealInv
      /\ turn \in Turns /\ door \in Doors /\ seq \in Nat /\ fresh \subseteq Clients
      /\ meta \in [Clients -> Good(seq)] /\ turn.phase # "fan" /\ turn.phase \notin Rounds
      /\ \A c \in fresh : meta[c].handed = {}
  BY DEF LetIn, DeliveryInv, TypeInv, Rounds, FreshInv
<1>2. Bad(door) \in Doors /\ (Bad(door) = "sealed" => door = "sealed") /\ "sealed" \in Doors
  BY <1>1, BadDoor DEF Doors
<1>3. CASE \E c \in refused : RefuseOne(c)
  <2>1. PICK c \in refused : RefuseOne(c)
    BY <1>3
  <2>2. /\ LeaveWith({c}, meta, wire, up) /\ refused' \subseteq Clients /\ turn' = turn
        /\ door' \in {door, Bad(door)}
    BY <1>1, <2>1 DEF RefuseOne, Leave, InTime, Slow, TypeInv
  <2>3. Seated
    BY <2>2, NobodyComes
  <2>4. SealInv'
    BY <1>1, <1>2, <2>2 DEF SealInv
  <2>. QED BY <1>1, <1>2, <2>2, <2>3, <2>4, SeatedStep DEF kept
<1>4. CASE \E c \in fresh : BeginReplay(c)
  <2>1. PICK c \in fresh : BeginReplay(c)
    BY <1>4
  <2>2. PICK n \in ReplaySizes : meta' = [meta EXCEPT ![c].todo = Replay(n), ![c].left = Len(Replay(n))]
    BY <2>1 DEF BeginReplay
  <2> DEFINE R == Replay(n)
  <2> DEFINE r == [meta[c] EXCEPT !.todo = R, !.left = Len(R)]
  <2>3. /\ R \in Seq(Nat) /\ Sorted(R) /\ (\A x \in ToSet(R) : x <= seq)
        /\ ToSet(strokes) \subseteq ToSet(R)
    BY ReplayFacts
  <2>4. meta' = [meta EXCEPT ![c] = r]
    BY <1>1, <2>2
  <2> HIDE DEF R
  <2>5. Len(R) \in Nat /\ c \in Clients /\ meta[c] \in Good(seq)
    BY <1>1, <2>3, SetOf
  <2>6. meta[c] \in Metas /\ QueueInv(meta[c]) /\ meta[c].handed = {}
    BY <1>1, <2>5, GoodFields
  <2>7. r \in Metas /\ r.todo = R /\ r.left = Len(R) /\ r.out = meta[c].out /\ r.handed = {}
    BY <2>3, <2>5, <2>6 DEF Metas
  <2> HIDE DEF r
  <2>8. r \in Good(seq)
    BY <2>3, <2>5, <2>6, <2>7 DEF Good, QueueInv
  <2>9. /\ fresh' = fresh \ {c} /\ turn' = turn /\ door' = door
        /\ UNCHANGED <<clients, refused, pipes>>
    BY <2>1 DEF BeginReplay, InTime
  <2>10. SealInv'
    BY <1>1, <2>9 DEF SealInv
  <2>11. \A s \in ToSet(strokes) : s \in ToSet(r.todo)
    BY <2>3, <2>7
  <2>. QED BY <1>1, <2>4, <2>8, <2>9, <2>10, <2>11, FreshLeaves
<1>5. CASE \E c \in fresh : BeginReplayFails(c)
  <2>1. PICK c \in fresh : BeginReplayFails(c)
    BY <1>5
  <2> DEFINE r == [meta[c] EXCEPT !.bare = TRUE]
  <2>2. /\ meta' = [meta EXCEPT ![c] = r] /\ fresh' = fresh \ {c} /\ turn' = Idle /\ door' = "sealed"
        /\ UNCHANGED <<clients, refused, pipes>>
    BY <1>1, <2>1 DEF BeginReplayFails, PollOutOfMemory
  <2>3. c \in Clients /\ meta[c] \in Good(seq)
    BY <1>1
  <2>4. meta[c] \in Metas
    BY <1>1, <2>3, GoodFields
  <2>5. /\ r \in Metas /\ r.bare /\ r.todo = meta[c].todo /\ r.left = meta[c].left
        /\ r.out = meta[c].out /\ r.handed = meta[c].handed
    BY <2>4 DEF Metas
  <2> HIDE DEF r
  <2>6. r \in Good(seq)
    BY <2>3, <2>5 DEF Good, QueueInv
  <2>7. SealInv'
    BY <2>2, IdleTurn DEF SealInv
  <2>. QED BY <1>1, <1>2, <2>2, <2>5, <2>6, <2>7, FreshLeaves
<1>6. CASE fresh = {} /\ Admitted
  <2> DEFINE due == Keeping(clients, {c \in ToSet(clients) : Due(c)})
  <2>1. /\ turn' = IF due = <<>> THEN Reading(turn, clients)
                   ELSE [turn EXCEPT !.phase = "pump", !.rest = due]
        /\ Stay /\ door' = door
    BY <1>6 DEF Admitted, InTime
  <2>2. clients \in Seq(Clients) /\ NoDups(clients)
    BY DEF DeliveryInv, TypeInv, ClientsInv
  <2>3. /\ due \in Seq(Clients) /\ NoDups(due) /\ ToSet(due) \subseteq ToSet(clients)
        /\ due # <<>> => turn.writes
    <3> DEFINE S == {c \in ToSet(clients) : Due(c)}
    <3> HIDE DEF S
    <3>1. /\ Keeping(clients, S) \in Seq(Clients) /\ ToSet(Keeping(clients, S)) = ToSet(clients) \cap S
          /\ NoDups(Keeping(clients, S))
      BY <2>2, KeepingFacts
    <3>2. Keeping(clients, S) # <<>> => \E c \in S : TRUE
      BY <3>1, SetOf
    <3>3. \A c \in S : turn.writes
      BY DEF S, Due
    <3>. QED BY <3>1, <3>2, <3>3 DEF S
  <2> HIDE DEF due
  <2>4. \/ turn' = Idle
        \/ /\ turn' = [turn EXCEPT !.phase = "read", !.rest = clients, !.pump = "door"]
           /\ clients # <<>> \/ turn.spent
        \/ turn' = [turn EXCEPT !.phase = "pump", !.rest = due] /\ due # <<>>
    BY <2>1 DEF Reading
  <2>5. turn' \in Turns /\ RoundInv' /\ SealInv'
    <3>1. CASE turn' = Idle
      BY <3>1, IdleTurn DEF RoundInv, SealInv, Rounds
    <3>2. CASE turn' = [turn EXCEPT !.phase = "read", !.rest = clients, !.pump = "door"]
               /\ (clients # <<>> \/ turn.spent)
      <4>1. /\ turn' \in Turns /\ turn'.phase = "read" /\ turn'.rest = clients
            /\ turn'.writes = turn.writes /\ turn'.spent = turn.spent /\ turn'.nomem = turn.nomem
        BY <1>1, <2>2, <3>2 DEF Turns, Rounds
      <4>. QED BY <1>1, <2>1, <2>2, <3>2, <4>1 DEF RoundInv, SealInv, Rounds, Stay, farm
    <3>3. CASE turn' = [turn EXCEPT !.phase = "pump", !.rest = due] /\ due # <<>>
      <4>1. /\ turn' \in Turns /\ turn'.phase = "pump" /\ turn'.rest = due
            /\ turn'.writes = turn.writes /\ turn'.spent = turn.spent /\ turn'.nomem = turn.nomem
        BY <1>1, <2>3, <3>3 DEF Turns, Rounds
      <4>. QED BY <1>1, <2>1, <2>3, <3>3, <4>1 DEF RoundInv, SealInv, Rounds, Stay, farm
    <3>. QED BY <2>4, <3>1, <3>2, <3>3
  <2>6. FreshInv'
    BY <1>6, <2>1 DEF FreshInv, Stay, farm
  <2>. QED BY <1>1, <2>1, <2>5, <2>6, CalmStep DEF Stay, farm, pipes, kept, TypeInv
<1>. QED BY <1>3, <1>4, <1>5, <1>6 DEF LetIn

-----------------------------------------------------------------------------
(* A new message.                                                          *)

\* What Keep leaves of the strokes: only a stroke is new among them.
LEMMA KeepFacts ==
  ASSUME DeliveryInv, NEW kind, Keep(seq + 1, kind)
  PROVE  /\ seq' = seq + 1 /\ seq' \in Nat /\ strokes' \in Seq(Nat) /\ made' \subseteq Nat /\ KeptInv'
         /\ \A s \in ToSet(strokes') : s \in ToSet(strokes) \/ (s = seq + 1 /\ kind = "stroke")
<1>1. /\ seq \in Nat /\ strokes \in Seq(Nat) /\ made \subseteq Nat /\ seq + 1 \in Nat
      /\ \A s \in ToSet(strokes) : s \in made /\ s \in 1..seq
  BY DEF DeliveryInv, TypeInv, KeptInv
<1>2. seq' = seq + 1
  BY DEF Keep
<1>3. CASE kind = "stroke"
  <2>1. strokes' = LastN(Append(strokes, seq + 1), StrokeKeep) /\ made' = made \cup {seq + 1}
    BY <1>3 DEF Keep
  <2> DEFINE more == Append(strokes, seq + 1)
  <2>2. more \in Seq(Nat) /\ ToSet(more) = ToSet(strokes) \cup {seq + 1}
    BY <1>1, AppendFacts
  <2> HIDE DEF more
  <2>3. LastN(more, StrokeKeep) \in Seq(Nat) /\ ToSet(LastN(more, StrokeKeep)) \subseteq ToSet(more)
    BY <2>2, Caps, LastNFacts
  <2>4. strokes' = LastN(more, StrokeKeep)
    BY <2>1 DEF more
  <2>5. \A s \in ToSet(strokes') : s \in made' /\ s \in 1..(seq + 1)
    BY <1>1, <2>1, <2>2, <2>3, <2>4
  <2>. QED BY <1>1, <1>2, <1>3, <2>1, <2>2, <2>3, <2>4, <2>5 DEF KeptInv
<1>4. CASE kind # "stroke"
  <2>1. strokes' = strokes /\ made' = made
    BY <1>4 DEF Keep
  <2>2. \A s \in ToSet(strokes) : s \in 1..(seq + 1)
    BY <1>1
  <2>. QED BY <1>1, <1>2, <2>1, <2>2 DEF KeptInv
<1>. QED BY <1>3, <1>4

LEMMA EmitInv == ASSUME DeliveryInv, NEW kind \in scene.kinds, Emit(kind) PROVE DeliveryInv'
<1> DEFINE s == seq + 1
<1>1. /\ turn.phase = "idle" /\ Keep(s, kind) /\ net' = Ringing(kind)
      /\ scene' = scene /\ door' = door
  BY DEF Emit, Ringing
<1>2. /\ TypeInv /\ KeptInv /\ ClientsInv /\ fresh = {} /\ NoStrokeForgotten
  BY <1>1 DEF DeliveryInv, FreshInv
<1>3. /\ clients \in Seq(Clients) /\ NoDups(clients) /\ ToSet(clients) \subseteq Clients
      /\ seq \in Nat /\ s \in Nat /\ wire \in [Clients -> Wires] /\ refused \subseteq Clients
      /\ meta \in [Clients -> Good(seq)]
      /\ \A c \in ToSet(clients) : sock[c] # "none"
  BY <1>2, SetOf DEF TypeInv, ClientsInv
<1>4. /\ seq' = s /\ strokes' \in Seq(Nat) /\ made' \subseteq Nat /\ KeptInv'
      /\ \A x \in ToSet(strokes') : x \in ToSet(strokes) \/ (x = s /\ kind = "stroke")
  BY <1>1, KeepFacts
<1>5. kind \in {"stroke", "event", "beat"} /\ (kind = "stroke" => Kept(kind))
  BY <1>2, SceneType DEF TypeInv, Kept
<1>6. net' \in Nets
  BY <1>1, <1>2 DEF TypeInv, Ringing, Nets
<1>7. \A c \in Clients : meta[c] \in Good(s)
  BY <1>3, GoodGrows
<1>8. \A c \in ToSet(clients) : \A x \in ToSet(strokes) : Sees(meta[c], x)
  BY <1>1, <1>2 DEF NoStrokeForgotten, Coming, Sees
<1>9. \A c \in Clients : (\A x \in meta[c].handed : x < s) /\ (\A x \in ToSet(meta[c].todo) : x < s)
  <2> SUFFICES ASSUME NEW c \in Clients
               PROVE  (\A x \in meta[c].handed : x < s) /\ (\A x \in ToSet(meta[c].todo) : x < s)
    OBVIOUS
  <2>1. meta[c] \in Good(seq)
    BY <1>3
  <2>2. /\ meta[c].handed \subseteq Nat /\ \A x \in meta[c].handed : x <= seq
        /\ \A x \in ToSet(meta[c].todo) : x \in Nat /\ x <= seq
    BY <1>3, <2>1, GoodFields
  <2>. QED BY <1>3, <2>2
<1> HIDE DEF s
<1>10. CASE Inline(Ringing(kind)) /\ Stay
            /\ turn' = IF clients = <<>> THEN Idle
                       ELSE [Idle EXCEPT !.phase = "fan", !.rest = clients, !.msg = s,
                                         !.keep = Kept(kind), !.writes = (door # "sealed")]
  <2>1. /\ clients' = clients /\ fresh' = {} /\ refused' = refused /\ meta' = meta
        /\ sock' = sock /\ wire' = wire
    BY <1>2, <1>10 DEF Stay, farm, pipes
  <2>2. meta' \in [Clients -> Good(s)]
    BY <1>3, <1>7, <2>1
  <2> DEFINE t == [Idle EXCEPT !.phase = "fan", !.rest = clients, !.msg = s,
                               !.keep = Kept(kind), !.writes = (door # "sealed")]
  <2>3. /\ t \in Turns /\ t.phase = "fan" /\ t.rest = clients /\ t.msg = s
        /\ t.keep = Kept(kind) /\ t.writes = (door # "sealed")
    BY <1>3, IdleTurn DEF Turns, Rounds, Kept
  <2>4. turn' = IF clients = <<>> THEN Idle ELSE t
    BY <1>10
  <2> HIDE DEF t
  <2>5. TypeInv'
    <3>1. meta' \in [Clients -> Good(seq')] /\ seq' \in Nat
      BY <1>3, <1>4, <2>2
    <3>2. turn' \in Turns
      BY <2>3, <2>4, IdleTurn
    <3>. QED BY <1>1, <1>2, <1>3, <1>4, <1>6, <2>1, <3>1, <3>2 DEF TypeInv
  <2>6. ClientsInv' /\ FreshInv'
    BY <1>3, <2>1 DEF ClientsInv, FreshInv
  <2>7. clients # <<>> => t.keep \/ t.msg \notin ToSet(strokes')
    <3>1. s \notin ToSet(strokes)
      BY <1>2, <1>3 DEF KeptInv, s
    <3>. QED BY <1>4, <1>5, <2>3, <3>1
  <2>8. RoundInv'
    <3>1. CASE clients = <<>>
      BY <2>4, <3>1, IdleTurn DEF RoundInv, Rounds
    <3>2. CASE clients # <<>>
      <4>1. turn' = t /\ Inline(net') /\ t.msg <= seq'
        BY <1>1, <1>3, <1>4, <1>10, <2>3, <2>4, <3>2
      <4>2. \A c \in ToSet(t.rest) :
              /\ \A x \in meta'[c].handed : x < t.msg
              /\ \A x \in ToSet(meta'[c].todo) : x < t.msg
        BY <1>3, <1>9, <2>1, <2>3
      <4>. QED BY <1>3, <2>1, <2>3, <2>7, <3>2, <4>1, <4>2 DEF RoundInv, Rounds
    <3>. QED BY <3>1, <3>2
  <2>9. SealInv'
    BY <1>1, <2>3, <2>4, IdleTurn DEF SealInv
  <2>10. NoStrokeForgotten'
    <3> SUFFICES ASSUME NEW c \in ToSet(clients), NEW x \in ToSet(strokes')
                 PROVE  (meta[c].bare \/ Coming(c, x))'
      BY <2>1 DEF NoStrokeForgotten
    <3>1. CASE x \in ToSet(strokes)
      BY <1>8, <2>1, <3>1 DEF Sees, Coming
    <3>2. CASE x = s
      <4>1. clients # <<>>
        BY <1>3, SetOf
      <4>. QED BY <2>3, <2>4, <3>2, <4>1 DEF Coming
    <3>. QED BY <1>4, <3>1, <3>2
  <2>. QED BY <1>4, <2>5, <2>6, <2>8, <2>9, <2>10 DEF DeliveryInv
<1>11. ASSUME NEW D, NEW m \in [Clients -> Good(s)], LeaveWith(D, m, wire, up), turn' = Idle,
              refused' \subseteq Clients,
              \A c \in ToSet(clients) \ D : \A x \in ToSet(strokes') : Sees(m[c], x)
       PROVE  DeliveryInv'
  <2>1. /\ clients' \in Seq(Clients) /\ ToSet(clients') = ToSet(clients) \ D
        /\ NoDups(clients) => NoDups(clients')
        /\ fresh' = fresh \ D
        /\ meta' \in [Clients -> Good(s)] /\ \A c \in Clients \ D : meta'[c] = m[c]
        /\ wire' \in [Clients -> Wires]
        /\ \A c \in Clients \ D : sock'[c] = sock[c]
    BY <1>3, <1>11, LeaveFacts, Zenon
  <2>2. fresh' = {}
    BY <1>2, <2>1
  <2>3. TypeInv'
    <3>1. meta' \in [Clients -> Good(seq')] /\ seq' \in Nat
      BY <1>3, <1>4, <2>1
    <3>. QED BY <1>1, <1>2, <1>4, <1>6, <1>11, <2>1, <2>2, <3>1, IdleTurn DEF TypeInv
  <2>4. ClientsInv' /\ FreshInv' /\ RoundInv' /\ SealInv'
    BY <1>3, <1>11, <2>1, <2>2, IdleTurn DEF ClientsInv, FreshInv, RoundInv, SealInv, Rounds
  <2>5. NoStrokeForgotten'
    BY <1>3, <1>11, <2>1 DEF NoStrokeForgotten, Coming, Sees
  <2>. QED BY <1>4, <2>3, <2>4, <2>5 DEF DeliveryInv
<1>12. CASE QueueAll(s, kind) /\ turn' = Idle /\ refused' = refused
  <2> DEFINE full == {c \in ToSet(clients) : Wants(c, kind) /\ Full(c)}
  <2> DEFINE queued == [c \in Clients |-> IF c \in ToSet(clients) /\ Wants(c, kind)
                                          THEN Queued(meta[c], s) ELSE meta[c]]
  <2> DEFINE m == [c \in Clients |-> IF c \in full THEN meta[c] ELSE queued[c]]
  <2>1. LeaveWith(full, queued, wire, up)
    BY <1>12 DEF QueueAll, Leave, Queued
  <2>2. \A c \in full : c \in ToSet(clients)
    OBVIOUS
  <2>3. ASSUME NEW c \in ToSet(clients), c \notin full, Wants(c, kind)
        PROVE  /\ Queued(meta[c], s) \in Good(s) /\ Sees(Queued(meta[c], s), s)
               /\ \A x : Sees(meta[c], x) => Sees(Queued(meta[c], s), x)
    <3> DEFINE k == meta[c]
    <3>1. k \in Good(s) /\ (\A x \in k.handed : x < s) /\ (\A x \in ToSet(k.todo) : x < s)
      BY <1>3, <1>7, <1>9
    <3>2. Len(k.todo) < TodoMax
      <4>1. ~(Len(k.todo) >= TodoMax)
        BY <2>3 DEF Full
      <4>2. Len(k.todo) \in Nat
        <5> HIDE DEF k
        <5>. QED BY <1>3, <3>1, GoodFields, SetOf
      <4>. QED BY <4>1, <4>2, Caps
    <3> HIDE DEF k
    <3>3. /\ Queued(k, s) \in Good(s) /\ Sees(Queued(k, s), s)
          /\ \A x : Sees(k, x) => Sees(Queued(k, s), x)
      BY <1>3, <3>1, <3>2, QueuedGood
    <3>. QED BY <3>3 DEF k
  <2>4. \A c \in Clients : m[c] = IF c \in ToSet(clients) /\ Wants(c, kind) /\ c \notin full
                                  THEN Queued(meta[c], s) ELSE meta[c]
    OBVIOUS
  <2>5. [c \in Clients |-> IF c \in full THEN NoMeta ELSE queued[c]]
          = [c \in Clients |-> IF c \in full THEN NoMeta ELSE m[c]]
    <3> HIDE DEF full, queued
    <3>. QED OBVIOUS
  <2>6. LeaveWith(full, m, wire, up)
    BY <2>1, <2>5 DEF LeaveWith
  <2>7. DOMAIN m = Clients /\ m = [c \in Clients |-> m[c]]
    OBVIOUS
  <2> HIDE DEF full, m, queued
  <2>8. \A c \in Clients : m[c] \in Good(s)
    BY <1>7, <2>3, <2>4
  <2>9. m \in [Clients -> Good(s)]
    BY <2>7, <2>8
  <2>10. ASSUME NEW c \in ToSet(clients) \ full, NEW x \in ToSet(strokes') PROVE Sees(m[c], x)
    <3>1. CASE Wants(c, kind)
      <4>1. m[c] = Queued(meta[c], s)
        BY <1>3, <2>4, <3>1
      <4>2. x = s \/ Sees(meta[c], x)
        BY <1>4, <1>8
      <4>. QED BY <2>3, <3>1, <4>1, <4>2
    <3>2. CASE ~Wants(c, kind)
      <4>1. m[c] = meta[c] /\ kind # "stroke"
        BY <1>3, <1>5, <2>4, <3>2 DEF Wants
      <4>. QED BY <1>4, <1>8, <4>1
    <3>. QED BY <3>1, <3>2
  <2>. QED BY <1>3, <1>11, <1>12, <2>6, <2>9, <2>10
<1>13. CASE Shed /\ turn' = Idle /\ refused' = {}
  <2>1. LeaveWith(ToSet(clients) \cup refused, meta, wire, up) /\ meta \in [Clients -> Good(s)]
    BY <1>3, <1>7, <1>13 DEF Shed, Leave
  <2>. QED BY <1>11, <1>13, <2>1
<1>. QED BY <1>10, <1>12, <1>13 DEF Emit, s

-----------------------------------------------------------------------------
(* The theorems.                                                           *)

LEMMA InitInv == Init => DeliveryInv
<1> SUFFICES ASSUME Init PROVE DeliveryInv
  OBVIOUS
<1>1. /\ scene \in Scenes /\ net = [state |-> "QUIET", mode |-> scene.mode]
      /\ door = "open" /\ turn = Idle
      /\ clients = <<>> /\ fresh = {} /\ refused = {} /\ meta = [c \in Clients |-> NoMeta]
      /\ strokes = <<>> /\ seq = 0 /\ made = {}
      /\ sock = [c \in Clients |-> "none"] /\ wire = [c \in Clients |-> <<>>]
  BY DEF Init
<1>2. <<>> \in Seq(Clients) /\ <<>> \in Seq(Nat) /\ ToSet(<<>>) = {} /\ NoDups(<<>>) /\ <<>> \in Wires
  BY Caps DEF ToSet, NoDups, Wires
<1>3. net \in Nets
  BY <1>1, SceneType DEF Nets
<1>4. meta \in [Clients -> Good(seq)]
  <2>1. NoMeta \in Good(0)
    BY NewGood
  <2>. QED BY <1>1, <2>1
<1>5. TypeInv
  BY <1>1, <1>2, <1>3, <1>4, IdleTurn DEF TypeInv, Doors
<1>6. KeptInv /\ ClientsInv /\ NoStrokeForgotten
  BY <1>1, <1>2 DEF KeptInv, ClientsInv, NoStrokeForgotten
<1>7. FreshInv /\ RoundInv /\ SealInv
  BY <1>1, IdleTurn DEF FreshInv, RoundInv, SealInv, Rounds
<1>. QED BY <1>5, <1>6, <1>7 DEF DeliveryInv

LEMMA NextInv == DeliveryInv /\ [Next]_vars => DeliveryInv'
<1> SUFFICES ASSUME DeliveryInv, [Next]_vars PROVE DeliveryInv'
  OBVIOUS
<1>1. CASE Send
  BY <1>1, FanInv, EmitInv DEF Send
<1>2. CASE Poll
  BY <1>2, PollBeginInv, ServeInv, LetInInv, PumpInv, ReadInv, PollEndInv DEF Poll
<1>3. CASE Peers \/ Reopen
  BY <1>3, PeersInv
<1>4. CASE DropAll
  BY <1>4, DropAllInv
<1>5. CASE UNCHANGED vars
  BY <1>5 DEF vars, farm, kept, pipes, DeliveryInv, TypeInv, KeptInv, ClientsInv, FreshInv,
              RoundInv, SealInv, NoStrokeForgotten, Coming, Inline
<1>. QED BY <1>1, <1>2, <1>3, <1>4, <1>5 DEF Next

\* What the queues, the rounds and the seals of the delivery rest on.
THEOREM DeliveryInvariant == Spec => []DeliveryInv
BY InitInv, NextInv, PTL DEF Spec

\* Nothing overtakes a queue: whatever a client still has to get is in order
\* and newer than all it was given (_deliver, _deliver_batch, _queue_all, the
\* replay, the trim of an ack_seq, and their early returns).
THEOREM NothingOvertakes == Spec => []InOrder
<1>1. DeliveryInv => InOrder
  <2> SUFFICES ASSUME DeliveryInv, NEW c \in ToSet(clients) \ fresh
               PROVE  /\ Increasing(meta[c].todo) /\ Increasing(meta[c].out)
                      /\ \A h \in meta[c].handed, t \in ToSet(meta[c].todo) : h < t
    BY DEF InOrder
  <2>1. seq \in Nat /\ meta[c] \in Good(seq)
    BY SetOf DEF DeliveryInv, TypeInv
  <2>2. QueueInv(meta[c]) /\ meta[c].todo \in Seq(Nat) /\ meta[c].out \in Seq(Nat)
    BY <2>1, GoodFields
  <2>3. ASSUME NEW s \in Seq(Nat), Sorted(s) PROVE Increasing(s)
    <3> SUFFICES ASSUME NEW i \in 1..(Len(s) - 1) PROVE s[i] < s[i + 1]
      BY DEF Increasing
    <3>1. i \in 1..Len(s) /\ i + 1 \in 1..Len(s) /\ i < i + 1
      BY SetOf
    <3>. QED BY <2>3, <3>1 DEF Sorted
  <2>. QED BY <2>2, <2>3 DEF QueueInv
<1>. QED BY <1>1, DeliveryInvariant, PTL

\* A kept stroke is on its way to every client whose replay was begun: queued,
\* handed over, acknowledged, or about to be fanned out (send, _begin_replay,
\* _pump, _ack; _drop for those who leave).
THEOREM StrokesAreComing == Spec => []NoStrokeForgotten
<1>1. DeliveryInv => NoStrokeForgotten
  BY DEF DeliveryInv
<1>. QED BY <1>1, DeliveryInvariant, PTL

\* No client's queue grows past TODO_MAX or its own replay, and no more than
\* one batch is parked for it, however long it holds or lags.
THEOREM BoundedQueues == Spec => []QueuesAreBounded
<1>1. DeliveryInv => QueuesAreBounded
  <2> SUFFICES ASSUME DeliveryInv, NEW c \in ToSet(clients)
               PROVE  /\ Len(meta[c].todo) <= TodoMax \/ Len(meta[c].todo) = meta[c].left
                      /\ Len(meta[c].out) <= BatchMax
                      /\ meta[c].left <= Len(meta[c].todo)
    BY DEF QueuesAreBounded
  <2>1. seq \in Nat /\ meta[c] \in Good(seq)
    BY SetOf DEF DeliveryInv, TypeInv
  <2>. QED BY <2>1, GoodFields DEF QueueInv
<1>. QED BY <1>1, DeliveryInvariant, PTL

\* While ringing with "batched", no send() writes to a socket, not even the one
\* whose stroke began the ringing (send, NetMode.stroke, _fan_out).
THEOREM SensePathIsSilent == Spec => SensePathNeverWrites
<1>1. DeliveryInv =>
        (net.mode = "batched" /\ net.state = "RINGING" /\ wrote' = "frame" => turn.phase # "fan")
  BY DEF DeliveryInv, RoundInv, Inline
<1>. QED BY <1>1, DeliveryInvariant, PTL DEF SensePathNeverWrites

\* Whoever sealed the send path, and wherever in a poll or a send() that was,
\* no message, replay, handshake or refusal is written in that turn or a later
\* one until the seal is lifted, but for a poll that ran out of memory itself
\* and ends its plan.  Only a client that is read may be answered, and the
\* clients that drop_all lets go may get their close frames.
THEOREM DrainSendsNothing == Spec => SealedSendsNothing
<1> DEFINE Excused == \/ turn.nomem
                      \/ turn.phase = "read" /\ wrote' = "answer"
                      \/ turn.phase = "idle" /\ wrote' = "close" /\ clients' = <<>>
<1>1. DeliveryInv /\ [Next]_vars /\ ~UNCHANGED vars =>
        (door = "sealed" /\ wrote' # "none" => Excused)
  <2> SUFFICES ASSUME DeliveryInv, Next, door = "sealed", wrote' # "none"
               PROVE  Excused
    OBVIOUS
  <2>1. /\ turn.phase # "server"
        /\ turn.phase # "idle" => ~turn.writes \/ turn.spent \/ turn.nomem
        /\ turn.phase = "pump" => turn.writes
    BY DEF DeliveryInv, SealInv, RoundInv
  <2>2. CASE Send
    <3>1. \A kind : ~Emit(kind)
      BY DEF Emit
    <3>2. Fan => turn.phase = "fan" /\ \E c : FanQueue(c) \/ FanWrite(c) \/ FanTrouble(c)
      BY DEF Fan
    <3>3. \A c : ~FanQueue(c)
      BY DEF FanQueue
    <3>4. \A c : FanWrite(c) \/ FanTrouble(c) => turn.writes /\ ~turn.spent
      BY DEF FanWrite, FanTrouble, Behind
    <3>. QED BY <2>1, <2>2, <3>1, <3>2, <3>3, <3>4 DEF Send
  <2>3. CASE (\E state \in {"QUIET", "RINGING"} : PollBegin(state)) \/ PollEnd \/ Peers \/ Reopen
    BY <2>3 DEF PollBegin, PollEnd, Peers, PeerReads, PeerHellos, PeerDies, Reopen
  <2>4. CASE Serve
    BY <2>1, <2>4 DEF Serve
  <2>5. CASE LetIn
    BY <2>1, <2>5 DEF LetIn, RefuseOne
  <2>6. CASE PumpAll
    <3>1. turn.phase = "pump" /\ Pump(Head(turn.rest))
      BY <2>6 DEF PumpAll
    <3>2. \A c : ~PumpPass(c) /\ ~PumpLeave(c)
      BY DEF PumpPass, PumpLeave
    <3>3. \A c : PumpParked(c) \/ PumpBatch(c) \/ PumpFrame(c) \/ PumpSlowReplay(c) \/ PumpTrouble(c)
                   => ~turn.spent
      BY DEF PumpParked, PumpBatch, PumpFrame, PumpSlowReplay, PumpTrouble, ParkedNext, FrameNext,
             MayWrite
    <3>. QED BY <2>1, <3>1, <3>2, <3>3 DEF Pump
  <2>7. CASE ReadAll
    <3>1. turn.phase = "read" /\ Read(Head(turn.rest))
      BY <2>7 DEF ReadAll
    <3>2. \A c, n : ~ReadHello(c, n)
      BY DEF ReadHello
    <3>. QED BY <3>1, <3>2 DEF Read, ReadPing, ReadClosed, ReadNothing, ReadGone, ReadFails,
                               ReadQuiet, ReadSilent, Allowed
  <2>8. CASE DropAll
    <3> DEFINE all == ToSet(clients)
    <3>1. turn.phase = "idle" /\ wrote' = "close" /\ clients' = Without(clients, all)
      BY <2>8 DEF DropAll, Between, Leave, LeaveWith
    <3>2. clients \in Seq(Clients)
      BY DEF DeliveryInv, TypeInv
    <3> HIDE DEF all
    <3>3. clients' \in Seq(Clients) /\ ToSet(clients') = ToSet(clients) \ all
      BY <3>1, <3>2, WithoutFacts
    <3>4. ToSet(clients') = {}
      BY <3>3 DEF all
    <3>5. clients' = <<>>
      BY <3>3, <3>4, SetOf
    <3>. QED BY <3>1, <3>5
  <2>. QED BY <2>2, <2>3, <2>4, <2>5, <2>6, <2>7, <2>8 DEF Next, Poll
<1>. QED BY <1>1, DeliveryInvariant, PTL DEF SealedSendsNothing, Spec

\* Only the client that was written to, or read, can leave in a round, and
\* those LAGGING (SendStarved, and the LAGGING ones a hello replaces).
LEMMA WhoLeaves ==
  ASSUME DeliveryInv, NEW D, NEW m, NEW w, NEW u, LeaveWith(D, m, w, u),
         D \subseteq {Head(turn.rest)} \cup Lagging
  PROVE  \A c \in ToSet(clients) \ ToSet(clients') : c = Head(turn.rest) \/ meta[c].state = "LAGGING"
<1>1. clients \in Seq(Clients) /\ clients' = Without(clients, D)
  BY DEF DeliveryInv, TypeInv, LeaveWith
<1>2. ToSet(clients') = ToSet(clients) \ D
  BY <1>1, WithoutFacts
<1>. QED BY <1>2 DEF Lagging

\* A client that talks never pays for another's write, silence or failure.
THEOREM InnocentsKeepTheirPlace == Spec => InnocentsStay
<1>1. DeliveryInv /\ [Next]_vars =>
        \A c \in ToSet(clients) \ ToSet(clients') :
          turn.phase \in {"fan", "pump", "read"} => c = Head(turn.rest) \/ meta[c].state = "LAGGING"
  <2> DEFINE Guilty == \A c \in ToSet(clients) \ ToSet(clients') :
                         c = Head(turn.rest) \/ meta[c].state = "LAGGING"
  <2> SUFFICES ASSUME DeliveryInv, [Next]_vars, turn.phase \in {"fan", "pump", "read"}
               PROVE  Guilty
    OBVIOUS
  <2> DEFINE h == Head(turn.rest)
  <2> DEFINE self == {h}
  <2> DEFINE none == {}
  <2>1. ASSUME clients' = clients PROVE Guilty
    BY <2>1
  <2>2. ASSUME NEW D, NEW m, NEW w, Leave(D, m, w), D \subseteq self \cup Lagging PROVE Guilty
    <3>1. LeaveWith(D, m, w, up)
      BY <2>2 DEF Leave
    <3>. QED BY <2>2, <3>1, WhoLeaves
  <2>3. none \subseteq self \cup Lagging /\ self \subseteq self \cup Lagging
    OBVIOUS
  <2> HIDE DEF Guilty, self, none
  <2>4. ASSUME NEW d, NEW late, SendFails(self, d, late) \/ SendFails(self \cup Lagging, d, late)
        PROVE  Guilty
    BY <2>2, <2>3, <2>4 DEF SendFails
  <2>5. ASSUME SendTrouble(h) PROVE Guilty
    BY <2>4, <2>5 DEF SendTrouble, SendGone, SendOverran, SendStarved, SendErrs, self
  <2>6. ASSUME NEW fs, NEW n, Deliver(h, fs, n) PROVE Guilty
    BY <2>2, <2>3, <2>6 DEF Deliver, none
  <2>7. ASSUME Stay PROVE Guilty
    BY <2>1, <2>7 DEF Stay, farm
  <2>8. CASE Fan
    <3>1. FanQueue(h) \/ FanWrite(h) \/ FanTrouble(h)
      BY <2>8 DEF Fan
    <3>2. FanQueue(h) => \E m : Leave(none, m, wire) \/ Leave(self, m, wire)
      BY DEF FanQueue, none, self
    <3>3. FanQueue(h) => Guilty
      BY <2>2, <2>3, <3>2
    <3>. QED BY <2>5, <2>6, <3>1, <3>3 DEF FanWrite, FanTrouble
  <2>9. CASE PumpAll
    <3>1. Pump(h)
      BY <2>9 DEF PumpAll
    <3>2. PumpParked(h) \/ PumpBatch(h) \/ PumpFrame(h) => Guilty
      BY <2>6 DEF PumpParked, PumpBatch, PumpFrame
    <3>3. PumpSlowReplay(h) => Guilty
      BY <2>4 DEF PumpSlowReplay, self
    <3>. QED BY <2>5, <2>7, <3>1, <3>2, <3>3 DEF Pump, PumpPass, PumpLeave, PumpTrouble, PassOn
  <2>10. CASE ReadAll
    <3>1. Read(h)
      BY <2>10 DEF ReadAll
    <3>2. ASSUME NEW n, ReadHello(h, n) PROVE Guilty
      <4>1. \E D, m, w, u : LeaveWith(D, m, w, u) /\ D \subseteq Lagging
        BY <3>2 DEF ReadHello, Hear
      <4>. QED BY <4>1, WhoLeaves DEF Guilty
    <3>3. ReadClosed(h) \/ ReadGone(h) \/ ReadFails(h) \/ ReadSilent(h) => Guilty
      BY <2>2, <2>3 DEF ReadClosed, ReadGone, ReadFails, ReadSilent, self
    <3>4. ReadQuiet(h) => \E m : Leave(none, m, wire) \/ Leave(self, m, wire)
      BY DEF ReadQuiet, none, self
    <3>6. ASSUME Hear(h, 0, {}) PROVE Guilty
      <4>1. \E D, m, w, u : LeaveWith(D, m, w, u) /\ D \subseteq Lagging
        BY <3>6 DEF Hear
      <4>. QED BY <4>1, WhoLeaves DEF Guilty
    <3>7. ReadPing(h) => Guilty
      BY <2>1, <2>7, <3>6 DEF ReadPing, farm
    <3>5. ReadQuiet(h) => Guilty
      BY <2>2, <2>3, <3>4
    <3>. QED BY <2>7, <3>1, <3>2, <3>3, <3>5, <3>7 DEF Read, ReadNothing, PassOn
  <2>11. CASE PollEnd
    BY <2>7, <2>11 DEF PollEnd
  <2>12. CASE UNCHANGED vars
    BY <2>1, <2>12 DEF vars, farm
  <2>. QED BY <2>8, <2>9, <2>10, <2>11, <2>12
       DEF Next, Send, Poll, Peers, Emit, PollBegin, Serve, LetIn, PeerReads, PeerHellos, PeerDies,
           Between, DropAll, Reopen
<1>. QED BY <1>1, DeliveryInvariant, PTL DEF InnocentsStay, Spec

\* A stroke counts as delivered only when Sandbells has it, or when a client it
\* was handed to whole is heard: an ack_seq is never taken for more than it
\* says, and a parked frame confirms nothing (_confirm, _ack).
THEOREM ConfirmationsAreEarned == Spec => ConfirmedWithReason
<1>1. DeliveryInv /\ [Next]_vars =>
        \A s \in confirmed' \ confirmed :
          \/ s \in got
          \/ \E c \in ToSet(clients) : s \in meta[c].unconf /\ s \notin ToSet(meta[c].out)
  <2> SUFFICES ASSUME DeliveryInv, [Next]_vars, NEW s \in confirmed' \ confirmed
               PROVE  \/ s \in got
                      \/ \E c \in ToSet(clients) : s \in meta[c].unconf /\ s \notin ToSet(meta[c].out)
    OBVIOUS
  <2> DEFINE h == Head(turn.rest)
  <2>1. \A kind : ~Emit(kind)
    BY DEF Emit, Keep
  <2>2. ~Fan /\ ~PumpAll /\ ~Serve /\ ~LetIn /\ ~PollEnd /\ \A state : ~PollBegin(state)
    BY DEF Fan, PumpAll, Serve, LetIn, PollEnd, PollBegin, kept
  <2>3. ~Peers /\ ~Reopen /\ ~DropAll /\ ~UNCHANGED vars
    BY DEF Peers, PeerReads, PeerHellos, PeerDies, Reopen, DropAll, vars, kept
  <2>4. ReadAll
    BY <2>1, <2>2, <2>3 DEF Next, Send, Poll
  <2>5. turn.phase = "read" /\ ~turn.spent /\ Read(h)
    BY <2>4 DEF ReadAll
  <2>6. h \in ToSet(clients)
    BY <2>5, RoundHead DEF Rounds
  <2> HIDE DEF h
  <2>7. PICK n \in {0} \cup Truthful : \E old : Hear(h, n, old)
    BY <2>5 DEF Read, ReadHello, ReadPing, ReadClosed, ReadNothing, ReadGone, ReadFails, ReadQuiet, ReadSilent
  <2>8. s \in ToSet(strokes) /\ (s \in Sure(h) \/ (s \in Seqs /\ s <= n))
    BY <2>7 DEF Hear
  <2>9. CASE s \in Sure(h)
    BY <2>6, <2>9 DEF Sure, ToSet
  <2>10. CASE s \in Seqs /\ s <= n
    <3>1. n # 0
      BY <2>10, DeliveryAssumption DEF Seqs
    <3>2. s \in made
      BY <2>8 DEF DeliveryInv, KeptInv
    <3>. QED BY <2>7, <2>10, <3>1, <3>2 DEF Truthful
  <2>. QED BY <2>8, <2>9, <2>10
<1>. QED BY <1>1, DeliveryInvariant, PTL DEF ConfirmedWithReason, Spec

=============================================================================
