------------------------------ MODULE TowerProofs ------------------------------
(***************************************************************************)
(* From the ropes to the strokes for every number of sockets, every length *)
(* of the queues and every gap: no edge is lost unsaid, no plug change is  *)
(* forgotten, the heads are lit, and only a press's note may stay, at a    *)
(* channel that a survey no longer takes for a trigger.                    *)
(***************************************************************************)
EXTENDS Tower, QueueFacts

Edges == [ch : Channels, held : BOOLEAN, age : Int]

Levels == [Channels -> BOOLEAN]

Senses == [mode : {"keys", "pins"}, queue : Seq(Edges), scanned : Levels, full : BOOLEAN,
           known : Levels, pending : Seq(Edges), lost : BOOLEAN]

Bells == [prev : BOOLEAN, watched : BOOLEAN, stroke : Int, armed : BOOLEAN, open : Int,
          low : Int, stuck : BOOLEAN, sounding : BOOLEAN]

Rings == [head : BOOLEAN, lit : BOOLEAN, rest : BOOLEAN, prev : BOOLEAN, sounding : BOOLEAN,
          on : Int]

TypeInv ==
  /\ level \in Levels /\ sense \in Senses /\ work \in Seq(Edges)
  /\ bell \in [Channels -> Bells] /\ ring \in [Channels -> Rings]
  /\ running \in BOOLEAN /\ doubt \in BOOLEAN
  /\ pc \in {"rest", "edges", "survey", "settle"}
  /\ phase \in {"idle", "examining", "surveying", "settled"}

-----------------------------------------------------------------------------
(* Edges on their way.                                                     *)

Before(s, ch, i) == \E k \in 1..Len(s) : k < i /\ s[k].ch = ch
After(s, ch, i) == \E k \in 1..Len(s) : i < k /\ s[k].ch = ch
Between(s, ch, i, j) == \E k \in 1..Len(s) : i < k /\ k < j /\ s[k].ch = ch

\* The edges of a channel in s lead from a level to another, up and down in turn.
Path(s, ch, from, to) ==
  /\ \A i \in 1..Len(s) : s[i].ch = ch /\ ~Before(s, ch, i) => s[i].held # from
  /\ \A i \in 1..Len(s) : \A j \in 1..Len(s) :
       i < j /\ s[i].ch = ch /\ s[j].ch = ch /\ ~Between(s, ch, i, j) => s[i].held # s[j].held
  /\ \A i \in 1..Len(s) : s[i].ch = ch /\ ~After(s, ch, i) => s[i].held = to
  /\ (\A i \in 1..Len(s) : s[i].ch # ch) => from = to

\* The last edge of a channel in q is at its level; without one it was known.
LastIs(q, ch, known, lev) ==
  /\ \A i \in 1..Len(q) : q[i].ch = ch /\ ~After(q, ch, i) => q[i].held = lev
  /\ (\A i \in 1..Len(q) : q[i].ch # ch) => known = lev

\* Between the hand-overs keypad has nothing queued, and while it scans, it has
\* reported every level.  What is on its way, w the part already taken, leads
\* from the level handled last to the known one, and keypad's queue from there
\* to the line.
WayOK(s, w, prev, lev) ==
  /\ s.mode = "pins" => s.queue = <<>> /\ ~s.full
  /\ s.mode = "keys" => s.scanned = lev
  /\ ~s.lost /\ ~s.full =>
       \A ch \in Channels :
         /\ Path(w \o s.pending, ch, prev[ch], s.known[ch])
         /\ s.mode = "keys" => LastIs(s.queue, ch, s.known[ch], lev[ch])

Prevs(b) == [ch \in Channels |-> b[ch].prev]

WayInv == WayOK(sense, work, Prevs(bell), level)

-----------------------------------------------------------------------------
(* The survey, the lasers and the notes.                                   *)

\* Where the task is, what is painted and what the gate allows follow the phase.
PhaseInv ==
  /\ pc # "edges" => work = <<>>
  /\ pc = "survey" => phase = "surveying"
  /\ pc = "settle" => phase = "settled"
  /\ phase \in {"idle", "settled"} => head = kinds
  /\ gate = kinds
  /\ stale # {} => doubt \/ phase \in {"examining", "surveying"}

\* Heads are lit from the start of the Ring to its stop for the next survey.
LitInv ==
  phase # "surveying" /\ pc # "settle" =>
    \A ch \in Channels : kinds[ch] = "head" => running /\ ring[ch].head /\ ring[ch].lit

TowerInv == TypeInv /\ WayInv /\ PhaseInv /\ LitInv /\ OnlyTakenNotesStay
-----------------------------------------------------------------------------
(* Ways.                                                                   *)

LEMMA SetupFacts ==
  NChannels \in Nat /\ QueueLen \in Nat /\ Channels \subseteq Nat
  /\ GapMs \in Nat /\ RearmMs \in Nat /\ StuckMs \in Nat /\ MaxAge \in Nat
BY SenseAssumption, ChannelAssumption DEF Channels

LEMMA EdgeFields ==
  \A e \in Edges : e.ch \in Channels /\ e.held \in BOOLEAN /\ e.age \in Int
BY DEF Edges

LEMMA EmptyPath ==
  ASSUME NEW ch, NEW a
  PROVE  Path(<<>>, ch, a, a)
BY DEF Path

LEMMA PathConcat ==
  ASSUME NEW s \in Seq(Edges), NEW t \in Seq(Edges), NEW ch,
         NEW from \in BOOLEAN, NEW mid \in BOOLEAN, NEW to \in BOOLEAN,
         Path(s, ch, from, mid), Path(t, ch, mid, to)
  PROVE  Path(s \o t, ch, from, to)
<1> DEFINE r == s \o t
           m == Len(s)
           n == Len(t)
<1>1. /\ m \in Nat /\ n \in Nat /\ Len(r) = m + n
      /\ \A i \in 1..m : r[i] = s[i]
      /\ \A i \in 1..n : r[i + m] = t[i]
      /\ \A i \in 1..(m + n) : i \in 1..m \/ i - m \in 1..n
      /\ \A i \in 1..m : s[i].held \in BOOLEAN
      /\ \A i \in 1..n : t[i].held \in BOOLEAN
  <2>1. m \in Nat /\ n \in Nat /\ Len(r) = m + n
    OBVIOUS
  <2>2. \A i \in 1..(m + n) : r[i] = IF i <= m THEN s[i] ELSE t[i - m]
    OBVIOUS
  <2>3. (\A i \in 1..m : s[i].held \in BOOLEAN) /\ (\A i \in 1..n : t[i].held \in BOOLEAN)
    <3>1. (\A i \in 1..m : s[i] \in Edges) /\ (\A i \in 1..n : t[i] \in Edges)
      OBVIOUS
    <3>. QED BY <3>1, EdgeFields
  <2> HIDE DEF r, m, n
  <2>4. \A i \in 1..m : r[i] = s[i]
    BY <2>1, <2>2
  <2>5. ASSUME NEW i \in 1..n PROVE r[i + m] = t[i]
    <3>1. i + m \in 1..(m + n) /\ ~(i + m <= m) /\ (i + m) - m = i
      BY <2>1
    <3>. QED BY <2>2, <3>1
  <2>6. \A i \in 1..(m + n) : i \in 1..m \/ i - m \in 1..n
    BY <2>1
  <2>. QED BY <2>1, <2>3, <2>4, <2>5, <2>6
<1> HIDE DEF r, m, n
<1>2. \A i \in 1..m : i \in 1..Len(r)
  BY <1>1
<1>3. \A i \in 1..n : i + m \in 1..Len(r)
  BY <1>1
<1>4. \A k \in 1..Len(r) : \/ k \in 1..m /\ r[k] = s[k]
                           \/ \E x \in 1..n : k = x + m /\ r[k] = t[x]
  <2> SUFFICES ASSUME NEW k \in 1..Len(r), k \notin 1..m
               PROVE  \E x \in 1..n : k = x + m /\ r[k] = t[x]
    BY <1>1
  <2>1. k - m \in 1..n /\ k = (k - m) + m
    BY <1>1
  <2>. QED BY <1>1, <2>1
\* What comes first, last and together in the parts does so in the whole.
<1>5. ASSUME NEW i \in 1..Len(r), r[i].ch = ch, ~Before(r, ch, i) PROVE r[i].held # from
  <2>1. CASE i \in 1..m
    <3>1. ~Before(s, ch, i)
      <4> SUFFICES ASSUME NEW k \in 1..m, k < i, s[k].ch = ch PROVE FALSE
        BY DEF Before, m
      <4>. QED BY <1>1, <1>2, <1>5 DEF Before
    <3>. QED BY <1>1, <1>5, <2>1, <3>1 DEF Path, m
  <2>2. CASE i \notin 1..m
    <3>1. PICK x \in 1..n : i = x + m /\ r[i] = t[x]
      BY <1>4, <2>2
    <3>2. \A k \in 1..m : s[k].ch # ch
      <4> SUFFICES ASSUME NEW k \in 1..m, s[k].ch = ch PROVE FALSE
        OBVIOUS
      <4>1. k < i
        BY <1>1, <3>1
      <4>. QED BY <1>1, <1>2, <1>5, <4>1 DEF Before
    <3>3. from = mid
      BY <3>2 DEF Path, m
    <3>4. ~Before(t, ch, x)
      <4> SUFFICES ASSUME NEW k \in 1..n, k < x, t[k].ch = ch PROVE FALSE
        BY DEF Before, n
      <4>1. k + m < i
        BY <1>1, <3>1
      <4>. QED BY <1>1, <1>3, <1>5, <4>1 DEF Before
    <3>. QED BY <1>5, <3>1, <3>3, <3>4 DEF Path, n
  <2>. QED BY <2>1, <2>2
<1>6. ASSUME NEW i \in 1..Len(r), r[i].ch = ch, ~After(r, ch, i) PROVE r[i].held = to
  <2>1. CASE i \in 1..m
    <3>1. ~After(s, ch, i)
      <4> SUFFICES ASSUME NEW k \in 1..m, i < k, s[k].ch = ch PROVE FALSE
        BY DEF After, m
      <4>. QED BY <1>1, <1>2, <1>6 DEF After
    <3>2. \A k \in 1..n : t[k].ch # ch
      <4> SUFFICES ASSUME NEW k \in 1..n, t[k].ch = ch PROVE FALSE
        OBVIOUS
      <4>1. i < k + m
        BY <1>1, <2>1
      <4>. QED BY <1>1, <1>3, <1>6, <4>1 DEF After
    <3>3. mid = to
      BY <3>2 DEF Path, n
    <3>. QED BY <1>1, <1>6, <2>1, <3>1, <3>3 DEF Path, m
  <2>2. CASE i \notin 1..m
    <3>1. PICK x \in 1..n : i = x + m /\ r[i] = t[x]
      BY <1>4, <2>2
    <3>2. ~After(t, ch, x)
      <4> SUFFICES ASSUME NEW k \in 1..n, x < k, t[k].ch = ch PROVE FALSE
        BY DEF After, n
      <4>1. i < k + m
        BY <1>1, <3>1
      <4>. QED BY <1>1, <1>3, <1>6, <4>1 DEF After
    <3>. QED BY <1>6, <3>1, <3>2 DEF Path, n
  <2>. QED BY <2>1, <2>2
<1>7. ASSUME NEW i \in 1..Len(r), NEW j \in 1..Len(r), i < j, r[i].ch = ch, r[j].ch = ch,
             ~Between(r, ch, i, j)
      PROVE  r[i].held # r[j].held
  <2>1. CASE i \in 1..m /\ j \in 1..m
    <3>1. ~Between(s, ch, i, j)
      <4> SUFFICES ASSUME NEW k \in 1..m, i < k, k < j, s[k].ch = ch PROVE FALSE
        BY DEF Between, m
      <4>. QED BY <1>1, <1>2, <1>7 DEF Between
    <3>. QED BY <1>1, <1>7, <2>1, <3>1 DEF Path, m
  <2>2. CASE i \in 1..m /\ j \notin 1..m
    <3>1. PICK x \in 1..n : j = x + m /\ r[j] = t[x]
      BY <1>4, <2>2
    <3>2. ~After(s, ch, i)
      <4> SUFFICES ASSUME NEW k \in 1..m, i < k, s[k].ch = ch PROVE FALSE
        BY DEF After, m
      <4>1. k < j
        BY <1>1, <3>1
      <4>. QED BY <1>1, <1>2, <1>7, <4>1 DEF Between
    <3>3. ~Before(t, ch, x)
      <4> SUFFICES ASSUME NEW k \in 1..n, k < x, t[k].ch = ch PROVE FALSE
        BY DEF Before, n
      <4>1. i < k + m /\ k + m < j
        BY <1>1, <2>2, <3>1
      <4>. QED BY <1>1, <1>3, <1>7, <4>1 DEF Between
    <3>4. r[i].held = mid
      BY <1>1, <1>7, <2>2, <3>2 DEF Path, m
    <3>5. r[j].held # mid
      BY <1>7, <3>1, <3>3 DEF Path, n
    <3>. QED BY <3>4, <3>5
  <2>3. CASE i \notin 1..m /\ j \notin 1..m
    <3>1. PICK x \in 1..n : i = x + m /\ r[i] = t[x]
      BY <1>4, <2>3
    <3>2. PICK y \in 1..n : j = y + m /\ r[j] = t[y]
      BY <1>4, <2>3
    <3>3. x < y
      BY <1>1, <1>7, <3>1, <3>2
    <3>4. ~Between(t, ch, x, y)
      <4> SUFFICES ASSUME NEW k \in 1..n, x < k, k < y, t[k].ch = ch PROVE FALSE
        BY DEF Between, n
      <4>1. i < k + m /\ k + m < j
        BY <1>1, <3>1, <3>2
      <4>. QED BY <1>1, <1>3, <1>7, <4>1 DEF Between
    <3>. QED BY <1>7, <3>1, <3>2, <3>3, <3>4 DEF Path, n
  <2>4. ~(i \notin 1..m /\ j \in 1..m)
    BY <1>1, <1>7
  <2>. QED BY <2>1, <2>2, <2>3, <2>4
<1>8. ASSUME \A i \in 1..Len(r) : r[i].ch # ch PROVE from = to
  <2>1. \A i \in 1..m : s[i].ch # ch
    BY <1>1, <1>2, <1>8
  <2>2. \A i \in 1..n : t[i].ch # ch
    BY <1>1, <1>3, <1>8
  <2>. QED BY <2>1, <2>2 DEF Path, m, n
<1>9. Path(r, ch, from, to)
  BY <1>5, <1>6, <1>7, <1>8 DEF Path
<1>. QED BY <1>9 DEF r
\* One more edge, up or down from the level so far.
LEMMA PathAppend ==
  ASSUME NEW s \in Seq(Edges), NEW e \in Edges, NEW ch,
         NEW from \in BOOLEAN, NEW to \in BOOLEAN, Path(s, ch, from, to),
         e.ch = ch => e.held # to
  PROVE  Path(Append(s, e), ch, from, IF e.ch = ch THEN e.held ELSE to)
<1> DEFINE one == <<e>>
           next == IF e.ch = ch THEN e.held ELSE to
<1>1. one \in Seq(Edges) /\ Len(one) = 1 /\ one[1] = e /\ Append(s, e) = s \o one
  OBVIOUS
<1>2. next \in BOOLEAN
  BY EdgeFields
<1>3. \A i \in 1..1 : i = 1
  OBVIOUS
<1> HIDE DEF one
<1>4. Path(one, ch, to, next)
  <2>1. ~(1 < 1)
    OBVIOUS
  <2>. QED BY <1>1, <1>3, <2>1 DEF Path
<1> HIDE DEF next
<1>5. Path(s \o one, ch, from, next)
  BY <1>1, <1>2, <1>4, PathConcat
<1>. QED BY <1>1, <1>5 DEF next

\* The first edge is taken.
LEMMA PathTail ==
  ASSUME NEW s \in Seq(Edges), s # <<>>, NEW ch,
         NEW from \in BOOLEAN, NEW to \in BOOLEAN, Path(s, ch, from, to)
  PROVE  Path(Tail(s), ch, IF Head(s).ch = ch THEN Head(s).held ELSE from, to)
<1> DEFINE r == Tail(s)
           m == Len(s)
           now == IF Head(s).ch = ch THEN Head(s).held ELSE from
<1>1. /\ m \in Nat /\ m >= 1 /\ 1 \in 1..m /\ Head(s) = s[1]
      /\ r \in Seq(Edges) /\ Len(r) = m - 1
      /\ \A i \in 1..Len(r) : r[i] = s[i + 1] /\ i + 1 \in 1..m
      /\ \A i \in 1..m : s[i].held \in BOOLEAN
  <2>1. m \in Nat /\ m # 0 /\ Head(s) = s[1] /\ \A i \in 1..m : s[i] \in Edges
    BY SetOf
  <2>2. r \in Seq(Edges) /\ Len(r) = m - 1
        /\ \A i \in 1..Len(r) : r[i] = s[i + 1] /\ i + 1 \in 1..m
    BY TailFacts
  <2>. QED BY <2>1, <2>2, EdgeFields
<1> HIDE DEF r, m
<1>2. \A k \in 1..m : k = 1 \/ \E x \in 1..Len(r) : k = x + 1 /\ s[k] = r[x]
  <2> SUFFICES ASSUME NEW k \in 1..m, k # 1
               PROVE  \E x \in 1..Len(r) : k = x + 1 /\ s[k] = r[x]
    OBVIOUS
  <2>1. k - 1 \in 1..Len(r) /\ k = (k - 1) + 1
    BY <1>1
  <2>. QED BY <1>1, <2>1
<1>3. ASSUME NEW i \in 1..Len(r), r[i].ch = ch, ~Before(r, ch, i) PROVE r[i].held # now
  <2>1. r[i] = s[i + 1] /\ i + 1 \in 1..m /\ 1 < i + 1
    BY <1>1
  <2>2. ASSUME NEW k \in 1..m, 1 < k, k < i + 1, s[k].ch = ch PROVE FALSE
    <3>1. PICK x \in 1..Len(r) : k = x + 1 /\ s[k] = r[x]
      BY <1>2, <2>2
    <3>2. x < i
      BY <1>1, <2>2, <3>1
    <3>. QED BY <1>3, <2>2, <3>1, <3>2 DEF Before
  <2>3. CASE s[1].ch = ch
    <3>1. ~Between(s, ch, 1, i + 1)
      BY <2>2 DEF Between, m
    <3>2. s[1].held # s[i + 1].held
      BY <1>1, <1>3, <2>1, <2>3, <3>1 DEF Path, m
    <3>. QED BY <1>1, <2>1, <2>3, <3>2
  <2>4. CASE s[1].ch # ch
    <3>1. ~Before(s, ch, i + 1)
      <4> SUFFICES ASSUME NEW k \in 1..m, k < i + 1, s[k].ch = ch PROVE FALSE
        BY DEF Before, m
      <4>1. 1 < k
        BY <1>1, <2>4
      <4>. QED BY <2>2, <4>1
    <3>2. s[i + 1].held # from
      BY <1>3, <2>1, <3>1 DEF Path, m
    <3>. QED BY <1>1, <2>1, <2>4, <3>2
  <2>. QED BY <2>3, <2>4
<1>4. ASSUME NEW i \in 1..Len(r), r[i].ch = ch, ~After(r, ch, i) PROVE r[i].held = to
  <2>1. r[i] = s[i + 1] /\ i + 1 \in 1..m
    BY <1>1
  <2>2. ~After(s, ch, i + 1)
    <3> SUFFICES ASSUME NEW k \in 1..m, i + 1 < k, s[k].ch = ch PROVE FALSE
      BY DEF After, m
    <3>1. PICK x \in 1..Len(r) : k = x + 1 /\ s[k] = r[x]
      BY <1>2
    <3>2. i < x
      BY <1>1, <3>1
    <3>. QED BY <1>4, <3>1, <3>2 DEF After
  <2>. QED BY <1>4, <2>1, <2>2 DEF Path, m
<1>5. ASSUME NEW i \in 1..Len(r), NEW j \in 1..Len(r), i < j, r[i].ch = ch, r[j].ch = ch,
             ~Between(r, ch, i, j)
      PROVE  r[i].held # r[j].held
  <2>1. r[i] = s[i + 1] /\ i + 1 \in 1..m /\ r[j] = s[j + 1] /\ j + 1 \in 1..m /\ i + 1 < j + 1
    BY <1>1, <1>5
  <2>2. ~Between(s, ch, i + 1, j + 1)
    <3> SUFFICES ASSUME NEW k \in 1..m, i + 1 < k, k < j + 1, s[k].ch = ch PROVE FALSE
      BY DEF Between, m
    <3>1. PICK x \in 1..Len(r) : k = x + 1 /\ s[k] = r[x]
      BY <1>2
    <3>2. i < x /\ x < j
      BY <1>1, <3>1
    <3>. QED BY <1>5, <3>1, <3>2 DEF Between
  <2>. QED BY <1>5, <2>1, <2>2 DEF Path, m
<1>6. ASSUME \A i \in 1..Len(r) : r[i].ch # ch PROVE now = to
  <2>1. ~After(s, ch, 1)
    <3> SUFFICES ASSUME NEW k \in 1..m, 1 < k, s[k].ch = ch PROVE FALSE
      BY DEF After, m
    <3>1. PICK x \in 1..Len(r) : k = x + 1 /\ s[k] = r[x]
      BY <1>1, <1>2
    <3>. QED BY <1>6, <3>1
  <2>2. CASE s[1].ch = ch
    BY <1>1, <2>1, <2>2 DEF Path, m
  <2>3. CASE s[1].ch # ch
    <3>1. \A k \in 1..m : s[k].ch # ch
      BY <1>2, <1>6, <2>3
    <3>. QED BY <1>1, <2>3, <3>1 DEF Path, m
  <2>. QED BY <2>2, <2>3
<1> HIDE DEF now
<1>7. Path(r, ch, now, to)
  BY <1>3, <1>4, <1>5, <1>6 DEF Path
<1>. QED BY <1>7 DEF r, now

\* A way is its channels and levels: growing older does not change it.
LEMMA PathSame ==
  ASSUME NEW s, NEW r, NEW ch, NEW from, NEW to, Path(s, ch, from, to), Len(r) = Len(s),
         \A i \in 1..Len(s) : r[i].ch = s[i].ch /\ r[i].held = s[i].held
  PROVE  Path(r, ch, from, to)
<1>1. \A i : /\ Before(r, ch, i) <=> Before(s, ch, i)
             /\ After(r, ch, i) <=> After(s, ch, i)
             /\ \A j : Between(r, ch, i, j) <=> Between(s, ch, i, j)
  BY DEF Before, After, Between
<1>. QED BY <1>1 DEF Path

LEMMA LastIsSame ==
  ASSUME NEW s, NEW r, NEW ch, NEW known, NEW lev, LastIs(s, ch, known, lev), Len(r) = Len(s),
         \A i \in 1..Len(s) : r[i].ch = s[i].ch /\ r[i].held = s[i].held
  PROVE  LastIs(r, ch, known, lev)
BY DEF LastIs, After

\* keypad's queue takes an edge to the level it found.
LEMMA LastIsAppend ==
  ASSUME NEW q \in Seq(Edges), NEW e \in Edges, NEW ch, NEW known, NEW lev, NEW lev2,
         LastIs(q, ch, known, lev), lev2 = IF e.ch = ch THEN e.held ELSE lev
  PROVE  LastIs(Append(q, e), ch, known, lev2)
<1> DEFINE r == Append(q, e)
           n == Len(q)
<1>1. n \in Nat /\ Len(r) = n + 1 /\ r[n + 1] = e /\ \A i \in 1..n : r[i] = q[i]
  BY AppendFacts, SetOf
<1>2. \A i \in 1..Len(r) : i = n + 1 \/ (i \in 1..n /\ i < n + 1)
  <2> HIDE DEF r, n
  <2>. QED BY <1>1
<1>3. (n + 1) \in 1..Len(r) /\ \A i \in 1..n : i \in 1..Len(r)
  <2> HIDE DEF r, n
  <2>. QED BY <1>1
<1> HIDE DEF r
<1>4. ASSUME NEW i \in 1..Len(r), r[i].ch = ch, ~After(r, ch, i) PROVE r[i].held = lev2
  <2>1. CASE i = n + 1
    BY <1>1, <1>4, <2>1
  <2>2. CASE i # n + 1
    <3>1. i \in 1..n /\ i < n + 1
      BY <1>2, <2>2
    <3>2. e.ch # ch
      BY <1>1, <1>3, <1>4, <3>1 DEF After
    <3>3. ~After(q, ch, i)
      BY <1>1, <1>3, <1>4, <3>1 DEF After
    <3>. QED BY <1>1, <1>4, <3>1, <3>2, <3>3 DEF LastIs
  <2>. QED BY <2>1, <2>2
<1>5. ASSUME \A i \in 1..Len(r) : r[i].ch # ch PROVE known = lev2
  <2>1. e.ch # ch /\ \A i \in 1..n : q[i].ch # ch
    BY <1>1, <1>3, <1>5
  <2>. QED BY <2>1 DEF LastIs
<1>6. LastIs(r, ch, known, lev2)
  BY <1>4, <1>5 DEF LastIs
<1>. QED BY <1>6 DEF r
-----------------------------------------------------------------------------
(* What the owner of the inputs does with them.                            *)

LEMMA AppendConcat ==
  ASSUME NEW w \in Seq(Edges), NEW s \in Seq(Edges), NEW e \in Edges
  PROVE  /\ w \o Append(s, e) = Append(w \o s, e)
         /\ w \o s \in Seq(Edges) /\ w \o <<>> = w /\ <<>> \o s = s
<1>1. /\ w \o s \in Seq(Edges) /\ Len(w \o s) = Len(w) + Len(s)
      /\ Append(s, e) \in Seq(Edges) /\ Len(Append(s, e)) = Len(s) + 1
      /\ Len(w) \in Nat /\ Len(s) \in Nat
  OBVIOUS
<1>2. /\ w \o Append(s, e) \in Seq(Edges) /\ Len(w \o Append(s, e)) = Len(w) + (Len(s) + 1)
      /\ Append(w \o s, e) \in Seq(Edges) /\ Len(Append(w \o s, e)) = (Len(w) + Len(s)) + 1
  BY <1>1
<1>3. w \o Append(s, e) = Append(w \o s, e)
  OBVIOUS
<1>. QED BY <1>1, <1>3, ConcatEmptySeq

LEMMA SenseFields ==
  ASSUME NEW s \in Senses
  PROVE  /\ s.mode \in {"keys", "pins"} /\ s.queue \in Seq(Edges) /\ s.scanned \in Levels
         /\ s.full \in BOOLEAN /\ s.known \in Levels /\ s.pending \in Seq(Edges)
         /\ s.lost \in BOOLEAN
BY DEF Senses

\* One event of keypad's queue: known follows it, and if nothing is lost it is
\* no change or waits.
LEMMA MovedFacts ==
  ASSUME NEW s \in Senses, NEW e \in Edges
  PROVE  /\ Moved(s, e) \in Senses
         /\ Moved(s, e).mode = s.mode /\ Moved(s, e).queue = s.queue
         /\ Moved(s, e).scanned = s.scanned /\ Moved(s, e).full = s.full
         /\ s.lost => Moved(s, e).lost
         /\ \A ch \in Channels : Moved(s, e).known[ch] = IF e.ch = ch THEN e.held ELSE s.known[ch]
         /\ ~Moved(s, e).lost =>
              \/ Moved(s, e).pending = s.pending /\ e.held = s.known[e.ch]
              \/ Moved(s, e).pending = Append(s.pending, e) /\ e.held # s.known[e.ch]
<1>1. /\ e.ch \in Channels /\ e.held \in BOOLEAN /\ s.known \in Levels
      /\ s.pending \in Seq(Edges) /\ Append(s.pending, e) \in Seq(Edges)
  BY EdgeFields, SenseFields
<1> DEFINE k == [s.known EXCEPT ![e.ch] = e.held]
           p == Append(s.pending, e)
<1>2. k \in Levels /\ \A ch \in Channels : k[ch] = IF e.ch = ch THEN e.held ELSE s.known[ch]
  BY <1>1 DEF Levels
<1>3. CASE e.held = s.known[e.ch]
  <2>1. Moved(s, e) = s
    BY <1>3 DEF Moved
  <2>. QED BY <1>3, <2>1
<1>4. CASE e.held # s.known[e.ch] /\ Len(s.pending) >= QueueLen
  <2>1. Moved(s, e) = [s EXCEPT !.known = k, !.lost = TRUE]
    BY <1>4 DEF Moved
  <2> HIDE DEF k
  <2>2. LET r == [s EXCEPT !.known = k, !.lost = TRUE] IN
        /\ r \in Senses /\ r.mode = s.mode /\ r.queue = s.queue /\ r.scanned = s.scanned
        /\ r.full = s.full /\ r.lost /\ r.known = k
    BY <1>2 DEF Senses
  <2>. QED BY <1>2, <2>1, <2>2
<1>5. CASE e.held # s.known[e.ch] /\ ~(Len(s.pending) >= QueueLen)
  <2>1. Moved(s, e) = [s EXCEPT !.known = k, !.pending = p]
    BY <1>5 DEF Moved
  <2>2. p \in Seq(Edges)
    BY <1>1
  <2> HIDE DEF k, p
  <2>3. LET r == [s EXCEPT !.known = k, !.pending = p] IN
        /\ r \in Senses /\ r.mode = s.mode /\ r.queue = s.queue /\ r.scanned = s.scanned
        /\ r.full = s.full /\ r.lost = s.lost /\ r.known = k /\ r.pending = p
    BY <1>2, <2>2 DEF Senses
  <2>. QED BY <1>2, <1>5, <2>1, <2>3 DEF p
<1>. QED BY <1>3, <1>4, <1>5

\* The function that Pump is defined by exists.
LEMMA PumpExists ==
  ASSUME NEW s \in Senses
  PROVE  \E k : /\ k = [i \in 0..Len(s.queue) |->
                      IF i = 0 THEN s ELSE Moved(k[i - 1], s.queue[i])]
                /\ Pump(s) = IF s.mode # "keys" THEN s
                             ELSE [k[Len(s.queue)] EXCEPT !.queue = <<>>, !.full = FALSE,
                                                          !.lost = @ \/ s.full]
<1> DEFINE Step(k, i) == IF i = 0 THEN s ELSE Moved(k[i - 1], s.queue[i])
<1> DEFINE Exists(n) == \E k : k = [i \in 0..n |-> Step(k, i)]
<1> DEFINE Good == {n \in 0..Len(s.queue) : Exists(n)}
<1>1. Len(s.queue) \in Nat
  BY SenseFields
<1>2. 0 \in Good
  <2> DEFINE k == [i \in 0..0 |-> s]
  <2>1. k = [i \in 0..0 |-> Step(k, i)]
    OBVIOUS
  <2>2. Exists(0)
    <3> HIDE DEF k, Step
    <3>. QED BY <2>1
  <2> HIDE DEF Exists
  <2>. QED BY <1>1, <2>2
<1>3. ASSUME NEW n \in 1..Len(s.queue), n - 1 \in Good PROVE n \in Good
  <2>1. PICK k : k = [i \in 0..(n - 1) |-> Step(k, i)]
    <3>1. Exists(n - 1)
      <4> HIDE DEF Exists
      <4>. QED BY <1>3
    <3>. QED BY <3>1
  <2> DEFINE k2 == [i \in 0..n |-> IF i = n THEN Step(k, n) ELSE k[i]]
  <2>2. ASSUME NEW i \in 0..n PROVE k2[i] = Step(k2, i)
    <3>1. CASE i = n
      <4>1. n - 1 \in 0..n /\ n - 1 # n /\ n # 0
        OBVIOUS
      <4>2. k2[n - 1] = k[n - 1] /\ k2[n] = Step(k, n)
        BY <4>1
      <4>. QED BY <3>1, <4>1, <4>2
    <3>2. CASE i # n /\ i # 0
      <4>1. i \in 0..(n - 1) /\ i - 1 \in 0..n /\ i - 1 # n
        BY <3>2
      <4>2. k2[i - 1] = k[i - 1] /\ k2[i] = k[i]
        BY <3>2, <4>1
      <4>3. k[i] = Step(k, i)
        BY <2>1, <4>1
      <4>. QED BY <4>2, <4>3
    <3>3. CASE i # n /\ i = 0
      <4>1. i \in 0..(n - 1)
        BY <3>3
      <4>. QED BY <2>1, <3>3, <4>1
    <3>. QED BY <3>1, <3>2, <3>3
  <2>3. k2 = [i \in 0..n |-> Step(k2, i)]
    <3>1. k2 = [i \in 0..n |-> k2[i]]
      OBVIOUS
    <3> HIDE DEF k2, Step
    <3>. QED BY <2>2, <3>1
  <2>4. Exists(n)
    <3> HIDE DEF k2, Step
    <3>. QED BY <2>3
  <2> HIDE DEF Exists
  <2>. QED BY <1>1, <2>4
<1>4. Exists(Len(s.queue))
  <2> HIDE DEF Exists
  <2>1. \A n \in 1..Len(s.queue) : n - 1 \in Good => n \in Good
    BY <1>3
  <2>2. \A n \in 0..Len(s.queue) : n \in Good
    <3> HIDE DEF Good
    <3>. QED BY <1>1, <1>2, <2>1, Upwards
  <2>. QED BY <1>1, <2>2
<1>. QED BY <1>4 DEF Pump
\* Pump moves what keypad has queued; unless something is lost, every level is
\* known then.
LEMMA PumpFacts ==
  ASSUME NEW s \in Senses, NEW w \in Seq(Edges), NEW prev \in Levels, NEW lev \in Levels,
         WayOK(s, w, prev, lev)
  PROVE  /\ Pump(s) \in Senses /\ WayOK(Pump(s), w, prev, lev)
         /\ Pump(s).mode = s.mode /\ Pump(s).queue = <<>> /\ ~Pump(s).full
         /\ s.mode = "keys" /\ ~Pump(s).lost =>
              \A ch \in Channels : Pump(s).known[ch] = lev[ch]
<1> DEFINE q == s.queue
           n == Len(q)
<1>1. PICK k : /\ k = [i \in 0..n |-> IF i = 0 THEN s ELSE Moved(k[i - 1], q[i])]
               /\ Pump(s) = IF s.mode # "keys" THEN s
                            ELSE [k[n] EXCEPT !.queue = <<>>, !.full = FALSE, !.lost = @ \/ s.full]
  BY PumpExists
<1>2. q \in Seq(Edges) /\ n \in Nat /\ \A i \in 1..n : q[i] \in Edges
  BY SenseFields
<1> HIDE DEF q, n
<1>3. CASE s.mode = "pins"
  <2>1. Pump(s) = s
    BY <1>1, <1>3
  <2>. QED BY <1>3, <2>1 DEF WayOK
<1>4. CASE s.mode = "keys"
  <2> DEFINE Led(m) == \A ch \in Channels : Path(w \o m.pending, ch, prev[ch], m.known[ch])
             Rest(m, i) == \A ch \in Channels :
                             (\A j \in 1..n : i < j => q[j].ch # ch) => m.known[ch] = lev[ch]
             OK(i) == /\ k[i] \in Senses /\ k[i].mode = s.mode /\ k[i].scanned = s.scanned
                      /\ k[i].full = s.full /\ (s.lost => k[i].lost)
                      /\ ~k[i].lost /\ ~s.full => Led(k[i]) /\ Rest(k[i], i)
             Good == {i \in 0..n : OK(i)}
  <2>1. OK(0)
    <3>1. k[0] = s
      BY <1>1, <1>2
    <3>2. ASSUME ~s.lost, ~s.full PROVE Led(s) /\ Rest(s, 0)
      <4>1. Led(s) /\ \A ch \in Channels : LastIs(q, ch, s.known[ch], lev[ch])
        BY <1>4, <3>2 DEF WayOK, q
      <4>2. ASSUME NEW ch \in Channels, \A j \in 1..n : 0 < j => q[j].ch # ch
            PROVE  s.known[ch] = lev[ch]
        <5>1. \A j \in 1..n : q[j].ch # ch
          BY <4>2
        <5>. QED BY <4>1, <5>1 DEF LastIs, n
      <4>. QED BY <4>1, <4>2
    <3> HIDE DEF Led, Rest
    <3>. QED BY <3>1, <3>2
  <2>2. ASSUME NEW i \in 1..n, OK(i - 1) PROVE OK(i)
    <3> DEFINE m == k[i - 1]
               e == q[i]
               r == Moved(m, e)
    <3>1. k[i] = r /\ m \in Senses /\ e \in Edges
      <4>1. i \in 0..n /\ i # 0 /\ i - 1 \in 0..n
        BY <1>2
      <4>. QED BY <1>1, <1>2, <2>2, <4>1
    <3>2. m.mode = s.mode /\ m.scanned = s.scanned /\ m.full = s.full /\ (s.lost => m.lost)
      BY <2>2
    <3>3. ASSUME ~m.lost, ~s.full PROVE Led(m) /\ Rest(m, i - 1)
      <4> HIDE DEF Led, Rest
      <4>. QED BY <2>2, <3>3
    <3> HIDE DEF m, e
    <3>4. /\ r \in Senses /\ r.mode = m.mode /\ r.scanned = m.scanned /\ r.full = m.full
          /\ m.lost => r.lost
          /\ \A ch \in Channels : r.known[ch] = IF e.ch = ch THEN e.held ELSE m.known[ch]
          /\ ~r.lost => \/ r.pending = m.pending /\ e.held = m.known[e.ch]
                        \/ r.pending = Append(m.pending, e) /\ e.held # m.known[e.ch]
      BY <3>1, MovedFacts
    <3> HIDE DEF r
    <3>5. m.pending \in Seq(Edges) /\ m.known \in Levels
      BY <3>1, SenseFields
    <3>6. ASSUME ~r.lost, ~s.full PROVE Led(r)
      <4> SUFFICES ASSUME NEW ch \in Channels PROVE Path(w \o r.pending, ch, prev[ch], r.known[ch])
        OBVIOUS
      <4>1. Path(w \o m.pending, ch, prev[ch], m.known[ch])
        BY <3>3, <3>4, <3>6
      <4>2. CASE r.pending = m.pending /\ e.held = m.known[e.ch]
        <5>1. r.known[ch] = m.known[ch]
          BY <3>4, <4>2
        <5>. QED BY <4>1, <4>2, <5>1
      <4>3. CASE r.pending = Append(m.pending, e) /\ e.held # m.known[e.ch]
        <5> DEFINE way == w \o m.pending
                   from == prev[ch]
                   to == m.known[ch]
        <5>1. way \in Seq(Edges) /\ w \o r.pending = Append(way, e)
          BY <3>1, <3>5, <4>3, AppendConcat
        <5>2. from \in BOOLEAN /\ to \in BOOLEAN
          BY <3>5 DEF Levels
        <5>3. e.ch = ch => e.held # to
          BY <4>3
        <5>4. r.known[ch] = IF e.ch = ch THEN e.held ELSE to
          BY <3>4
        <5> HIDE DEF way, from, to
        <5>5. Path(way, ch, from, to)
          BY <4>1 DEF way, from, to
        <5>6. Path(Append(way, e), ch, from, IF e.ch = ch THEN e.held ELSE to)
          BY <3>1, <5>1, <5>2, <5>3, <5>5, PathAppend
        <5>. QED BY <5>1, <5>4, <5>6 DEF from
      <4>. QED BY <3>4, <3>6, <4>2, <4>3
    <3>7. ASSUME ~r.lost, ~s.full PROVE Rest(r, i)
      <4> SUFFICES ASSUME NEW ch \in Channels, \A j \in 1..n : i < j => q[j].ch # ch
                   PROVE  r.known[ch] = lev[ch]
        OBVIOUS
      <4>1. CASE e.ch = ch
        <5>1. ~After(q, ch, i)
          BY DEF After, n
        <5>2. LastIs(q, ch, s.known[ch], lev[ch])
          BY <1>4, <3>2, <3>4, <3>7 DEF WayOK, q
        <5>3. e.held = lev[ch]
          BY <4>1, <5>1, <5>2 DEF LastIs, n, e
        <5>. QED BY <3>4, <4>1, <5>3
      <4>2. CASE e.ch # ch
        <5>1. \A j \in 1..n : i - 1 < j => j = i \/ i < j
          BY <1>2
        <5>2. \A j \in 1..n : i - 1 < j => q[j].ch # ch
          BY <4>2, <5>1 DEF e
        <5>3. Rest(m, i - 1)
          <6> HIDE DEF Led, Rest
          <6>. QED BY <3>3, <3>4, <3>7
        <5>4. m.known[ch] = lev[ch]
          BY <5>2, <5>3
        <5>. QED BY <3>4, <4>2, <5>4
      <4>. QED BY <4>1, <4>2
    <3> HIDE DEF Led, Rest
    <3>. QED BY <3>1, <3>2, <3>4, <3>6, <3>7
  <2>3. OK(n)
    <3> HIDE DEF OK
    <3>1. 0 \in Good /\ \A i \in 1..n : i - 1 \in Good => i \in Good
      BY <1>2, <2>1, <2>2
    <3>2. \A i \in 0..n : i \in Good
      <4> HIDE DEF Good
      <4>. QED BY <1>2, <3>1, Upwards
    <3>. QED BY <1>2, <3>2
  <2> DEFINE m == k[n]
             r == [m EXCEPT !.queue = <<>>, !.full = FALSE, !.lost = m.lost \/ s.full]
  <2>4. Pump(s) = r
    BY <1>1, <1>4
  <2>5. /\ m \in Senses /\ m.mode = s.mode /\ m.scanned = s.scanned /\ m.full = s.full
        /\ s.lost => m.lost
        /\ ~m.lost /\ ~s.full => Led(m) /\ Rest(m, n)
    <3> HIDE DEF Led, Rest
    <3>. QED BY <2>3
  <2> HIDE DEF m
  <2>6. /\ r \in Senses /\ r.mode = s.mode /\ r.scanned = s.scanned /\ r.full = FALSE
        /\ r.queue = <<>> /\ r.known = m.known /\ r.pending = m.pending
        /\ r.lost = (m.lost \/ s.full)
    <3>1. <<>> \in Seq(Edges) /\ (m.lost \/ s.full) \in BOOLEAN
      OBVIOUS
    <3>. QED BY <2>5, <3>1 DEF Senses
  <2> HIDE DEF r
  <2>7. ASSUME ~r.lost, NEW ch \in Channels
        PROVE  /\ Path(w \o r.pending, ch, prev[ch], r.known[ch]) /\ r.known[ch] = lev[ch]
    <3>1. Led(m) /\ Rest(m, n)
      <4> HIDE DEF Led, Rest
      <4>. QED BY <2>5, <2>6, <2>7
    <3>2. \A j \in 1..n : ~(n < j)
      BY <1>2
    <3>3. m.known[ch] = lev[ch]
      BY <3>1, <3>2
    <3>. QED BY <2>6, <3>1, <3>3
  <2>8. ASSUME ~r.lost, NEW ch \in Channels PROVE LastIs(r.queue, ch, r.known[ch], lev[ch])
    <3>1. r.queue = <<>> /\ r.known[ch] = lev[ch]
      BY <2>6, <2>7, <2>8
    <3>. QED BY <3>1 DEF LastIs
  <2>9. r.scanned = lev
    BY <1>4, <2>6 DEF WayOK
  <2>10. WayOK(r, w, prev, lev)
    BY <1>4, <2>6, <2>7, <2>8, <2>9 DEF WayOK
  <2>. QED BY <2>4, <2>6, <2>7, <2>10
<1>. QED BY <1>3, <1>4, SenseFields

\* keypad's scan finds a channel at a level.
LEMMA ScanFacts ==
  ASSUME NEW s \in Senses, NEW w \in Seq(Edges), NEW prev \in Levels, NEW lev \in Levels,
         WayOK(s, w, prev, lev), NEW ch \in Channels, NEW held \in BOOLEAN
  PROVE  /\ Scan(s, ch, held) \in Senses
         /\ WayOK(Scan(s, ch, held), w, prev, [lev EXCEPT ![ch] = held])
<1> DEFINE e == Edge(ch, held, 0)
           lev2 == [lev EXCEPT ![ch] = held]
           sc2 == [s.scanned EXCEPT ![ch] = held]
           q2 == Append(s.queue, e)
<1>1. e \in Edges /\ e.ch = ch /\ e.held = held
  BY DEF Edge, Edges
<1>2. s.queue \in Seq(Edges) /\ s.scanned \in Levels
  BY SenseFields
<1>3. /\ lev2 \in Levels /\ sc2 \in Levels
      /\ \A c \in Channels : lev2[c] = IF e.ch = c THEN e.held ELSE lev[c]
      /\ s.scanned[ch] = held /\ s.scanned = lev => lev2 = lev
      /\ s.scanned = lev => sc2 = lev2
  BY <1>1, <1>2 DEF Levels
<1>4. q2 \in Seq(Edges)
  BY <1>1, <1>2, AppendFacts
<1> HIDE DEF e, lev2, sc2, q2
<1>5. CASE s.mode # "keys"
  <2>1. Scan(s, ch, held) = s
    BY <1>5 DEF Scan
  <2>2. WayOK(s, w, prev, lev2)
    BY <1>5 DEF WayOK
  <2>. QED BY <2>1, <2>2 DEF lev2
<1>6. CASE s.mode = "keys" /\ s.scanned[ch] = held
  <2>1. Scan(s, ch, held) = s
    BY <1>6 DEF Scan
  <2>2. lev2 = lev
    BY <1>3, <1>6 DEF WayOK
  <2>. QED BY <2>1, <2>2 DEF lev2
<1>7. CASE s.mode = "keys" /\ s.scanned[ch] # held /\ Len(s.queue) < QueueLen
  <2> DEFINE r == [s EXCEPT !.scanned = sc2, !.queue = q2]
  <2>1. Scan(s, ch, held) = r
    BY <1>7 DEF Scan, sc2, q2, e
  <2>2. /\ r \in Senses /\ r.mode = s.mode /\ r.scanned = sc2 /\ r.queue = q2
        /\ r.full = s.full /\ r.lost = s.lost /\ r.known = s.known /\ r.pending = s.pending
    BY <1>3, <1>4 DEF Senses
  <2> HIDE DEF r
  <2>3. ASSUME NEW c \in Channels, LastIs(s.queue, c, s.known[c], lev[c])
        PROVE  LastIs(q2, c, s.known[c], lev2[c])
    BY <1>1, <1>2, <1>3, <2>3, LastIsAppend DEF q2
  <2>4. WayOK(r, w, prev, lev2)
    BY <1>3, <1>7, <2>2, <2>3 DEF WayOK
  <2>. QED BY <2>1, <2>2, <2>4 DEF lev2
<1>8. CASE s.mode = "keys" /\ s.scanned[ch] # held /\ ~(Len(s.queue) < QueueLen)
  <2> DEFINE r == [s EXCEPT !.scanned = sc2, !.full = TRUE]
  <2>1. Scan(s, ch, held) = r
    BY <1>8 DEF Scan, sc2
  <2>2. r \in Senses /\ r.mode = s.mode /\ r.scanned = sc2 /\ r.full = TRUE
    BY <1>3 DEF Senses
  <2> HIDE DEF r
  <2>3. WayOK(r, w, prev, lev2)
    BY <1>3, <1>8, <2>2 DEF WayOK
  <2>. QED BY <2>1, <2>2, <2>3 DEF lev2
<1>. QED BY <1>5, <1>6, <1>7, <1>8

-----------------------------------------------------------------------------
(* The pins change hands.                                                  *)

\* Of a row of edges, one a channel, those of some channels.
LEMMA Singles ==
  ASSUME NEW E \in Seq(Edges), Len(E) = NChannels, \A ch \in Channels : E[ch].ch = ch,
         NEW C \in SUBSET Channels
  PROVE  LET t == Keeping(E, {E[ch] : ch \in C}) IN
         /\ t \in Seq(Edges)
         /\ \A i \in 1..Len(t) : t[i].ch \in C /\ t[i] = E[t[i].ch]
         /\ \A ch \in C : \E i \in 1..Len(t) : t[i].ch = ch
         /\ \A i \in 1..Len(t) : \A j \in 1..Len(t) : t[i].ch = t[j].ch => i = j
<1> DEFINE S == {E[ch] : ch \in C}
           t == Keeping(E, S)
<1>1. /\ \A ch \in Channels : E[ch] \in ToSet(E)
      /\ \A i \in 1..Len(E) : i \in Channels
  BY SetOf DEF Channels
<1>2. NoDups(E)
  BY <1>1 DEF NoDups
<1> HIDE DEF S
<1>3. t \in Seq(Edges) /\ ToSet(t) = ToSet(E) \cap S /\ NoDups(t)
  BY <1>2, KeepingFacts
<1> HIDE DEF t
<1>4. \A y : y \in ToSet(t) <=> \E i \in 1..Len(t) : y = t[i]
  BY <1>3, SetOf
<1>5. ASSUME NEW i \in 1..Len(t) PROVE t[i].ch \in C /\ t[i] = E[t[i].ch]
  <2>1. t[i] \in S
    BY <1>3, <1>4
  <2>2. PICK ch \in C : t[i] = E[ch]
    BY <2>1 DEF S
  <2>. QED BY <2>2
<1>6. ASSUME NEW ch \in C PROVE \E i \in 1..Len(t) : t[i].ch = ch
  <2>1. E[ch] \in ToSet(t)
    BY <1>1, <1>3 DEF S
  <2>2. PICK i \in 1..Len(t) : E[ch] = t[i]
    BY <1>4, <2>1
  <2>. QED BY <2>2
<1>7. ASSUME NEW i \in 1..Len(t), NEW j \in 1..Len(t), t[i].ch = t[j].ch PROVE i = j
  <2>1. t[i] = t[j]
    BY <1>5, <1>7
  <2>2. Len(t) \in Nat
    BY <1>3, SetOf
  <2>3. ~(i < j) /\ ~(j < i)
    BY <1>3, <2>1 DEF NoDups
  <2>. QED BY <2>2, <2>3
<1>8. /\ t \in Seq(Edges)
      /\ \A i \in 1..Len(t) : t[i].ch \in C /\ t[i] = E[t[i].ch]
      /\ \A ch \in C : \E i \in 1..Len(t) : t[i].ch = ch
      /\ \A i \in 1..Len(t) : \A j \in 1..Len(t) : t[i].ch = t[j].ch => i = j
  BY <1>3, <1>5, <1>6, <1>7
<1>. QED BY <1>8 DEF t, S

\* A row with one edge for every channel.
LEMMA Row ==
  ASSUME NEW h \in Levels, NEW age \in Int
  PROVE  LET E == [ch \in Channels |-> Edge(ch, h[ch], age)] IN
         /\ E \in Seq(Edges) /\ Len(E) = NChannels
         /\ \A ch \in Channels : E[ch].ch = ch /\ E[ch].held = h[ch]
<1> DEFINE E == [ch \in Channels |-> Edge(ch, h[ch], age)]
<1>1. \A ch \in Channels : Edge(ch, h[ch], age) \in Edges
  BY DEF Edge, Edges, Levels
<1>2. E \in [1..NChannels -> Edges] /\ NChannels \in Nat
  BY <1>1, SetupFacts DEF Channels
<1>3. E \in Seq(Edges) /\ Len(E) = NChannels
  <2> HIDE DEF E
  <2>. QED BY <1>2
<1>4. \A ch \in Channels : E[ch].ch = ch /\ E[ch].held = h[ch]
  BY DEF Edge
<1>. QED BY <1>3, <1>4

\* What changed while nothing watched leads on to the levels.
LEMMA ReadFacts ==
  ASSUME NEW s \in Senses, NEW w \in Seq(Edges), NEW prev \in Levels, NEW lev \in Levels
  PROVE  /\ ReadLevels(s, lev) \in Senses
         /\ ReadLevels(s, lev).mode = s.mode /\ ReadLevels(s, lev).queue = s.queue
         /\ ReadLevels(s, lev).full = s.full /\ ReadLevels(s, lev).lost = s.lost
         /\ ReadLevels(s, lev).known = lev
         /\ \A ch \in Channels : Path(w \o s.pending, ch, prev[ch], s.known[ch]) =>
              Path(w \o ReadLevels(s, lev).pending, ch, prev[ch], lev[ch])
<1> DEFINE E == [ch \in Channels |-> Edge(ch, lev[ch], Unstamped)]
           C == {ch \in Channels : s.known[ch] # lev[ch]}
           t == Keeping(E, {E[ch] : ch \in C})
           p == s.pending \o t
           r == [s EXCEPT !.known = lev, !.pending = p]
<1>1. ReadLevels(s, lev) = r
  BY DEF ReadLevels
<1>2. /\ E \in Seq(Edges) /\ Len(E) = NChannels
      /\ \A ch \in Channels : E[ch].ch = ch /\ E[ch].held = lev[ch]
  BY Row DEF Unstamped
<1>3. C \in SUBSET Channels
  OBVIOUS
<1> HIDE DEF E, r
<1>4. /\ t \in Seq(Edges)
      /\ \A i \in 1..Len(t) : t[i].ch \in C /\ t[i] = E[t[i].ch]
      /\ \A ch \in C : \E i \in 1..Len(t) : t[i].ch = ch
      /\ \A i \in 1..Len(t) : \A j \in 1..Len(t) : t[i].ch = t[j].ch => i = j
  <2> HIDE DEF C
  <2>. QED BY <1>2, <1>3, Singles, ZenonT(40)
<1> HIDE DEF t
<1>5. s.pending \in Seq(Edges) /\ s.known \in Levels
  BY SenseFields
<1>6. p \in Seq(Edges)
  BY <1>4, <1>5
<1>7. w \o p = (w \o s.pending) \o t /\ w \o s.pending \in Seq(Edges)
  <2>1. w \o p = w \o (s.pending \o t)
    BY DEF p
  <2>2. w \o s.pending \in Seq(Edges)
    BY <1>5
  <2>3. (w \o s.pending) \o t = w \o (s.pending \o t)
    <3> DEFINE v == s.pending
    <3>1. v \in Seq(Edges)
      BY <1>5
    <3> HIDE DEF v
    <3>2. (w \o v) \o t = w \o (v \o t)
      BY <1>4, <3>1, ConcatAssociative
    <3>. QED BY <3>2 DEF v
  <2>. QED BY <2>1, <2>2, <2>3
<1> HIDE DEF p
<1>8. /\ r \in Senses /\ r.mode = s.mode /\ r.queue = s.queue /\ r.full = s.full
      /\ r.lost = s.lost /\ r.known = lev /\ r.pending = p
  BY <1>6 DEF r, Senses
<1>9. ASSUME NEW ch \in Channels PROVE Path(t, ch, s.known[ch], lev[ch])
  <2>1. ASSUME NEW i \in 1..Len(t), t[i].ch = ch
        PROVE  t[i].held # s.known[ch] /\ t[i].held = lev[ch]
    BY <1>2, <1>4, <2>1
  <2>2. \A i \in 1..Len(t) : \A j \in 1..Len(t) : i < j => t[i].ch # t[j].ch
    <3>1. Len(t) \in Nat
      BY <1>4, SetOf
    <3>2. \A i \in 1..Len(t) : ~(i < i)
      BY <3>1
    <3>. QED BY <1>4, <3>2
  <2>3. (\A i \in 1..Len(t) : t[i].ch # ch) => s.known[ch] = lev[ch]
    BY <1>4
  <2>. QED BY <2>1, <2>2, <2>3 DEF Path
<1>10. ASSUME NEW ch \in Channels, Path(w \o s.pending, ch, prev[ch], s.known[ch])
       PROVE  Path(w \o p, ch, prev[ch], lev[ch])
  <2>1. prev[ch] \in BOOLEAN /\ s.known[ch] \in BOOLEAN /\ lev[ch] \in BOOLEAN
    BY <1>5 DEF Levels
  <2>2. Path(t, ch, s.known[ch], lev[ch])
    BY <1>9
  <2> DEFINE way == w \o s.pending
             a == prev[ch]
             b == s.known[ch]
             c == lev[ch]
  <2>3. Path(way, ch, a, b) /\ Path(t, ch, b, c) /\ way \in Seq(Edges)
        /\ a \in BOOLEAN /\ b \in BOOLEAN /\ c \in BOOLEAN
    BY <1>7, <1>10, <2>1, <2>2
  <2> HIDE DEF way, a, b, c
  <2>4. Path(way \o t, ch, a, c)
    BY <1>4, <2>3, PathConcat
  <2>. QED BY <1>7, <2>4 DEF way, a, c
<1>. QED BY <1>1, <1>8, <1>10

\* The survey takes the pins.
LEMMA ToPinsFacts ==
  ASSUME NEW s \in Senses, NEW w \in Seq(Edges), NEW prev \in Levels, NEW lev \in Levels,
         WayOK(s, w, prev, lev)
  PROVE  ToPins(s, lev) \in Senses /\ WayOK(ToPins(s, lev), w, prev, lev)
<1>1. CASE s.mode = "pins"
  BY <1>1 DEF ToPins
<1>2. CASE s.mode # "pins"
  <2> DEFINE m == Pump(s)
             t == ReadLevels(m, lev)
             r == [t EXCEPT !.mode = "pins"]
  <2>1. m \in Senses /\ WayOK(m, w, prev, lev) /\ m.queue = <<>> /\ ~m.full
    BY PumpFacts
  <2>2. ToPins(s, lev) = r
    BY <1>2 DEF ToPins
  <2> HIDE DEF m
  <2>3. /\ t \in Senses /\ t.queue = m.queue /\ t.full = m.full /\ t.lost = m.lost
        /\ t.known = lev
        /\ \A ch \in Channels : Path(w \o m.pending, ch, prev[ch], m.known[ch]) =>
              Path(w \o t.pending, ch, prev[ch], lev[ch])
    BY <2>1, ReadFacts
  <2> HIDE DEF t
  <2>4. /\ r \in Senses /\ r.mode = "pins" /\ r.queue = t.queue /\ r.full = t.full
        /\ r.lost = t.lost /\ r.known = t.known /\ r.pending = t.pending
    BY <2>3 DEF Senses
  <2> HIDE DEF r
  <2>5. ASSUME ~r.lost, ~r.full, NEW ch \in Channels
        PROVE  Path(w \o r.pending, ch, prev[ch], r.known[ch])
    <3>1. Path(w \o m.pending, ch, prev[ch], m.known[ch])
      BY <2>1, <2>3, <2>4, <2>5 DEF WayOK
    <3>. QED BY <2>3, <2>4, <3>1
  <2>6. WayOK(r, w, prev, lev)
    BY <2>1, <2>3, <2>4, <2>5 DEF WayOK
  <2>. QED BY <2>2, <2>4, <2>6
<1>. QED BY <1>1, <1>2

\* keypad takes them back, with every key up.
LEMMA ToKeysFacts ==
  ASSUME NEW s \in Senses, NEW w \in Seq(Edges), NEW prev \in Levels, NEW lev \in Levels,
         WayOK(s, w, prev, lev)
  PROVE  ToKeys(s, lev) \in Senses /\ WayOK(ToKeys(s, lev), w, prev, lev)
<1>1. CASE s.mode = "keys"
  BY <1>1 DEF ToKeys
<1>2. CASE s.mode # "keys"
  <2> DEFINE h == [ch \in Channels |-> TRUE]
             E == [ch \in Channels |-> Edge(ch, h[ch], 0)]
             C == {c \in Channels : lev[c]}
             q == Keeping(E, {E[ch] : ch \in C})
             t == ReadLevels(s, lev)
             r == [t EXCEPT !.mode = "keys", !.scanned = lev, !.full = FALSE, !.queue = q]
  <2>1. h \in Levels /\ E = [ch \in Channels |-> Edge(ch, TRUE, 0)]
    BY DEF Levels
  <2>2. ToKeys(s, lev) = r
    BY <1>2, <2>1 DEF ToKeys
  <2>3. s.mode = "pins"
    BY <1>2, SenseFields
  <2>4. /\ E \in Seq(Edges) /\ Len(E) = NChannels
        /\ \A ch \in Channels : E[ch].ch = ch /\ E[ch].held = h[ch]
    <3> HIDE DEF h
    <3>. QED BY <2>1, Row
  <2>5. \A ch \in Channels : h[ch] = TRUE
    OBVIOUS
  <2>6. C \in SUBSET Channels
    OBVIOUS
  <2> HIDE DEF h, E
  <2>7. /\ q \in Seq(Edges)
        /\ \A i \in 1..Len(q) : q[i].ch \in C /\ q[i] = E[q[i].ch]
        /\ \A ch \in C : \E i \in 1..Len(q) : q[i].ch = ch
        /\ \A i \in 1..Len(q) : \A j \in 1..Len(q) : q[i].ch = q[j].ch => i = j
    <3> HIDE DEF C
    <3>. QED BY <2>4, <2>6, Singles
  <2> HIDE DEF q
  <2>8. /\ t \in Senses /\ t.lost = s.lost /\ t.known = lev
        /\ \A ch \in Channels : Path(w \o s.pending, ch, prev[ch], s.known[ch]) =>
              Path(w \o t.pending, ch, prev[ch], lev[ch])
    BY ReadFacts
  <2> HIDE DEF t
  <2>9. /\ r \in Senses /\ r.mode = "keys" /\ r.queue = q /\ r.full = FALSE /\ r.scanned = lev
        /\ r.lost = t.lost /\ r.known = t.known /\ r.pending = t.pending
    BY <2>7, <2>8 DEF Senses
  <2> HIDE DEF r
  <2>10. ASSUME ~r.lost, NEW ch \in Channels
         PROVE  Path(w \o r.pending, ch, prev[ch], r.known[ch])
    <3>1. Path(w \o s.pending, ch, prev[ch], s.known[ch])
      BY <2>3, <2>8, <2>9, <2>10 DEF WayOK
    <3>. QED BY <2>8, <2>9, <3>1
  <2>11. ASSUME NEW ch \in Channels PROVE LastIs(q, ch, lev[ch], lev[ch])
    <3>1. ASSUME NEW i \in 1..Len(q), q[i].ch = ch PROVE q[i].held = lev[ch]
      <4>1. ch \in C /\ q[i] = E[ch]
        BY <2>7, <3>1
      <4>2. lev[ch] = TRUE
        BY <4>1 DEF Levels
      <4>. QED BY <2>4, <2>5, <4>1, <4>2
    <3>. QED BY <3>1 DEF LastIs
  <2>12. WayOK(r, w, prev, lev)
    BY <2>8, <2>9, <2>10, <2>11 DEF WayOK
  <2>. QED BY <2>2, <2>9, <2>12
<1>. QED BY <1>1, <1>2

\* The task takes what is on its way.
LEMMA DrainFacts ==
  ASSUME NEW s \in Senses, NEW prev \in Levels, NEW lev \in Levels, WayOK(s, <<>>, prev, lev)
  PROVE  /\ Drain(s) \in Senses /\ Drained(s) \in Seq(Edges)
         /\ WayOK(Drain(s), Drained(s), prev, lev)
<1> DEFINE m == Pump(s)
           p == m.pending
           r == [m EXCEPT !.pending = <<>>]
<1>1. Drained(s) = p /\ Drain(s) = r
  BY DEF Drained, Drain
<1>2. <<>> \in Seq(Edges)
  OBVIOUS
<1>3. m \in Senses /\ WayOK(m, <<>>, prev, lev)
  BY <1>2, PumpFacts
<1> HIDE DEF m
<1>4. p \in Seq(Edges)
  BY <1>3, SenseFields
<1>5. /\ r \in Senses /\ r.mode = m.mode /\ r.queue = m.queue /\ r.scanned = m.scanned
      /\ r.full = m.full /\ r.lost = m.lost /\ r.known = m.known /\ r.pending = <<>>
  BY <1>2, <1>3 DEF Senses
<1> HIDE DEF p, r
<1>6. <<>> \o m.pending = p /\ p \o r.pending = p
  <2>1. <<>> \o p = p /\ p \o <<>> = p
    BY <1>4
  <2>. QED BY <1>5, <2>1 DEF p
<1>7. ASSUME ~r.lost, ~r.full, NEW ch \in Channels
      PROVE  Path(p \o r.pending, ch, prev[ch], r.known[ch])
  BY <1>3, <1>5, <1>6, <1>7 DEF WayOK
<1>8. WayOK(r, p, prev, lev)
  BY <1>3, <1>5, <1>7 DEF WayOK
<1>. QED BY <1>1, <1>4, <1>5, <1>8

\* The first edge is handled: its channel is at its level.
LEMMA HandleFacts ==
  ASSUME NEW s \in Senses, NEW w \in Seq(Edges), w # <<>>, NEW prev \in Levels,
         NEW lev \in Levels, WayOK(s, w, prev, lev)
  PROVE  /\ Tail(w) \in Seq(Edges) /\ Head(w) \in Edges
         /\ WayOK(s, Tail(w), [prev EXCEPT ![Head(w).ch] = Head(w).held], lev)
<1> DEFINE e == Head(w)
           v == Tail(w)
           p == s.pending
           prev2 == [prev EXCEPT ![e.ch] = e.held]
<1>1. e \in Edges /\ v \in Seq(Edges) /\ p \in Seq(Edges)
  BY SenseFields
<1>2. w \o p \in Seq(Edges) /\ w \o p # <<>> /\ Head(w \o p) = e /\ Tail(w \o p) = v \o p
  <2> HIDE DEF p
  <2>1. w \o p \in Seq(Edges) /\ w \o p # <<>> /\ Len(w \o p) = Len(w) + Len(p)
        /\ Len(w) \in Nat /\ Len(p) \in Nat /\ Len(w) >= 1
    BY <1>1, SetOf
  <2>2. Head(w \o p) = e
    BY <1>1
  <2>3. Tail(w \o p) = v \o p
    BY <1>1
  <2>. QED BY <2>1, <2>2, <2>3
<1> HIDE DEF e, v, p
<1>3. e.ch \in Channels /\ e.held \in BOOLEAN
  BY <1>1, EdgeFields
<1>4. \A ch \in Channels : prev2[ch] = IF e.ch = ch THEN e.held ELSE prev[ch]
  BY <1>3 DEF Levels
<1> HIDE DEF prev2
<1>5. ASSUME ~s.lost, ~s.full, NEW ch \in Channels
      PROVE  Path(v \o s.pending, ch, prev2[ch], s.known[ch])
  <2> DEFINE way == w \o p
             a == prev[ch]
             b == s.known[ch]
  <2>1. Path(way, ch, a, b)
    BY <1>5 DEF WayOK, p
  <2>2. way \in Seq(Edges) /\ way # <<>> /\ a \in BOOLEAN /\ b \in BOOLEAN
        /\ Head(way) = e /\ Tail(way) = v \o p
    BY <1>2, SenseFields DEF Levels
  <2> HIDE DEF way, a, b
  <2>3. Path(Tail(way), ch, IF Head(way).ch = ch THEN Head(way).held ELSE a, b)
    BY <2>1, <2>2, PathTail
  <2>. QED BY <1>4, <2>2, <2>3 DEF a, b, p
<1>6. WayOK(s, v, prev2, lev)
  BY <1>5 DEF WayOK
<1>. QED BY <1>1, <1>6 DEF e, v, prev2

\* Time passes.
Older(q) == [i \in DOMAIN q |-> Later(q[i])]

LEMMA OlderFacts ==
  ASSUME NEW q \in Seq(Edges)
  PROVE  /\ Older(q) \in Seq(Edges) /\ Len(Older(q)) = Len(q)
         /\ \A i \in 1..Len(q) : Older(q)[i].ch = q[i].ch /\ Older(q)[i].held = q[i].held
<1>1. DOMAIN q = 1..Len(q) /\ Len(q) \in Nat /\ \A i \in 1..Len(q) : q[i] \in Edges
  OBVIOUS
<1>2. ASSUME NEW e \in Edges
      PROVE  Later(e) \in Edges /\ Later(e).ch = e.ch /\ Later(e).held = e.held
  <2>1. e.age + 1 \in Int
    BY EdgeFields
  <2>. QED BY <2>1 DEF Later, Edges
<1>3. Older(q) = [i \in 1..Len(q) |-> Later(q[i])]
  BY <1>1 DEF Older
<1>4. Older(q) \in [1..Len(q) -> Edges]
  BY <1>1, <1>2, <1>3
<1>5. Older(q) \in Seq(Edges) /\ Len(Older(q)) = Len(q)
  BY <1>1, <1>4
<1>. QED BY <1>1, <1>2, <1>3, <1>5

LEMMA AgingFacts ==
  ASSUME NEW s \in Senses, NEW w \in Seq(Edges), NEW prev \in Levels, NEW lev \in Levels,
         WayOK(s, w, prev, lev)
  PROVE  LET r == [s EXCEPT !.queue = Older(s.queue), !.pending = Older(s.pending)] IN
         r \in Senses /\ WayOK(r, Older(w), prev, lev)
<1> DEFINE q == s.queue
           p == s.pending
           q2 == Older(q)
           p2 == Older(p)
           w2 == Older(w)
           r == [s EXCEPT !.queue = q2, !.pending = p2]
<1>1. q \in Seq(Edges) /\ p \in Seq(Edges)
  BY SenseFields
<1> HIDE DEF q, p
<1>2. /\ q2 \in Seq(Edges) /\ Len(q2) = Len(q) /\ p2 \in Seq(Edges) /\ Len(p2) = Len(p)
      /\ w2 \in Seq(Edges) /\ Len(w2) = Len(w)
      /\ \A i \in 1..Len(q) : q2[i].ch = q[i].ch /\ q2[i].held = q[i].held
      /\ \A i \in 1..Len(p) : p2[i].ch = p[i].ch /\ p2[i].held = p[i].held
      /\ \A i \in 1..Len(w) : w2[i].ch = w[i].ch /\ w2[i].held = w[i].held
  BY <1>1, OlderFacts
<1> HIDE DEF q2, p2, w2
<1>3. /\ r \in Senses /\ r.mode = s.mode /\ r.queue = q2 /\ r.scanned = s.scanned
      /\ r.full = s.full /\ r.lost = s.lost /\ r.known = s.known /\ r.pending = p2
  BY <1>2 DEF Senses
<1> HIDE DEF r
<1>4. Len(w2 \o p2) = Len(w \o p)
      /\ \A i \in 1..Len(w \o p) : /\ (w2 \o p2)[i].ch = (w \o p)[i].ch
                                   /\ (w2 \o p2)[i].held = (w \o p)[i].held
  <2>1. /\ Len(w) \in Nat /\ Len(p) \in Nat
        /\ Len(w \o p) = Len(w) + Len(p)
        /\ \A i \in 1..(Len(w) + Len(p)) : (w \o p)[i] = IF i <= Len(w) THEN w[i] ELSE p[i - Len(w)]
    BY <1>1
  <2>2. /\ Len(w2 \o p2) = Len(w2) + Len(p2)
        /\ \A i \in 1..(Len(w2) + Len(p2)) :
             (w2 \o p2)[i] = IF i <= Len(w2) THEN w2[i] ELSE p2[i - Len(w2)]
    <3>1. w2 \in Seq(Edges) /\ p2 \in Seq(Edges)
      BY <1>2
    <3>. QED BY <3>1
  <2>3. ASSUME NEW i \in 1..(Len(w) + Len(p))
        PROVE  (w2 \o p2)[i].ch = (w \o p)[i].ch /\ (w2 \o p2)[i].held = (w \o p)[i].held
    <3>1. CASE i <= Len(w)
      <4>1. i \in 1..Len(w)
        BY <2>1, <3>1
      <4>2. (w \o p)[i] = w[i] /\ (w2 \o p2)[i] = w2[i]
        BY <1>2, <2>1, <2>2, <3>1
      <4>. QED BY <1>2, <4>1, <4>2
    <3>2. CASE ~(i <= Len(w))
      <4>1. i - Len(w) \in 1..Len(p)
        BY <2>1, <3>2
      <4>2. (w \o p)[i] = p[i - Len(w)] /\ (w2 \o p2)[i] = p2[i - Len(w)]
        BY <1>2, <2>1, <2>2, <3>2
      <4>. QED BY <1>2, <4>1, <4>2
    <3>. QED BY <3>1, <3>2
  <2>. QED BY <1>2, <2>1, <2>2, <2>3
<1>5. ASSUME ~s.lost, ~s.full, NEW ch \in Channels
      PROVE  Path(w2 \o p2, ch, prev[ch], s.known[ch])
  <2> DEFINE x == w \o p
             y == w2 \o p2
             a == prev[ch]
             b == s.known[ch]
  <2>1. Path(x, ch, a, b)
    BY <1>5 DEF WayOK, p
  <2>2. Len(y) = Len(x) /\ \A i \in 1..Len(x) : y[i].ch = x[i].ch /\ y[i].held = x[i].held
    BY <1>4
  <2> HIDE DEF x, y, a, b
  <2>3. Path(y, ch, a, b)
    BY <2>1, <2>2, PathSame
  <2>. QED BY <2>3 DEF y, a, b
<1>6. ASSUME NEW ch \in Channels, LastIs(q, ch, s.known[ch], lev[ch])
      PROVE  LastIs(q2, ch, s.known[ch], lev[ch])
  BY <1>2, <1>6, LastIsSame
<1>7. s.queue = <<>> => q2 = <<>>
  BY <1>1, <1>2, SetOf DEF q
<1>8. WayOK(r, w2, prev, lev)
  BY <1>3, <1>5, <1>6, <1>7 DEF WayOK, q
<1>. QED BY <1>3, <1>8 DEF r, q2, p2, w2, q, p

-----------------------------------------------------------------------------
(* A channel and its ring.                                                 *)

LEMMA BellFields ==
  ASSUME NEW c \in Bells
  PROVE  /\ c.prev \in BOOLEAN /\ c.watched \in BOOLEAN /\ c.stroke \in Int
         /\ c.armed \in BOOLEAN /\ c.open \in Int /\ c.low \in Int
         /\ c.stuck \in BOOLEAN /\ c.sounding \in BOOLEAN
BY DEF Bells

LEMMA OpenedFacts ==
  ASSUME NEW c \in Bells, NEW age \in Int
  PROVE  /\ Opened(c, age) \in Bells
         /\ Opened(c, age).prev = c.prev /\ Opened(c, age).sounding = c.sounding
<1> DEFINE since == IF c.open # None /\ c.open < age THEN age ELSE c.open
           o == IF since = None THEN age ELSE since
           a == c.armed \/ (since # None /\ Since(since, age) >= RearmMs)
<1>1. None \in Int /\ since \in Int /\ o \in Int
  BY BellFields DEF None
<1>2. a \in BOOLEAN
  BY BellFields
<1>3. Opened(c, age) = [c EXCEPT !.low = None, !.stuck = FALSE, !.open = o, !.armed = a]
  BY DEF Opened
<1> HIDE DEF o, a
<1>. QED BY <1>1, <1>2, <1>3 DEF Bells

LEMMA PressedFacts ==
  ASSUME NEW c \in Bells, NEW age \in Int, NEW quiet \in BOOLEAN
  PROVE  /\ Pressed(c, age, quiet) \in Bells
         /\ Pressed(c, age, quiet).prev = c.prev /\ Pressed(c, age, quiet).sounding = c.sounding
         /\ Stuck(c, age, quiet) \in BOOLEAN
<1> DEFINE l == IF c.low = None THEN age ELSE c.low
           k == c.stuck \/ Stuck(c, age, quiet)
           t == IF Press(c, age) THEN age ELSE c.stroke
<1>1. None \in Int /\ l \in Int /\ t \in Int
  BY BellFields DEF None
<1>2. k \in BOOLEAN /\ Stuck(c, age, quiet) \in BOOLEAN
  BY BellFields DEF Stuck
<1>3. Pressed(c, age, quiet) = [c EXCEPT !.open = None, !.armed = FALSE, !.low = l, !.stuck = k, !.stroke = t]
  BY DEF Pressed
<1> HIDE DEF l, k, t
<1>. QED BY <1>1, <1>2, <1>3 DEF Bells

\* A trigger's note ends with the first look that finds its switch open.
LEMMA TriggerFacts ==
  ASSUME NEW c \in Bells, NEW held \in BOOLEAN, NEW age \in Int, NEW quiet \in BOOLEAN
  PROVE  \E b \in Bells : \E d \in BOOLEAN : \E k : \E n :
           /\ TriggerEdge(c, held, age, quiet) = [bell |-> b, counted |-> k, note |-> n, doubt |-> d]
           /\ b.prev = c.prev
           /\ ~held => ~b.sounding
<1> DEFINE k == held /\ Press(c, age)
           n == Note(c, held, k)
           o == IF held THEN Pressed(c, age, quiet) ELSE Opened(c, age)
           x == (n = "on") \/ (c.sounding /\ n # "off")
           b == [o EXCEPT !.sounding = x]
           d == held /\ Stuck(c, age, quiet)
<1>1. o \in Bells /\ o.prev = c.prev /\ o.sounding = c.sounding /\ d \in BOOLEAN
  BY OpenedFacts, PressedFacts
<1>2. k \in BOOLEAN /\ c.sounding \in BOOLEAN
  BY BellFields DEF Press, Armed
<1>3. TriggerEdge(c, held, age, quiet) = [bell |-> b, counted |-> k, note |-> n, doubt |-> d]
  BY <1>1 DEF TriggerEdge
<1>5. ~held => ~x
  <2>1. ~held => k = FALSE
    OBVIOUS
  <2> HIDE DEF k
  <2>2. ~held => n = IF c.sounding THEN "off" ELSE "none"
    BY <1>2, <2>1 DEF Note
  <2> HIDE DEF n
  <2>. QED BY <1>2, <2>2
<1>6. x \in BOOLEAN
  BY <1>2
<1> HIDE DEF o, x, k, n, d
<1>7. b \in Bells /\ b.prev = c.prev /\ b.sounding = x
  BY <1>1, <1>6 DEF Bells
<1> HIDE DEF b
<1>. QED BY <1>1, <1>3, <1>5, <1>7

LEMMA PlainFacts ==
  ASSUME NEW c \in Bells, NEW became \in BOOLEAN, NEW age \in Int
  PROVE  \E b \in Bells, k \in BOOLEAN :
           /\ PlainEdge(c, became, age) = [bell |-> b, counted |-> k, note |-> "none", doubt |-> FALSE]
           /\ b.prev = c.prev
<1> DEFINE double == c.stroke # None /\ Since(c.stroke, age) < GapMs
           k == became /\ c.watched /\ ~double
           t == IF k THEN age ELSE c.stroke
           b == [c EXCEPT !.stroke = t]
<1>1. k \in BOOLEAN /\ t \in Int
  BY BellFields
<1>2. PlainEdge(c, became, age) = [bell |-> b, counted |-> k, note |-> "none", doubt |-> FALSE]
  BY DEF PlainEdge
<1> HIDE DEF k, t
<1>3. b \in Bells /\ b.prev = c.prev
  BY <1>1 DEF Bells
<1> HIDE DEF b
<1>. QED BY <1>1, <1>2, <1>3

\* An edge, or a look: the channel is at its level, a change at what is taken
\* for no bell puts the plugs in doubt, and no trigger sounds that is open.
LEMMA ChannelFacts ==
  ASSUME NEW c \in Bells, NEW name, NEW held \in BOOLEAN, NEW age \in Int, NEW quiet \in BOOLEAN
  PROVE  /\ Channel(c, name, held, age, quiet).bell \in Bells
         /\ Channel(c, name, held, age, quiet).bell.prev = held
         /\ Channel(c, name, held, age, quiet).doubt \in BOOLEAN
         /\ name \in Plugs /\ held # c.prev => Channel(c, name, held, age, quiet).doubt
         /\ name = "trigger" /\ ~held => ~Channel(c, name, held, age, quiet).bell.sounding
<1> DEFINE became == held /\ ~c.prev
           b == [c EXCEPT !.prev = held]
           e == IF name = "trigger" THEN TriggerEdge(b, held, age, quiet)
                                    ELSE PlainEdge(b, became, age)
           done == Channel(c, name, held, age, quiet)
<1>1. b \in Bells /\ b.prev = held /\ became \in BOOLEAN
  BY DEF Bells
<1>2. done = IF held # c.prev /\ name \in Plugs
             THEN [bell |-> b, counted |-> FALSE, note |-> "none", doubt |-> TRUE]
             ELSE [e EXCEPT !.bell.watched = @ \/ ~held]
  BY DEF Channel
<1> HIDE DEF b, became
<1>3. \E x \in Bells : \E d \in BOOLEAN : \E k : \E n :
        /\ e = [bell |-> x, counted |-> k, note |-> n, doubt |-> d]
        /\ x.prev = held
        /\ name = "trigger" /\ ~held => ~x.sounding
  <2>1. CASE name = "trigger"
    BY <1>1, <2>1, TriggerFacts
  <2>2. CASE name # "trigger"
    <3>1. PICK x \in Bells, k \in BOOLEAN :
            /\ PlainEdge(b, became, age) = [bell |-> x, counted |-> k, note |-> "none", doubt |-> FALSE]
            /\ x.prev = b.prev
      BY <1>1, PlainFacts
    <3>2. e = [bell |-> x, counted |-> k, note |-> "none", doubt |-> FALSE]
      BY <2>2, <3>1 DEF e
    <3>3. FALSE \in BOOLEAN /\ x.prev = held
      BY <1>1, <3>1
    <3>. QED BY <2>2, <3>2, <3>3
  <2>. QED BY <2>1, <2>2
<1> HIDE DEF e
<1>4. PICK x \in Bells, d \in BOOLEAN : \E k : \E n :
        /\ e = [bell |-> x, counted |-> k, note |-> n, doubt |-> d]
        /\ x.prev = held
        /\ name = "trigger" /\ ~held => ~x.sounding
  BY <1>3
<1>5. PICK k, n :
        /\ e = [bell |-> x, counted |-> k, note |-> n, doubt |-> d]
        /\ x.prev = held
        /\ name = "trigger" /\ ~held => ~x.sounding
  BY <1>4
<1> HIDE DEF done
<1>6. CASE held # c.prev /\ name \in Plugs
  <2>1. done.bell = b /\ done.doubt = TRUE
    BY <1>2, <1>6
  <2>2. name # "trigger"
    BY <1>6 DEF Plugs
  <2>. QED BY <1>1, <2>1, <2>2 DEF done
<1>7. CASE ~(held # c.prev /\ name \in Plugs)
  <2> DEFINE y == x.watched \/ ~held
             z == [x EXCEPT !.watched = y]
  <2>1. done.bell = z /\ done.doubt = d
    BY <1>2, <1>5, <1>7
  <2>2. y \in BOOLEAN
    BY BellFields
  <2> HIDE DEF y
  <2>3. z \in Bells /\ z.prev = x.prev /\ z.sounding = x.sounding
    BY <2>2 DEF Bells
  <2> HIDE DEF z
  <2>. QED BY <1>5, <1>7, <2>1, <2>3 DEF done
<1>. QED BY <1>6, <1>7

\* A look changes no level.
LEMMA LookFacts ==
  ASSUME NEW c \in Bells, NEW name, NEW quiet \in BOOLEAN
  PROVE  /\ Channel(c, name, c.prev, 0, quiet).bell \in Bells
         /\ Channel(c, name, c.prev, 0, quiet).bell.prev = c.prev
         /\ name = "trigger" /\ ~c.prev => ~Channel(c, name, c.prev, 0, quiet).bell.sounding
<1>1. c.prev \in BOOLEAN
  BY BellFields
<1>2. 0 \in Int
  OBVIOUS
<1> DEFINE b == c
           n == name
           h == c.prev
           now == 0
<1>3. b \in Bells /\ h \in BOOLEAN /\ now \in Int
  BY <1>1, <1>2
<1> HIDE DEF b, n, h, now
<1>4. /\ Channel(b, n, h, now, quiet).bell \in Bells
      /\ Channel(b, n, h, now, quiet).bell.prev = h
      /\ Channel(b, n, h, now, quiet).doubt \in BOOLEAN
      /\ n \in Plugs /\ h # b.prev => Channel(b, n, h, now, quiet).doubt
  BY <1>3, ChannelFacts
<1>5. n = "trigger" /\ ~h => ~Channel(b, n, h, now, quiet).bell.sounding
  BY <1>3, ChannelFacts
<1>. QED BY <1>4, <1>5 DEF b, n, h, now

LEMMA RingFields ==
  ASSUME NEW r \in Rings
  PROVE  /\ r.head \in BOOLEAN /\ r.lit \in BOOLEAN /\ r.rest \in BOOLEAN /\ r.prev \in BOOLEAN
         /\ r.sounding \in BOOLEAN /\ r.on \in Int
BY DEF Rings

\* A head's note sounds only off its rest.
LEMMA RingEdgeFacts ==
  ASSUME NEW r \in Rings, r.sounding => r.prev # r.rest, NEW held \in BOOLEAN, NEW age \in Int
  PROVE  /\ RingEdge(r, held, age) \in Rings
         /\ RingEdge(r, held, age).head = r.head /\ RingEdge(r, held, age).lit = r.lit
         /\ RingEdge(r, held, age).sounding =>
              RingEdge(r, held, age).prev # RingEdge(r, held, age).rest
<1> DEFINE n == RingNote(r, held, age)
           o == IF n = "on" THEN age ELSE r.on
           x == (n = "on") \/ (r.sounding /\ n # "off")
           t == [r EXCEPT !.prev = held, !.on = o, !.sounding = x]
<1>1. RingEdge(r, held, age) = t
  BY DEF RingEdge
<1>2. o \in Int /\ x \in BOOLEAN
  BY RingFields
<1>3. x => held # r.rest
  <2>1. /\ n = "on" => held # r.rest
        /\ r.sounding /\ n # "off" => held # r.rest
    BY RingFields DEF RingNote
  <2>. QED BY <2>1
<1> HIDE DEF o, x
<1>4. /\ t \in Rings /\ t.head = r.head /\ t.lit = r.lit /\ t.sounding = x
      /\ t.prev = held /\ t.rest = r.rest
  BY <1>2 DEF Rings
<1> HIDE DEF t
<1>. QED BY <1>1, <1>3, <1>4

LEMMA StoppedFacts ==
  ASSUME NEW r \in Rings
  PROVE  Stopped(r) \in Rings /\ ~Stopped(r).sounding
BY DEF Stopped, Rings

LEMMA StartedFacts ==
  ASSUME NEW r \in Rings, NEW lev \in BOOLEAN
  PROVE  /\ Started(r, lev) \in Rings /\ Started(r, lev).head /\ Started(r, lev).lit
         /\ Started(r, lev).sounding = r.sounding
BY DEF Started, Rings

-----------------------------------------------------------------------------
(* Every step keeps the invariant.                                         *)

LEMMA PrevsFacts ==
  ASSUME NEW b \in [Channels -> Bells]
  PROVE  Prevs(b) \in Levels /\ \A ch \in Channels : Prevs(b)[ch] = b[ch].prev
<1>1. \A ch \in Channels : b[ch].prev \in BOOLEAN
  BY BellFields
<1>. QED BY <1>1 DEF Prevs, Levels

LEMMA InitInv == Init => TowerInv
<1> SUFFICES ASSUME Init PROVE TowerInv
  OBVIOUS
<1>1. level \in Levels /\ work = <<>> /\ pc = "rest" /\ phase = "idle" /\ doubt = TRUE
      /\ running = FALSE /\ stale = {} /\ kinds = head /\ gate = head
      /\ kinds = [ch \in Channels |-> "unknown"]
  BY DEF Init, Levels
<1>2. bell = [ch \in Channels |-> Bell(level[ch])] /\ ring = [ch \in Channels |-> Silent]
      /\ sense = Keys(level)
  BY DEF Init
<1>3. /\ sense \in Senses /\ sense.mode = "keys" /\ sense.queue = <<>> /\ sense.scanned = level
      /\ sense.pending = <<>> /\ sense.known = level
  <2>1. <<>> \in Seq(Edges)
    OBVIOUS
  <2>. QED BY <1>1, <1>2, <2>1 DEF Keys, Senses
<1>4. ASSUME NEW ch \in Channels
      PROVE  Bell(level[ch]) \in Bells /\ Bell(level[ch]).prev = level[ch]
  <2>1. level[ch] \in BOOLEAN /\ None \in Int
    BY <1>1 DEF Levels, None
  <2>. QED BY <2>1 DEF Bell, Bells
<1>5. Silent \in Rings /\ ~Silent.sounding
  BY DEF Silent, Rings, None
<1>6. bell \in [Channels -> Bells] /\ ring \in [Channels -> Rings]
      /\ \A ch \in Channels : bell[ch].prev = level[ch] /\ ~ring[ch].sounding
  BY <1>2, <1>4, <1>5
<1>7. TypeInv
  <2>1. work \in Seq(Edges)
    BY <1>1
  <2>. QED BY <1>1, <1>3, <1>6, <2>1 DEF TypeInv
<1>8. WayInv
  <2>1. Prevs(bell) = level
    BY <1>1, <1>6 DEF Prevs, Levels
  <2>2. work \o sense.pending = <<>>
    BY <1>1, <1>3
  <2>3. ASSUME NEW ch \in Channels
        PROVE  /\ Path(work \o sense.pending, ch, level[ch], sense.known[ch])
               /\ LastIs(sense.queue, ch, sense.known[ch], level[ch])
    BY <1>3, <2>2, EmptyPath DEF LastIs
  <2>. QED BY <1>3, <2>1, <2>3 DEF WayInv, WayOK
<1>9. PhaseInv
  BY <1>1 DEF PhaseInv
<1>10. LitInv /\ OnlyTakenNotesStay
  BY <1>1, <1>6 DEF LitInv, OnlyTakenNotesStay
<1>. QED BY <1>7, <1>8, <1>9, <1>10 DEF TowerInv

\* keypad finds a line at a level.
LEMMA ScanStep ==
  ASSUME TowerInv, NEW ch \in Channels, NEW held \in BOOLEAN,
         level' = [level EXCEPT ![ch] = held], Scanned(ch, held),
         UNCHANGED <<pc, work, bell, head, survey, running, ring, stale>>
  PROVE  TowerInv'
<1>1. TypeInv /\ WayInv /\ PhaseInv /\ LitInv /\ OnlyTakenNotesStay
  BY DEF TowerInv
<1>2. /\ level \in Levels /\ sense \in Senses /\ work \in Seq(Edges)
      /\ Prevs(bell) \in Levels /\ WayOK(sense, work, Prevs(bell), level)
  BY <1>1, PrevsFacts DEF TypeInv, WayInv
<1>3. sense' \in Senses /\ WayOK(sense', work, Prevs(bell), level')
  BY <1>2, ScanFacts DEF Scanned
<1>4. level' \in Levels
  BY <1>2 DEF Levels
<1>5. TypeInv'
  BY <1>1, <1>3, <1>4 DEF TypeInv, survey
<1>6. WayInv'
  BY <1>3 DEF WayInv, Prevs
<1>7. PhaseInv' /\ LitInv' /\ OnlyTakenNotesStay'
  BY <1>1 DEF PhaseInv, LitInv, OnlyTakenNotesStay, survey
<1>. QED BY <1>5, <1>6, <1>7 DEF TowerInv

LEMMA FlipInv == ASSUME TowerInv, NEW ch \in Channels, Flip(ch) PROVE TowerInv'
<1> DEFINE held == ~level[ch]
<1>1. level \in Levels
  BY DEF TowerInv, TypeInv
<1>2. held \in BOOLEAN /\ level' = [level EXCEPT ![ch] = held] /\ level'[ch] = held
  BY <1>1 DEF Flip, Levels
<1>3. Scanned(ch, held) /\ UNCHANGED <<pc, work, bell, head, survey, running, ring, stale>>
  BY <1>2 DEF Flip
<1> HIDE DEF held
<1>. QED BY <1>2, <1>3, ScanStep

LEMMA PlugInv == ASSUME TowerInv, NEW ch \in Channels, Plug(ch) PROVE TowerInv'
<1>1. PICK held \in BOOLEAN : level' = [level EXCEPT ![ch] = held] /\ Scanned(ch, held)
  BY DEF Plug
<1>2. UNCHANGED <<pc, work, bell, head, survey, running, ring, stale>>
  BY DEF Plug
<1>. QED BY <1>1, <1>2, ScanStep

LEMMA TickInv == ASSUME TowerInv, Tick PROVE TowerInv'
<1>1. TypeInv /\ WayInv /\ PhaseInv /\ LitInv /\ OnlyTakenNotesStay
  BY DEF TowerInv
<1>2. /\ sense' = [sense EXCEPT !.queue = Older(@), !.pending = Older(@)] /\ work' = Older(work)
      /\ bell' = [ch \in Channels |->
                    [bell[ch] EXCEPT !.stroke = Aged(@, GapMs), !.open = Aged(@, RearmMs),
                                     !.low = Aged(@, StuckMs)]]
      /\ ring' = [ch \in Channels |-> [ring[ch] EXCEPT !.on = Aged(@, GapMs)]]
      /\ UNCHANGED <<level, pc, head, phase, doubt, kinds, gate, running, stale>>
  BY DEF Tick, Older, world, survey
<1>3. \A age \in Int, gap \in Nat : Aged(age, gap) \in Int
  BY DEF Aged
<1>4. ASSUME NEW c \in Bells
      PROVE  LET t == [c EXCEPT !.stroke = Aged(c.stroke, GapMs), !.open = Aged(c.open, RearmMs),
                                !.low = Aged(c.low, StuckMs)]
             IN  t \in Bells /\ t.prev = c.prev /\ t.sounding = c.sounding
  <2>1. Aged(c.stroke, GapMs) \in Int /\ Aged(c.open, RearmMs) \in Int /\ Aged(c.low, StuckMs) \in Int
    BY <1>3, BellFields, SetupFacts
  <2>. QED BY <2>1 DEF Bells
<1>5. ASSUME NEW r \in Rings
      PROVE  LET t == [r EXCEPT !.on = Aged(r.on, GapMs)]
             IN  /\ t \in Rings /\ t.sounding = r.sounding /\ t.prev = r.prev /\ t.rest = r.rest
                 /\ t.head = r.head /\ t.lit = r.lit
  <2>1. Aged(r.on, GapMs) \in Int
    BY <1>3, RingFields, SetupFacts
  <2>. QED BY <2>1 DEF Rings
<1>6. /\ bell' \in [Channels -> Bells]
      /\ \A ch \in Channels : bell'[ch].prev = bell[ch].prev /\ bell'[ch].sounding = bell[ch].sounding
  BY <1>1, <1>2, <1>4 DEF TypeInv
<1>7. /\ ring' \in [Channels -> Rings]
      /\ \A ch \in Channels : /\ ring'[ch].sounding = ring[ch].sounding /\ ring'[ch].prev = ring[ch].prev
                              /\ ring'[ch].rest = ring[ch].rest /\ ring'[ch].head = ring[ch].head
                              /\ ring'[ch].lit = ring[ch].lit
  BY <1>1, <1>2, <1>5 DEF TypeInv
<1>8. sense' \in Senses /\ WayOK(sense', work', Prevs(bell), level)
  <2>1. /\ level \in Levels /\ sense \in Senses /\ work \in Seq(Edges)
        /\ Prevs(bell) \in Levels /\ WayOK(sense, work, Prevs(bell), level)
    BY <1>1, PrevsFacts DEF TypeInv, WayInv
  <2>2. sense' = [sense EXCEPT !.queue = Older(sense.queue), !.pending = Older(sense.pending)]
    BY <1>2, <2>1 DEF Senses
  <2>. QED BY <1>2, <2>1, <2>2, AgingFacts
<1>9. work' \in Seq(Edges) /\ (work = <<>> => work' = <<>>)
  <2>1. work \in Seq(Edges)
    BY <1>1 DEF TypeInv
  <2>2. Older(work) \in Seq(Edges) /\ Len(Older(work)) = Len(work)
    BY <2>1, OlderFacts
  <2>3. work = <<>> => Len(work) = 0
    BY <2>1
  <2>4. Len(Older(work)) = 0 => Older(work) = <<>>
    BY <2>2, SetOf
  <2>. QED BY <1>2, <2>2, <2>3, <2>4
<1>10. TypeInv'
  BY <1>1, <1>2, <1>6, <1>7, <1>8, <1>9 DEF TypeInv
<1>11. WayInv'
  <2>1. Prevs(bell') = Prevs(bell)
    BY <1>6 DEF Prevs
  <2>. QED BY <1>2, <1>8, <2>1 DEF WayInv
<1>12. PhaseInv'
  BY <1>1, <1>2, <1>9 DEF PhaseInv
<1>13. LitInv'
  BY <1>1, <1>2, <1>7 DEF LitInv
<1>14. OnlyTakenNotesStay'
  <2>1. \A ch \in Channels : ring[ch].sounding => running /\ ring[ch].prev # ring[ch].rest
    BY <1>1 DEF OnlyTakenNotesStay
  <2>2. phase = "idle" /\ pc = "rest" =>
          \A ch \in Channels : bell[ch].sounding /\ ~bell[ch].prev => kinds[ch] # "trigger"
    BY <1>1 DEF OnlyTakenNotesStay
  <2>3. /\ UNCHANGED <<phase, pc, kinds, running>>
        /\ \A ch \in Channels : /\ ring'[ch].sounding = ring[ch].sounding
                                /\ ring'[ch].prev = ring[ch].prev /\ ring'[ch].rest = ring[ch].rest
                                /\ bell'[ch].prev = bell[ch].prev
                                /\ bell'[ch].sounding = bell[ch].sounding
    BY <1>2, <1>6, <1>7
  <2>. QED BY <2>1, <2>2, <2>3 DEF OnlyTakenNotesStay
<1>. QED BY <1>10, <1>11, <1>12, <1>13, <1>14 DEF TowerInv

LEMMA PumpEdgesInv == ASSUME TowerInv, PumpEdges PROVE TowerInv'
<1>1. TypeInv /\ WayInv /\ PhaseInv /\ LitInv /\ OnlyTakenNotesStay
  BY DEF TowerInv
<1>2. sense' = Pump(sense)
      /\ UNCHANGED <<level, pc, work, bell, head, phase, doubt, kinds, gate, running, ring, stale>>
  BY DEF PumpEdges, world, survey
<1>3. /\ level \in Levels /\ sense \in Senses /\ work \in Seq(Edges)
      /\ Prevs(bell) \in Levels /\ WayOK(sense, work, Prevs(bell), level)
  BY <1>1, PrevsFacts DEF TypeInv, WayInv
<1>4. sense' \in Senses /\ WayOK(sense', work, Prevs(bell), level)
  BY <1>2, <1>3, PumpFacts
<1>5. TypeInv'
  BY <1>1, <1>2, <1>4 DEF TypeInv
<1>6. WayInv'
  BY <1>2, <1>4 DEF WayInv, Prevs
<1>7. PhaseInv' /\ LitInv' /\ OnlyTakenNotesStay'
  BY <1>1, <1>2 DEF PhaseInv, LitInv, OnlyTakenNotesStay
<1>. QED BY <1>5, <1>6, <1>7 DEF TowerInv

\* The edges so far are taken, at the start of a step or for a second look.
LEMMA TakeInv ==
  ASSUME TowerInv, work = <<>>, pc # "settle", pc' = "edges", work' = Drained(sense), sense' = Drain(sense),
         UNCHANGED <<level, bell, head, phase, doubt, kinds, gate, running, ring, stale>>
  PROVE  TowerInv'
<1>1. TypeInv /\ WayInv /\ PhaseInv /\ LitInv /\ OnlyTakenNotesStay
  BY DEF TowerInv
<1>2. /\ level \in Levels /\ sense \in Senses
      /\ Prevs(bell) \in Levels /\ WayOK(sense, <<>>, Prevs(bell), level)
  BY <1>1, PrevsFacts DEF TypeInv, WayInv
<1>3. sense' \in Senses /\ work' \in Seq(Edges) /\ WayOK(sense', work', Prevs(bell), level)
  BY <1>2, DrainFacts
<1>4. TypeInv'
  BY <1>1, <1>3 DEF TypeInv
<1>5. WayInv'
  BY <1>3 DEF WayInv, Prevs
<1>6. PhaseInv'
  BY <1>1 DEF PhaseInv
<1>7. LitInv'
  BY <1>1 DEF LitInv
<1>8. OnlyTakenNotesStay'
  BY <1>1 DEF OnlyTakenNotesStay
<1>. QED BY <1>4, <1>5, <1>6, <1>7, <1>8 DEF TowerInv

LEMMA PollInv == ASSUME TowerInv, Poll PROVE TowerInv'
<1>1. work = <<>>
  BY DEF Poll, TowerInv, PhaseInv
<1>2. /\ pc # "settle" /\ pc' = "edges" /\ work' = Drained(sense) /\ sense' = Drain(sense)
      /\ UNCHANGED <<level, bell, head, phase, doubt, kinds, gate, running, ring, stale>>
  BY DEF Poll, world, survey
<1>. QED BY <1>1, <1>2, TakeInv

LEMMA PollAgainInv == ASSUME TowerInv, PollAgain PROVE TowerInv'
<1>1. /\ work = <<>> /\ pc # "settle" /\ pc' = "edges" /\ work' = Drained(sense)
      /\ sense' = Drain(sense)
      /\ UNCHANGED <<level, bell, head, phase, doubt, kinds, gate, running, ring, stale>>
  BY DEF PollAgain, world, survey
<1>. QED BY <1>1, TakeInv

LEMMA HandleEdgeInv == ASSUME TowerInv, HandleEdge PROVE TowerInv'
<1> DEFINE e == Head(work)
           age == IF e.age = Unstamped THEN 0 ELSE e.age
<1>1. TypeInv /\ WayInv /\ PhaseInv /\ LitInv /\ OnlyTakenNotesStay
  BY DEF TowerInv
<1>2. PICK quiet \in BOOLEAN :
        LET done == Channel(bell[e.ch], head[e.ch], e.held, age, quiet)
        IN  /\ bell' = [bell EXCEPT ![e.ch] = done.bell]
            /\ doubt' = (doubt \/ done.doubt)
  BY DEF HandleEdge, Asks
<1>3. /\ pc = "edges" /\ work # <<>> /\ work' = Tail(work)
      /\ ring' = IF running /\ ring[e.ch].head THEN [ring EXCEPT ![e.ch] = RingEdge(@, e.held, age)] ELSE ring
      /\ stale' = IF kinds[e.ch] \in Plugs /\ e.held # bell[e.ch].prev THEN stale \cup {e.ch} ELSE stale
      /\ UNCHANGED <<level, sense, pc, head, phase, kinds, gate, running>>
  BY DEF HandleEdge, world
<1>4. /\ level \in Levels /\ sense \in Senses /\ work \in Seq(Edges)
      /\ bell \in [Channels -> Bells] /\ ring \in [Channels -> Rings]
      /\ Prevs(bell) \in Levels /\ WayOK(sense, work, Prevs(bell), level)
  BY <1>1, PrevsFacts DEF TypeInv, WayInv
<1>5. /\ work' \in Seq(Edges) /\ e \in Edges
      /\ WayOK(sense, work', [Prevs(bell) EXCEPT ![e.ch] = e.held], level)
  BY <1>3, <1>4, HandleFacts
<1>6. e.ch \in Channels /\ e.held \in BOOLEAN /\ age \in Int
  BY <1>5, EdgeFields
<1> HIDE DEF e, age
<1> DEFINE done == Channel(bell[e.ch], head[e.ch], e.held, age, quiet)
<1>7. /\ done.bell \in Bells /\ done.bell.prev = e.held /\ done.doubt \in BOOLEAN
      /\ head[e.ch] \in Plugs /\ e.held # bell[e.ch].prev => done.doubt
  <2> DEFINE b == bell[e.ch]
             n == head[e.ch]
             h == e.held
             d == Channel(b, n, h, age, quiet)
  <2>1. b \in Bells /\ h \in BOOLEAN
    BY <1>4, <1>6
  <2>0. quiet \in BOOLEAN
    BY <1>2
  <2> HIDE DEF b, n, h, done
  <2>2. /\ d.bell \in Bells /\ d.bell.prev = h /\ d.doubt \in BOOLEAN
        /\ n \in Plugs /\ h # b.prev => d.doubt
    <3>1. /\ Channel(b, n, h, age, quiet).bell \in Bells
          /\ Channel(b, n, h, age, quiet).bell.prev = h
          /\ Channel(b, n, h, age, quiet).doubt \in BOOLEAN
          /\ n \in Plugs /\ h # b.prev => Channel(b, n, h, age, quiet).doubt
      BY <1>6, <2>0, <2>1, ChannelFacts
    <3>. QED BY <3>1
  <2>. QED BY <2>2 DEF b, n, h, done
<1>8. bell' = [bell EXCEPT ![e.ch] = done.bell] /\ doubt' = (doubt \/ done.doubt)
  BY <1>2
<1> HIDE DEF done
<1>9. bell' \in [Channels -> Bells]
      /\ \A ch \in Channels : bell'[ch].prev = IF ch = e.ch THEN e.held ELSE bell[ch].prev
  BY <1>4, <1>6, <1>7, <1>8
<1>10. /\ ring' \in [Channels -> Rings]
       /\ \A ch \in Channels : /\ ring'[ch].head = ring[ch].head /\ ring'[ch].lit = ring[ch].lit
                               /\ ring'[ch].sounding => running /\ ring'[ch].prev # ring'[ch].rest
  <2>1. \A ch \in Channels : ring[ch].sounding => running /\ ring[ch].prev # ring[ch].rest
    BY <1>1 DEF OnlyTakenNotesStay
  <2>2. CASE ~(running /\ ring[e.ch].head)
    BY <1>3, <1>4, <2>1, <2>2
  <2>3. CASE running /\ ring[e.ch].head
    <3> DEFINE r == RingEdge(ring[e.ch], e.held, age)
    <3>1. ring' = [ring EXCEPT ![e.ch] = r]
      BY <1>3, <2>3
    <3>2. /\ r \in Rings /\ r.head = ring[e.ch].head /\ r.lit = ring[e.ch].lit
          /\ r.sounding => r.prev # r.rest
      BY <1>4, <1>6, <2>1, RingEdgeFacts
    <3> HIDE DEF r
    <3>. QED BY <1>4, <1>6, <2>1, <2>3, <3>1, <3>2
  <2>. QED BY <2>2, <2>3
<1>11. TypeInv'
  <2>1. doubt' \in BOOLEAN
    BY <1>1, <1>7, <1>8 DEF TypeInv
  <2>. QED BY <1>1, <1>3, <1>5, <1>9, <1>10, <2>1 DEF TypeInv
<1>12. WayInv'
  <2>1. Prevs(bell') = [Prevs(bell) EXCEPT ![e.ch] = e.held]
    BY <1>6, <1>9 DEF Prevs
  <2>. QED BY <1>3, <1>5, <2>1 DEF WayInv
<1>13. PhaseInv'
  <2>1. stale' # {} => doubt' \/ phase \in {"examining", "surveying"}
    <3>1. CASE phase \in {"examining", "surveying"}
      BY <3>1
    <3>2. CASE phase \notin {"examining", "surveying"}
      <4>1. head = kinds
        BY <1>1, <3>2 DEF PhaseInv, TypeInv
      <4>2. CASE stale' # stale
        BY <1>3, <1>7, <1>8, <4>1, <4>2
      <4>3. CASE stale' = stale
        BY <1>1, <1>8, <3>2, <4>3 DEF PhaseInv
      <4>. QED BY <4>2, <4>3
    <3>. QED BY <3>1, <3>2
  <2>. QED BY <1>1, <1>3, <2>1 DEF PhaseInv
<1>14. LitInv'
  BY <1>1, <1>3, <1>10 DEF LitInv
<1>15. OnlyTakenNotesStay'
  BY <1>3, <1>10 DEF OnlyTakenNotesStay
<1>. QED BY <1>11, <1>12, <1>13, <1>14, <1>15 DEF TowerInv

\* What a step does to the lasers.
LEMMA KeepRingFacts ==
  ASSUME ring \in [Channels -> Rings], KeepRing
  PROVE  /\ ring' \in [Channels -> Rings] /\ running' = running
         /\ \A ch \in Channels :
              /\ ring'[ch].sounding = ring[ch].sounding /\ ring'[ch].prev = ring[ch].prev
              /\ ring'[ch].rest = ring[ch].rest /\ ring'[ch].head = ring[ch].head
              /\ gate[ch] = "head" => ring'[ch].lit = ring[ch].lit
<1>1. ASSUME NEW r \in Rings
      PROVE  LET t == [r EXCEPT !.lit = FALSE]
             IN  /\ t \in Rings /\ t.sounding = r.sounding /\ t.prev = r.prev /\ t.rest = r.rest
                 /\ t.head = r.head
  BY DEF Rings
<1>2. running' = running
      /\ ring' = [ch \in Channels |-> IF gate[ch] \in DriveOk THEN ring[ch]
                                                             ELSE [ring[ch] EXCEPT !.lit = FALSE]]
  BY DEF KeepRing, Enforced
<1>3. "head" \in DriveOk
  BY DEF DriveOk
<1>. QED BY <1>1, <1>2, <1>3

LEMMA StopRingFacts ==
  ASSUME ring \in [Channels -> Rings], StopRing
  PROVE  /\ ring' \in [Channels -> Rings] /\ running' = FALSE
         /\ \A ch \in Channels : ~ring'[ch].sounding
BY StoppedFacts DEF StopRing

\* What a step does to the phase.
LEMMA PhaseStepFacts ==
  ASSUME NEW d \in BOOLEAN, NEW a, PhaseStep(d, a)
  PROVE  /\ pc' \in {"rest", "survey"} /\ doubt' \in BOOLEAN
         /\ phase' \in {"idle", "examining", "surveying"}
         /\ pc' = "survey" => phase' = "surveying"
         /\ sense' = sense \/ sense' = ToPins(sense, level)
         /\ phase' = "idle" => phase \in {"idle", "settled"}
         /\ phase = "surveying" => phase' = "surveying"
         /\ d => doubt' \/ phase' \in {"examining", "surveying"}
         /\ phase = "examining" => phase' \in {"examining", "surveying"}
         /\ KeepRing \/ (StopRing /\ phase' = "surveying")
BY DEF PhaseStep, Settled

LEMMA StepOnInv == ASSUME TowerInv, StepOn PROVE TowerInv'
<1>1. TypeInv /\ WayInv /\ PhaseInv /\ LitInv /\ OnlyTakenNotesStay
  BY DEF TowerInv
<1>2. PICK quiet \in BOOLEAN :
        LET looked == Looked(quiet)
            stuck  == {ch \in Channels : looked[ch].doubt}
            last   == IF stuck = {} THEN asked ELSE CHOOSE ch \in stuck : \A x \in stuck : x <= ch
        IN  /\ bell' = [ch \in Channels |-> looked[ch].bell]
            /\ PhaseStep(doubt \/ stuck # {}, last)
  BY DEF StepOn
<1>3. pc = "edges" /\ work = <<>> /\ UNCHANGED <<level, work, head, kinds, gate, stale>>
  BY DEF StepOn, world
<1> DEFINE stuck == {ch \in Channels : Looked(quiet)[ch].doubt}
           last == IF stuck = {} THEN asked ELSE CHOOSE ch \in stuck : \A x \in stuck : x <= ch
           d == doubt \/ stuck # {}
<1>4. bell' = [ch \in Channels |-> Looked(quiet)[ch].bell] /\ PhaseStep(d, last)
  BY <1>2
<1>5. d \in BOOLEAN /\ (doubt => d)
  BY <1>1 DEF TypeInv
<1> HIDE DEF stuck, last, d
<1>6. /\ pc' \in {"rest", "survey"} /\ doubt' \in BOOLEAN
      /\ phase' \in {"idle", "examining", "surveying"}
      /\ pc' = "survey" => phase' = "surveying"
      /\ sense' = sense \/ sense' = ToPins(sense, level)
      /\ phase' = "idle" => phase \in {"idle", "settled"}
      /\ phase = "surveying" => phase' = "surveying"
      /\ d => doubt' \/ phase' \in {"examining", "surveying"}
      /\ phase = "examining" => phase' \in {"examining", "surveying"}
      /\ KeepRing \/ (StopRing /\ phase' = "surveying")
  BY <1>4, <1>5, PhaseStepFacts
<1>7. ASSUME NEW ch \in Channels
      PROVE  /\ bell'[ch] \in Bells /\ bell'[ch].prev = bell[ch].prev
             /\ head[ch] = "trigger" /\ ~bell[ch].prev => ~bell'[ch].sounding
  <2>1. bell[ch] \in Bells
    BY <1>1 DEF TypeInv
  <2>2. Looked(quiet)[ch] = Channel(bell[ch], head[ch], bell[ch].prev, 0, quiet)
    BY DEF Looked
  <2>3. bell'[ch] = Channel(bell[ch], head[ch], bell[ch].prev, 0, quiet).bell
    BY <1>4, <2>2
  <2> DEFINE b == bell[ch]
             n == head[ch]
  <2>4. b \in Bells /\ bell'[ch] = Channel(b, n, b.prev, 0, quiet).bell
    BY <2>1, <2>3
  <2> HIDE DEF b, n
  <2>5. /\ bell'[ch] \in Bells /\ bell'[ch].prev = b.prev
        /\ n = "trigger" /\ ~b.prev => ~bell'[ch].sounding
    BY <2>4, LookFacts
  <2>. QED BY <2>5 DEF b, n
<1>8. bell' \in [Channels -> Bells]
  BY <1>4, <1>7
<1>9. /\ level \in Levels /\ sense \in Senses /\ work \in Seq(Edges)
      /\ ring \in [Channels -> Rings]
      /\ Prevs(bell) \in Levels /\ WayOK(sense, work, Prevs(bell), level)
  BY <1>1, PrevsFacts DEF TypeInv, WayInv
<1>10. sense' \in Senses /\ WayOK(sense', work, Prevs(bell), level)
  BY <1>6, <1>9, ToPinsFacts
<1>11. /\ ring' \in [Channels -> Rings] /\ running' \in BOOLEAN
       /\ \A ch \in Channels : ring'[ch].sounding => running' /\ ring'[ch].prev # ring'[ch].rest
       /\ phase' # "surveying" => /\ running' = running
                                  /\ \A ch \in Channels : /\ ring'[ch].head = ring[ch].head
                                                          /\ gate[ch] = "head" => ring'[ch].lit = ring[ch].lit
  <2>1. \A ch \in Channels : ring[ch].sounding => running /\ ring[ch].prev # ring[ch].rest
    BY <1>1 DEF OnlyTakenNotesStay
  <2>2. running \in BOOLEAN
    BY <1>1 DEF TypeInv
  <2>3. CASE KeepRing
    BY <1>9, <2>1, <2>2, <2>3, KeepRingFacts
  <2>4. CASE StopRing /\ phase' = "surveying"
    BY <1>9, <2>4, StopRingFacts
  <2>. QED BY <1>6, <2>3, <2>4
<1>12. TypeInv'
  <2>1. work' \in Seq(Edges) /\ level' \in Levels
    BY <1>3, <1>9
  <2>. QED BY <1>6, <1>8, <1>10, <1>11, <2>1 DEF TypeInv
<1>13. WayInv'
  <2>1. Prevs(bell') = Prevs(bell)
    BY <1>7 DEF Prevs
  <2>. QED BY <1>3, <1>10, <2>1 DEF WayInv
<1>14. PhaseInv'
  <2>1. phase' \in {"idle", "settled"} => head' = kinds'
    BY <1>1, <1>3, <1>6 DEF PhaseInv
  <2>2. stale' # {} => doubt' \/ phase' \in {"examining", "surveying"}
    BY <1>1, <1>3, <1>5, <1>6 DEF PhaseInv
  <2>. QED BY <1>1, <1>3, <1>6, <2>1, <2>2 DEF PhaseInv
<1>15. LitInv'
  <2> SUFFICES ASSUME phase' # "surveying", NEW ch \in Channels, kinds'[ch] = "head"
               PROVE  running' /\ ring'[ch].head /\ ring'[ch].lit
    BY DEF LitInv
  <2>1. phase # "surveying" /\ kinds[ch] = "head" /\ gate[ch] = "head"
    BY <1>1, <1>3, <1>6 DEF PhaseInv
  <2>2. running /\ ring[ch].head /\ ring[ch].lit
    BY <1>1, <1>3, <2>1 DEF LitInv
  <2>. QED BY <1>11, <2>1, <2>2
<1>16. OnlyTakenNotesStay'
  <2>1. ASSUME phase' = "idle", NEW ch \in Channels, kinds'[ch] = "trigger", bell'[ch].sounding
        PROVE  bell'[ch].prev
    <3>1. head[ch] = "trigger"
      BY <1>1, <1>3, <1>6, <2>1 DEF PhaseInv
    <3>2. bell[ch].prev
      BY <1>7, <2>1, <3>1
    <3>. QED BY <1>7, <3>2
  <2>. QED BY <1>11, <2>1 DEF OnlyTakenNotesStay
<1>. QED BY <1>12, <1>13, <1>14, <1>15, <1>16 DEF TowerInv

LEMMA SurveyLooksInv == ASSUME TowerInv, SurveyLooks PROVE TowerInv'
<1>1. UNCHANGED <<level, sense, pc, work, bell, head, phase, doubt, kinds, gate, running, ring, stale>>
  BY DEF SurveyLooks, world
<1>2. TypeInv /\ WayInv /\ PhaseInv /\ LitInv /\ OnlyTakenNotesStay
  BY DEF TowerInv
<1>3. TypeInv' /\ WayInv'
  BY <1>1, <1>2 DEF TypeInv, WayInv, Prevs
<1>4. PhaseInv' /\ LitInv' /\ OnlyTakenNotesStay'
  BY <1>1, <1>2 DEF PhaseInv, LitInv, OnlyTakenNotesStay
<1>. QED BY <1>3, <1>4 DEF TowerInv

LEMMA SurveyEndsInv == ASSUME TowerInv, SurveyEnds PROVE TowerInv'
<1>1. TypeInv /\ WayInv /\ PhaseInv /\ LitInv /\ OnlyTakenNotesStay
  BY DEF TowerInv
<1>2. /\ pc = "survey" /\ pc' = "settle" /\ phase' = "settled"
      /\ kinds' = found /\ gate' = found /\ head' = found /\ stale' = {}
      /\ sense' = ToKeys(sense, level)
      /\ UNCHANGED <<level, work, bell, doubt, running, ring>>
  BY DEF SurveyEnds, Gated, world
<1>3. /\ level \in Levels /\ sense \in Senses /\ work \in Seq(Edges)
      /\ Prevs(bell) \in Levels /\ WayOK(sense, work, Prevs(bell), level)
  BY <1>1, PrevsFacts DEF TypeInv, WayInv
<1>4. sense' \in Senses /\ WayOK(sense', work, Prevs(bell), level)
  BY <1>2, <1>3, ToKeysFacts
<1>5. TypeInv'
  BY <1>1, <1>2, <1>4 DEF TypeInv
<1>6. WayInv'
  BY <1>2, <1>4 DEF WayInv, Prevs
<1>7. PhaseInv'
  BY <1>1, <1>2 DEF PhaseInv
<1>8. LitInv' /\ OnlyTakenNotesStay'
  BY <1>1, <1>2 DEF LitInv, OnlyTakenNotesStay
<1>. QED BY <1>5, <1>6, <1>7, <1>8 DEF TowerInv

LEMMA RingStartsInv == ASSUME TowerInv, RingStarts PROVE TowerInv'
<1>1. TypeInv /\ WayInv /\ PhaseInv /\ LitInv /\ OnlyTakenNotesStay
  BY DEF TowerInv
<1>2. /\ pc = "settle" /\ pc' = "rest" /\ sense' = Pump(sense) /\ running' = TRUE
      /\ ring' = [ch \in Channels |->
                    IF kinds[ch] = "head" THEN Started(Stopped(ring[ch]), Pump(sense).known[ch])
                                          ELSE [Stopped(ring[ch]) EXCEPT !.head = FALSE]]
      /\ UNCHANGED <<level, work, bell, head, phase, doubt, kinds, gate, stale>>
  BY DEF RingStarts, world, survey
<1>3. /\ level \in Levels /\ sense \in Senses /\ work \in Seq(Edges)
      /\ Prevs(bell) \in Levels /\ WayOK(sense, work, Prevs(bell), level)
  BY <1>1, PrevsFacts DEF TypeInv, WayInv
<1>4. sense' \in Senses /\ WayOK(sense', work, Prevs(bell), level)
  BY <1>2, <1>3, PumpFacts
<1>5. ASSUME NEW ch \in Channels
      PROVE  /\ ring'[ch] \in Rings /\ ~ring'[ch].sounding
             /\ kinds[ch] = "head" => ring'[ch].head /\ ring'[ch].lit
  <2> DEFINE r == Stopped(ring[ch])
             k == sense'.known[ch]
  <2>1. r \in Rings /\ ~r.sounding
    BY <1>1, StoppedFacts DEF TypeInv
  <2>2. k \in BOOLEAN
    BY <1>4, SenseFields DEF Levels
  <2>3. ring'[ch] = IF kinds[ch] = "head" THEN Started(r, k) ELSE [r EXCEPT !.head = FALSE]
    BY <1>2
  <2> HIDE DEF r, k
  <2>4. Started(r, k) \in Rings /\ Started(r, k).head /\ Started(r, k).lit /\ ~Started(r, k).sounding
    BY <2>1, <2>2, StartedFacts
  <2>5. [r EXCEPT !.head = FALSE] \in Rings /\ [r EXCEPT !.head = FALSE].sounding = r.sounding
    BY <2>1 DEF Rings
  <2>. QED BY <2>1, <2>3, <2>4, <2>5
<1>6. ring' \in [Channels -> Rings]
  BY <1>2, <1>5
<1>7. TypeInv'
  BY <1>1, <1>2, <1>4, <1>6 DEF TypeInv
<1>8. WayInv'
  BY <1>2, <1>4 DEF WayInv, Prevs
<1>9. PhaseInv'
  BY <1>1, <1>2 DEF PhaseInv
<1>10. LitInv'
  BY <1>2, <1>5 DEF LitInv
<1>11. OnlyTakenNotesStay'
  <2>1. phase' = "settled"
    BY <1>1, <1>2 DEF PhaseInv
  <2>. QED BY <1>5, <2>1 DEF OnlyTakenNotesStay
<1>. QED BY <1>7, <1>8, <1>9, <1>10, <1>11 DEF TowerInv

LEMMA WatchEmptyInv == ASSUME TowerInv, WatchEmpty PROVE TowerInv'
<1>1. /\ doubt' = TRUE
      /\ UNCHANGED <<level, sense, pc, work, bell, head, phase, kinds, gate, running, ring, stale>>
  BY DEF WatchEmpty, Asks, world, TowerInv, TypeInv
<1>2. TypeInv /\ WayInv /\ PhaseInv /\ LitInv /\ OnlyTakenNotesStay
  BY DEF TowerInv
<1>3. TypeInv' /\ WayInv'
  BY <1>1, <1>2 DEF TypeInv, WayInv, Prevs
<1>4. PhaseInv' /\ LitInv' /\ OnlyTakenNotesStay'
  BY <1>1, <1>2 DEF PhaseInv, LitInv, OnlyTakenNotesStay
<1>. QED BY <1>3, <1>4 DEF TowerInv

LEMMA PanelInv == ASSUME TowerInv, Panel PROVE TowerInv'
<1>1. /\ Repainted # head /\ head' = Repainted
      /\ UNCHANGED <<level, sense, pc, work, bell, phase, doubt, kinds, gate, running, ring, stale>>
  BY DEF Panel, world, survey
<1>2. TypeInv /\ WayInv /\ PhaseInv /\ LitInv /\ OnlyTakenNotesStay
  BY DEF TowerInv
<1>3. TypeInv' /\ WayInv'
  BY <1>1, <1>2 DEF TypeInv, WayInv, Prevs
<1>4. phase \in {"idle", "settled"} => head' = kinds
  BY <1>1, <1>2 DEF PhaseInv, Repainted
<1>5. PhaseInv' /\ LitInv' /\ OnlyTakenNotesStay'
  BY <1>1, <1>2, <1>4 DEF PhaseInv, LitInv, OnlyTakenNotesStay
<1>. QED BY <1>3, <1>5 DEF TowerInv

LEMMA NextInv == TowerInv /\ [Next]_vars => TowerInv'
<1> SUFFICES ASSUME TowerInv, [Next]_vars PROVE TowerInv'
  OBVIOUS
<1>1. ASSUME NEW ch \in Channels, Flip(ch) \/ Plug(ch) PROVE TowerInv'
  BY <1>1, FlipInv, PlugInv
<1>2. CASE Tick
  BY <1>2, TickInv
<1>3. CASE PumpEdges
  BY <1>3, PumpEdgesInv
<1>4. CASE PollAgain
  BY <1>4, PollAgainInv
<1>5. CASE Panel
  BY <1>5, PanelInv
<1>6. CASE Sense
  BY <1>6, PollInv, HandleEdgeInv, StepOnInv, SurveyLooksInv, SurveyEndsInv, RingStartsInv,
     WatchEmptyInv DEF Sense
<1>7. CASE UNCHANGED vars
  <2>1. UNCHANGED <<level, sense, pc, work, bell, head, phase, doubt, kinds, gate, running, ring, stale>>
    BY <1>7 DEF vars, world, survey
  <2>2. TypeInv' /\ WayInv'
    BY <2>1 DEF TowerInv, TypeInv, WayInv, Prevs
  <2>3. PhaseInv' /\ LitInv' /\ OnlyTakenNotesStay'
    BY <2>1 DEF TowerInv, PhaseInv, LitInv, OnlyTakenNotesStay
  <2>. QED BY <2>2, <2>3 DEF TowerInv
<1>. QED BY <1>1, <1>2, <1>3, <1>4, <1>5, <1>6, <1>7 DEF Next

-----------------------------------------------------------------------------
(* What the invariant says of the edges on their way.                      *)

\* The edges of a channel among others: the last of them is the last of the
\* channel, and where they make a way, they go up and down in turn.
LEMMA KeptFacts ==
  ASSUME NEW s \in Seq(Edges), NEW ch \in Channels, NEW from \in BOOLEAN, NEW to \in BOOLEAN
  PROVE  LET w == Keeping(s, Of(ch)) IN
         /\ w \in Seq(Edges)
         /\ w = <<>> => \A i \in 1..Len(s) : s[i].ch # ch
         /\ w # <<>> => \E j \in 1..Len(s) : s[j].ch = ch /\ ~After(s, ch, j) /\ w[Len(w)] = s[j]
         /\ Path(s, ch, from, to) =>
              \A i \in 1..Len(w) : w[i].held = IF i % 2 = 1 THEN ~from ELSE from
<1> DEFINE n == Len(s)
           S == Of(ch)
<1>1. PICK k : /\ k = [i \in 0..n |-> IF i = 0 THEN <<>>
                                      ELSE IF s[i] \in S THEN Append(k[i - 1], s[i]) ELSE k[i - 1]]
               /\ Keeping(s, S) = k[n]
  BY KeepingExists
<1>2. n \in Nat /\ \A i \in 1..n : s[i] \in Edges
  BY SetOf
<1>3. \A i \in 1..n : s[i] \in S <=> s[i].ch = ch
  <2> SUFFICES ASSUME NEW i \in 1..n PROVE s[i] \in S <=> s[i].ch = ch
    OBVIOUS
  <2> DEFINE e == s[i]
  <2>1. e \in Edges
    BY <1>2
  <2> HIDE DEF e
  <2>2. e \in S <=> e.ch = ch
    BY <2>1 DEF Of, Edges
  <2>. QED BY <2>2 DEF e
<1> HIDE DEF S
<1> DEFINE Level(i) == IF i % 2 = 1 THEN ~from ELSE from
           Quiet(i, j) == \A x \in 1..n : i < x /\ x <= j => s[x].ch # ch
           Ends(t, i) == \E j \in 1..i : s[j].ch = ch /\ Quiet(j, i) /\ t[Len(t)] = s[j]
           Turns(t) == \A i \in 1..Len(t) : t[i].held = Level(i)
           OK(i) == /\ k[i] \in Seq(Edges)
                    /\ k[i] = <<>> => Quiet(0, i)
                    /\ k[i] # <<>> => Ends(k[i], i)
                    /\ Path(s, ch, from, to) => Turns(k[i])
           Good == {i \in 0..n : OK(i)}
<1>4. k[0] = <<>> /\ \A i \in 1..n : k[i] = IF s[i] \in S THEN Append(k[i - 1], s[i]) ELSE k[i - 1]
  <2>1. 0 \in 0..n /\ \A i \in 1..n : i \in 0..n /\ i # 0
    BY <1>2
  <2>. QED BY <1>1, <2>1
<1> HIDE DEF n
<1>5. OK(0)
  <2>1. k[0] \in Seq(Edges) /\ Len(k[0]) = 0
    BY <1>4
  <2>2. \A x \in 1..n : ~(0 < x /\ x <= 0)
    BY <1>2
  <2>3. \A i \in 1..Len(k[0]) : FALSE
    BY <2>1
  <2>. QED BY <1>4, <2>1, <2>2, <2>3
<1>6. ASSUME NEW i \in 1..n, OK(i - 1) PROVE OK(i)
  <2> DEFINE t == k[i - 1]
             e == s[i]
             r == Append(t, e)
             m == Len(t)
  <2>1. /\ t \in Seq(Edges) /\ m \in Nat /\ (t = <<>> => Quiet(0, i - 1))
        /\ (t # <<>> => Ends(t, i - 1)) /\ (Path(s, ch, from, to) => Turns(t))
    BY <1>6
  <2>2. i - 1 < i /\ i - 1 \in 0..n /\ i \in Nat
        /\ \A x \in 1..n : (x <= i <=> x <= i - 1 \/ x = i) /\ (x < i <=> x <= i - 1)
    BY <1>2
  <2>3. e \in Edges
    BY <1>2
  <2>4. CASE e.ch # ch
    <3>1. k[i] = t
      BY <1>3, <1>4, <2>4
    <3>2. \A j : Quiet(j, i - 1) => Quiet(j, i)
      BY <2>2, <2>4
    <3>3. Ends(t, i - 1) => Ends(t, i)
      <4>1. \A j \in 1..(i - 1) : j \in 1..i
        BY <1>2
      <4>. QED BY <3>2, <4>1
    <3> HIDE DEF t, Quiet, Ends, Turns
    <3>. QED BY <2>1, <3>1, <3>2, <3>3
  <2>5. CASE e.ch = ch
    <3>1. k[i] = r
      BY <1>3, <1>4, <2>5
    <3>2. /\ r \in Seq(Edges) /\ Len(r) = m + 1 /\ r # <<>> /\ r[m + 1] = e
          /\ \A x \in 1..m : r[x] = t[x]
      BY <2>1, <2>3, AppendFacts
    <3>3. Ends(r, i)
      <4>1. \A x \in 1..n : ~(i < x /\ x <= i)
        BY <1>2
      <4>2. i \in 1..i
        BY <1>2
      <4>. QED BY <2>5, <3>2, <4>1, <4>2
    <3>4. ASSUME Path(s, ch, from, to) PROVE e.held = Level(m + 1)
      <4>1. e.held \in BOOLEAN
        BY <2>3, EdgeFields
      <4>2. CASE t = <<>>
        <5>1. ~Before(s, ch, i)
          BY <1>2, <2>1, <2>2, <4>2 DEF Before, n
        <5>2. e.held # from
          BY <2>5, <3>4, <5>1 DEF Path, n
        <5>3. m = 0 /\ (m + 1) % 2 = 1
          BY <4>2
        <5>. QED BY <4>1, <5>2, <5>3
      <4>3. CASE t # <<>>
        <5>1. PICK j \in 1..(i - 1) : s[j].ch = ch /\ Quiet(j, i - 1) /\ t[m] = s[j]
          BY <2>1, <4>3
        <5>2. j \in 1..n /\ j < i
          BY <1>2
        <5>3. ~Between(s, ch, j, i)
          BY <2>2, <5>1 DEF Between, n
        <5>4. s[j].held # e.held
          BY <2>5, <3>4, <5>1, <5>2, <5>3 DEF Path, n
        <5>5. m \in 1..m
          BY <2>1, <4>3, SetOf
        <5>6. s[j].held = Level(m)
          <6>1. Turns(t)
            BY <2>1, <3>4
          <6>2. t[m].held = Level(m)
            BY <5>5, <6>1
          <6>. QED BY <5>1, <6>2
        <5>7. (m + 1) % 2 = 1 <=> ~(m % 2 = 1)
          <6> HIDE DEF m
          <6>. QED BY <2>1
        <5>. QED BY <4>1, <5>4, <5>6, <5>7
      <4>. QED BY <4>2, <4>3
    <3>5. Path(s, ch, from, to) => Turns(r)
      <4> SUFFICES ASSUME Path(s, ch, from, to), NEW x \in 1..(m + 1)
                   PROVE  r[x].held = Level(x)
        BY <3>2
      <4>0. Path(s, ch, from, to)
        OBVIOUS
      <4>1. x \in 1..m \/ x = m + 1
        BY <2>1
      <4>2. \A y \in 1..m : t[y].held = Level(y)
        BY <2>1, <4>0
      <4> HIDE DEF r, t, m, e, Level
      <4>3. CASE x \in 1..m
        BY <3>2, <4>2, <4>3
      <4>4. CASE x = m + 1
        BY <3>2, <3>4, <4>0, <4>4
      <4>. QED BY <4>1, <4>3, <4>4
    <3> HIDE DEF r, Quiet, Ends, Turns
    <3>. QED BY <3>1, <3>2, <3>3, <3>5
  <2>. QED BY <2>4, <2>5
<1>7. OK(n)
  <2> HIDE DEF OK
  <2>1. 0 \in Good /\ \A i \in 1..n : i - 1 \in Good => i \in Good
    BY <1>2, <1>5, <1>6
  <2>2. \A i \in 0..n : i \in Good
    <3> HIDE DEF Good
    <3>. QED BY <1>2, <2>1, Upwards
  <2>. QED BY <1>2, <2>2
<1> DEFINE w == k[n]
<1>8. Keeping(s, Of(ch)) = w
  BY <1>1 DEF S, n
<1>9. w \in Seq(Edges) /\ (Path(s, ch, from, to) => Turns(w))
  BY <1>7
<1>10. w = <<>> => \A i \in 1..Len(s) : s[i].ch # ch
  <2>1. \A i \in 1..n : 0 < i /\ i <= n
    BY <1>2
  <2>. QED BY <1>7, <2>1 DEF n
<1>11. ASSUME w # <<>>
       PROVE  \E j \in 1..Len(s) : s[j].ch = ch /\ ~After(s, ch, j) /\ w[Len(w)] = s[j]
  <2>1. PICK j \in 1..n : s[j].ch = ch /\ Quiet(j, n) /\ w[Len(w)] = s[j]
    BY <1>7, <1>11
  <2>2. ~After(s, ch, j)
    BY <1>2, <2>1 DEF After, n
  <2>. QED BY <2>1, <2>2 DEF n
<1> HIDE DEF w
<1>. QED BY <1>8, <1>9, <1>10, <1>11

LEMMA NothingLost == TowerInv => NothingLostUnsaid
<1> SUFFICES ASSUME TowerInv, NEW ch \in Channels, ~sense.lost, ~sense.full
             PROVE  LET way == Coming(ch)
                        q == Queued(ch)
                    IN  /\ \A i \in DOMAIN way : way[i].held = (IF i % 2 = 1 THEN ~bell[ch].prev ELSE bell[ch].prev)
                        /\ sense.known[ch] = IF way = <<>> THEN bell[ch].prev ELSE Last(way).held
                        /\ sense.mode = "keys" => level[ch] = IF q = <<>> THEN sense.known[ch] ELSE Last(q).held
  BY DEF NothingLostUnsaid
<1> DEFINE s == work \o sense.pending
           t == sense.queue
           way == Keeping(s, Of(ch))
           q == Keeping(t, Of(ch))
           prev == bell[ch].prev
           known == sense.known[ch]
           lev == level[ch]
<1>1. /\ level \in Levels /\ sense \in Senses /\ work \in Seq(Edges)
      /\ bell \in [Channels -> Bells] /\ WayOK(sense, work, Prevs(bell), level)
  BY DEF TowerInv, TypeInv, WayInv
<1>2. Path(s, ch, Prevs(bell)[ch], known) /\ (sense.mode = "keys" => LastIs(t, ch, known, lev))
  BY <1>1 DEF WayOK
<1>3. Prevs(bell)[ch] = prev
  BY <1>1, PrevsFacts
<1>4. /\ s \in Seq(Edges) /\ t \in Seq(Edges)
      /\ prev \in BOOLEAN /\ known \in BOOLEAN /\ lev \in BOOLEAN
  <2>1. sense.pending \in Seq(Edges) /\ t \in Seq(Edges) /\ known \in BOOLEAN
    BY <1>1, SenseFields DEF Levels
  <2>2. prev \in BOOLEAN /\ lev \in BOOLEAN
    BY <1>1, BellFields DEF Levels
  <2>. QED BY <1>1, <2>1, <2>2
<1>5. Coming(ch) = way /\ Queued(ch) = q
  BY DEF Coming, Queued
<1>6. Path(s, ch, prev, known)
  BY <1>2, <1>3
<1> HIDE DEF s, t, prev, known, lev
<1>7. /\ way \in Seq(Edges)
      /\ way = <<>> => \A i \in 1..Len(s) : s[i].ch # ch
      /\ way # <<>> => \E j \in 1..Len(s) : s[j].ch = ch /\ ~After(s, ch, j) /\ way[Len(way)] = s[j]
      /\ Path(s, ch, prev, known) =>
           \A i \in 1..Len(way) : way[i].held = IF i % 2 = 1 THEN ~prev ELSE prev
  BY <1>4, KeptFacts
<1>8. /\ q = <<>> => \A i \in 1..Len(t) : t[i].ch # ch
      /\ q # <<>> => \E j \in 1..Len(t) : t[j].ch = ch /\ ~After(t, ch, j) /\ q[Len(q)] = t[j]
  BY <1>4, KeptFacts
<1> HIDE DEF way, q
<1>9. \A i \in DOMAIN way : way[i].held = (IF i % 2 = 1 THEN ~prev ELSE prev)
  <2>1. DOMAIN way = 1..Len(way)
    BY <1>7
  <2>. QED BY <1>6, <1>7, <2>1
<1>10. known = IF way = <<>> THEN prev ELSE Last(way).held
  <2>1. CASE way = <<>>
    BY <1>6, <1>7, <2>1 DEF Path
  <2>2. CASE way # <<>>
    <3>1. PICK j \in 1..Len(s) : s[j].ch = ch /\ ~After(s, ch, j) /\ way[Len(way)] = s[j]
      BY <1>7, <2>2
    <3>2. s[j].held = known
      BY <1>6, <3>1 DEF Path
    <3>. QED BY <2>2, <3>1, <3>2 DEF Last
  <2>. QED BY <2>1, <2>2
<1>11. ASSUME sense.mode = "keys" PROVE lev = IF q = <<>> THEN known ELSE Last(q).held
  <2>0. LastIs(t, ch, known, lev)
    BY <1>2, <1>11
  <2>1. CASE q = <<>>
    BY <1>8, <2>0, <2>1 DEF LastIs
  <2>2. CASE q # <<>>
    <3>1. PICK j \in 1..Len(t) : t[j].ch = ch /\ ~After(t, ch, j) /\ q[Len(q)] = t[j]
      BY <1>8, <2>2
    <3>2. t[j].held = lev
      BY <2>0, <3>1 DEF LastIs
    <3>. QED BY <2>2, <3>1, <3>2 DEF Last
  <2>. QED BY <2>1, <2>2
<1>. QED BY <1>5, <1>9, <1>10, <1>11 DEF prev, known, lev

-----------------------------------------------------------------------------
\* The invariant holds in every state: the hand-overs of the edges between
\* keypad, pump, the survey's ToPins and ToKeys and the channels (sense_keys.py),
\* the phases of the survey (survey_state.py), the lasers and the notes
\* (channel_gate.py, ring.py), the two tasks in any order.
THEOREM TowerInvariant == Spec => []TowerInv
BY InitInv, NextInv, PTL DEF Spec

\* No edge is lost, doubled or out of order unless edges_lost says so: what is
\* between keypad and a channel leads up and down in turn from the level handled
\* last to the level of the line, through every survey (sense_keys.py, pump,
\* to_pins, to_keys; concentrator.py, poll_sense).
THEOREM EdgesAreAccounted == Spec => []NothingLostUnsaid
BY TowerInvariant, NothingLost, PTL

\* A plug change seen on a survey's own sockets is followed by another survey
\* (survey_state.py, trigger and step; concentrator.py, _channel).
THEOREM DoubtsAreKept == Spec => []PlugIsNotForgotten
<1>1. TowerInv => PlugIsNotForgotten
  BY DEF TowerInv, PhaseInv, PlugIsNotForgotten
<1>. QED BY <1>1, TowerInvariant, PTL

\* Between surveys the heads are lit and ring (ring.py, start and stop;
\* channel_gate.py, enforce).
THEOREM HeadsStayLit == Spec => []HeadsAreLit
<1>1. TowerInv => HeadsAreLit
  BY DEF TowerInv, LitInv, HeadsAreLit
<1>. QED BY <1>1, TowerInvariant, PTL

\* A head's note ends at its rest, with its laser and with the Ring; a press's
\* with the release, a survey in between or not, unless the survey took its
\* channel for something else than a trigger (ring.py, edge and stop;
\* concentrator.py, _trigger_note).
THEOREM NoOtherNoteStays == Spec => []OnlyTakenNotesStay
<1>1. TowerInv => OnlyTakenNotesStay
  BY DEF TowerInv
<1>. QED BY <1>1, TowerInvariant, PTL
=============================================================================
