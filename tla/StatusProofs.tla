----------------------------- MODULE StatusProofs -----------------------------
(***************************************************************************)
(* GET /status for every set of pollers and sections and every limit: a    *)
(* copy put together from pages and deltas is the page, and no reply holds *)
(* pieces of a page while the strokes or the memory come first.            *)
(***************************************************************************)
EXTENDS Status, QueueFacts

Units == Sections \cup {HEAD}

\* What is said of some of the units, each an X.
Partial(X) == UNION {[K -> X] : K \in SUBSET Units}

Docs == [version : Nat, units : Partial([at : Nat, text : Texts]), order : Seq(Sections),
         parts : BOOLEAN, built : BOOLEAN]

AnyPages == [order : Seq(Sections), text : Partial(Texts \cup {NOTHING})]

Bodies == [kind : Kinds, boot : Nat, resets : Nat, version : Nat, page : AnyPages]

Jobs == [peer : Peers, body : Bodies, left : Int, age : Int, hung : BOOLEAN]

Copies == [boot : Nat, resets : Nat, version : Nat, page : AnyPages]

TypeInv ==
  /\ world \in Pages
  /\ doc \in Docs /\ boot \in Nat /\ resets \in Nat /\ nomem \in Nat
  /\ gate \in {SERVE, HELD}
  /\ replies \in Seq(Jobs) /\ copies \in [Patched -> Copies]

\* A document without a version says nothing; another one says its head and
\* what is in its order, and no unit is younger than the whole.
DocInv(d) ==
  /\ d.version = 0 <=> d.units = <<>>
  /\ d.units # <<>> => DOMAIN d.units = ToSet(d.order) \cup {HEAD}
  /\ \A k \in DOMAIN d.units : d.units[k].at <= d.version

\* Whoever has this page as version v has every unit of the document that did
\* not change since; and at the document's own version, the document.
Reflects(page, v, d) ==
  /\ v <= d.version
  /\ \A k \in DOMAIN d.units :
       d.units[k].at <= v => k \in DOMAIN page.text /\ page.text[k] = d.units[k].text
  /\ v = d.version => page = PageOf(d)

\* A copy of this boot, of this document since it was last forgotten.
CopyOK(c, d, b, r) ==
  /\ c.boot <= b /\ c.resets <= r
  /\ c.boot = b /\ c.resets = r /\ c.version > 0 => Reflects(c.page, c.version, d)

\* A reply under way was cut from this boot's document.  What is waiting for
\* a delta is still the copy that it was asked from.
JobOK(job, d, b, r, cs) ==
  LET body == job.body IN
  /\ body.boot = b /\ body.resets = r
  /\ body.kind \in {"full", "full_parts"} => Reflects(body.page, body.version, d)
  /\ body.kind = "delta" =>
       /\ job.peer \in Patched
       /\ ~job.hung => /\ cs[job.peer].boot = b
                       /\ cs[job.peer].resets = r =>
                            Reflects(Merge(cs[job.peer].page, body.page), body.version, d)

\* Of two replies for one peer, one was given up by it.
Apart == {jj \in Jobs \X Jobs : jj[1].peer = jj[2].peer => jj[1].hung \/ jj[2].hung}

QueueOK(js, d, b, r, cs) ==
  /\ js \in Seq(Jobs)
  /\ \A job \in ToSet(js) : JobOK(job, d, b, r, cs)
  /\ Pairwise(js, Apart)

AllHeld(js) == \A job \in ToSet(js) : job.body.kind = "held"

GiveWay == gate = HELD \/ nomem > 0 => AllHeld(replies) /\ (nomem > 0 => doc.units = <<>>)

StatusInv ==
  /\ TypeInv
  /\ DocInv(doc)
  /\ \A p \in Patched : CopyOK(copies[p], doc, boot, resets)
  /\ QueueOK(replies, doc, boot, resets, copies)
  /\ GiveWay
-----------------------------------------------------------------------------
(* Documents and pages.                                                    *)

LEMMA PartialFacts ==
  ASSUME NEW X, NEW f
  PROVE  /\ f \in Partial(X) =>
              /\ DOMAIN f \subseteq Units /\ f = [k \in DOMAIN f |-> f[k]]
              /\ \A k \in DOMAIN f : f[k] \in X
         /\ /\ DOMAIN f \subseteq Units /\ f = [k \in DOMAIN f |-> f[k]]
            /\ \A k \in DOMAIN f : f[k] \in X
            => f \in Partial(X)
<1>1. ASSUME f \in Partial(X)
      PROVE  /\ DOMAIN f \subseteq Units /\ f = [k \in DOMAIN f |-> f[k]]
             /\ \A k \in DOMAIN f : f[k] \in X
  <2>1. PICK K \in SUBSET Units : f \in [K -> X]
    BY <1>1 DEF Partial
  <2>. QED BY <2>1
<1>2. ASSUME DOMAIN f \subseteq Units, f = [k \in DOMAIN f |-> f[k]],
             \A k \in DOMAIN f : f[k] \in X
      PROVE  f \in Partial(X)
  <2>1. f \in [DOMAIN f -> X]
    BY <1>2
  <2>. QED BY <1>2, <2>1 DEF Partial
<1>. QED BY <1>1, <1>2

\* Every page there may be to build says its head and its sections.
LEMMA PagesFacts ==
  ASSUME NEW page \in Pages
  PROVE  /\ page.order \in Seq(Sections)
         /\ DOMAIN page.text = ToSet(page.order) \cup {HEAD}
         /\ DOMAIN page.text \subseteq Units
         /\ page.text = [k \in DOMAIN page.text |-> page.text[k]]
         /\ \A k \in DOMAIN page.text : page.text[k] \in Texts
<1>1. PICK o \in Orders : page \in [order : {o}, text : [ToSet(o) \cup {HEAD} -> Texts]]
  BY DEF Pages
<1>2. o \in Seq(Sections)
  <2>1. PICK n \in 0..Cardinality(Sections) : o \in [1..n -> Sections]
    BY DEF Orders
  <2>2. n \in Nat
    OBVIOUS
  <2>. QED BY <2>1, <2>2
<1>3. page.order = o /\ page.text \in [ToSet(o) \cup {HEAD} -> Texts]
  BY <1>1
<1>4. ToSet(o) \subseteq Sections
  BY <1>2, SetOf
<1>. QED BY <1>2, <1>3, <1>4 DEF Units

LEMMA DocFacts ==
  ASSUME NEW d \in Docs
  PROVE  /\ d.version \in Nat /\ d.order \in Seq(Sections) /\ DOMAIN d.units \subseteq Units
         /\ \A k \in DOMAIN d.units : d.units[k].at \in Nat /\ d.units[k].text \in Texts
         /\ d.units = [k \in DOMAIN d.units |-> d.units[k]]
         /\ d.units = <<>> <=> DOMAIN d.units = {}
<1>1. d.version \in Nat /\ d.order \in Seq(Sections) /\ d.units \in Partial([at : Nat, text : Texts])
  BY DEF Docs
<1>2. /\ DOMAIN d.units \subseteq Units /\ d.units = [k \in DOMAIN d.units |-> d.units[k]]
      /\ \A k \in DOMAIN d.units : d.units[k] \in [at : Nat, text : Texts]
  BY <1>1, PartialFacts
<1>3. d.units = <<>> <=> DOMAIN d.units = {}
  <2>1. DOMAIN <<>> = {}
    OBVIOUS
  <2>2. ASSUME DOMAIN d.units = {} PROVE d.units = <<>>
    <3>1. d.units = [k \in {} |-> d.units[k]]
      BY <1>2, <2>2
    <3>2. <<>> = [k \in {} |-> d.units[k]]
      OBVIOUS
    <3>. QED BY <3>1, <3>2
  <2>. QED BY <2>1, <2>2
<1>. QED BY <1>1, <1>2, <1>3

LEMMA ForgottenFacts ==
  /\ Forgotten \in Docs /\ DocInv(Forgotten)
<1>1. <<>> \in Partial([at : Nat, text : Texts])
  <2>1. DOMAIN <<>> = {} /\ <<>> = [k \in DOMAIN <<>> |-> <<>>[k]]
    OBVIOUS
  <2>. QED BY <2>1, PartialFacts
<1>2. <<>> \in Seq(Sections)
  OBVIOUS
<1>3. Forgotten \in Docs
  BY <1>1, <1>2 DEF Forgotten, Docs
<1>4. DocInv(Forgotten)
  BY DEF DocInv, Forgotten
<1>. QED BY <1>3, <1>4

\* What the document says is a page, whole or what changed of it.
LEMMA PageTypes ==
  ASSUME NEW d \in Docs, NEW n
  PROVE  PageOf(d) \in AnyPages /\ Delta(d, n) \in AnyPages
<1>1. /\ d.order \in Seq(Sections) /\ DOMAIN d.units \subseteq Units
      /\ \A k \in DOMAIN d.units : d.units[k].text \in Texts
  BY DocFacts
<1>2. ASSUME NEW K, K \subseteq DOMAIN d.units
      PROVE  [order |-> d.order, text |-> [k \in K |-> d.units[k].text]] \in AnyPages
  <2> DEFINE f == [k \in K |-> d.units[k].text]
  <2>1. f \in Partial(Texts \cup {NOTHING})
    <3>1. DOMAIN f \subseteq Units /\ f = [k \in DOMAIN f |-> f[k]]
      BY <1>1, <1>2
    <3>2. \A k \in DOMAIN f : f[k] \in Texts \cup {NOTHING}
      BY <1>1, <1>2
    <3> HIDE DEF f
    <3>. QED BY <3>1, <3>2, PartialFacts
  <2> HIDE DEF f
  <2>2. [order |-> d.order, text |-> f] \in AnyPages
    BY <1>1, <2>1 DEF AnyPages
  <2>. QED BY <2>2 DEF f
<1>3. PageOf(d) \in AnyPages
  BY <1>2 DEF PageOf
<1>4. Delta(d, n) \in AnyPages
  <2> DEFINE K == {u \in DOMAIN d.units : d.units[u].at > n}
  <2>1. K \subseteq DOMAIN d.units
    OBVIOUS
  <2> HIDE DEF K
  <2>2. [order |-> d.order, text |-> [k \in K |-> d.units[k].text]] \in AnyPages
    BY <1>2, <2>1
  <2>. QED BY <2>2 DEF Delta, K
<1>. QED BY <1>3, <1>4

LEMMA MergeType ==
  ASSUME NEW page \in AnyPages, NEW delta \in AnyPages
  PROVE  Merge(page, delta) \in AnyPages
<1>1. /\ delta.order \in Seq(Sections)
      /\ delta.text \in Partial(Texts \cup {NOTHING}) /\ page.text \in Partial(Texts \cup {NOTHING})
  BY DEF AnyPages
<1>2. /\ \A k \in DOMAIN delta.text : delta.text[k] \in Texts \cup {NOTHING}
      /\ \A k \in DOMAIN page.text : page.text[k] \in Texts \cup {NOTHING}
  BY <1>1, PartialFacts
<1>3. ToSet(delta.order) \subseteq Sections
  BY <1>1, SetOf
<1> DEFINE f == [k \in ToSet(delta.order) \cup {HEAD} |->
                   IF k \in DOMAIN delta.text THEN delta.text[k]
                   ELSE IF k \in DOMAIN page.text THEN page.text[k]
                   ELSE NOTHING]
<1>4. f \in Partial(Texts \cup {NOTHING})
  <2>1. DOMAIN f \subseteq Units /\ f = [k \in DOMAIN f |-> f[k]]
    BY <1>3 DEF Units
  <2>2. \A k \in DOMAIN f : f[k] \in Texts \cup {NOTHING}
    BY <1>2
  <2> HIDE DEF f
  <2>. QED BY <2>1, <2>2, PartialFacts
<1> HIDE DEF f
<1>5. [order |-> delta.order, text |-> f] \in AnyPages
  BY <1>1, <1>4 DEF AnyPages
<1>. QED BY <1>5 DEF Merge, f

\* A whole page reflects its document.
LEMMA PageReflects ==
  ASSUME NEW d \in Docs
  PROVE  Reflects(PageOf(d), d.version, d)
<1>1. d.version \in Nat
  BY DocFacts
<1>2. \A k \in DOMAIN d.units : k \in DOMAIN PageOf(d).text /\ PageOf(d).text[k] = d.units[k].text
  BY DEF PageOf
<1>. QED BY <1>1, <1>2 DEF Reflects

\* So does what a delta makes of a page that reflects an earlier version.
LEMMA MergeReflects ==
  ASSUME NEW d \in Docs, DocInv(d), d.units # <<>>, NEW since \in Nat, NEW page,
         Reflects(page, since, d)
  PROVE  Merge(page, Delta(d, since)) = PageOf(d)
<1>1. DOMAIN d.units = ToSet(d.order) \cup {HEAD} /\ \A k \in DOMAIN d.units : d.units[k].at \in Nat
  BY DocFacts DEF DocInv
<1> DEFINE dl == [k \in {u \in DOMAIN d.units : d.units[u].at > since} |-> d.units[k].text]
<1> DEFINE Said(k) == IF k \in DOMAIN dl THEN dl[k]
                      ELSE IF k \in DOMAIN page.text THEN page.text[k] ELSE NOTHING
<1>2. ASSUME NEW k \in DOMAIN d.units PROVE Said(k) = d.units[k].text
  <2>1. CASE d.units[k].at > since
    BY <2>1
  <2>2. CASE ~(d.units[k].at > since)
    <3>1. k \notin DOMAIN dl /\ d.units[k].at <= since
      BY <1>1, <2>2
    <3>2. k \in DOMAIN page.text /\ page.text[k] = d.units[k].text
      BY <3>1 DEF Reflects
    <3> HIDE DEF dl
    <3>. QED BY <3>1, <3>2
  <2>. QED BY <2>1, <2>2
<1>3. Merge(page, Delta(d, since)) =
        [order |-> d.order, text |-> [k \in ToSet(d.order) \cup {HEAD} |-> Said(k)]]
  BY DEF Merge, Delta
<1> HIDE DEF Said
<1>4. [k \in ToSet(d.order) \cup {HEAD} |-> Said(k)] = [k \in DOMAIN d.units |-> d.units[k].text]
  BY <1>1, <1>2
<1>. QED BY <1>3, <1>4 DEF PageOf
\* A refreshed document is one, says something, and whatever reflected the
\* old one reflects it at the version it had.
LEMMA RefreshKeeps ==
  ASSUME NEW d \in Docs, DocInv(d), NEW page \in Pages, NEW parts \in BOOLEAN
  PROVE  /\ Refreshed(d, page, parts) \in Docs
         /\ DocInv(Refreshed(d, page, parts))
         /\ Refreshed(d, page, parts).units # <<>>
         /\ \A was : \A v \in Nat :
              Reflects(was, v, d) => Reflects(was, v, Refreshed(d, page, parts))
<1> DEFINE new == Refreshed(d, page, parts)
           same == Changed(d, page) = {} /\ Removed(d, page) = {} /\ page.order = d.order
           v2 == IF same THEN d.version ELSE d.version + 1
<1>1. /\ d.version \in Nat /\ DOMAIN d.units \subseteq Units /\ d.order \in Seq(Sections)
      /\ \A k \in DOMAIN d.units : d.units[k].at \in Nat /\ d.units[k].text \in Texts
      /\ \A k \in DOMAIN d.units : d.units[k].at <= d.version
      /\ \A k \in DOMAIN d.units : d.units[k] \in [at : Nat, text : Texts]
  <2>1. \A k \in DOMAIN d.units : d.units[k] \in [at : Nat, text : Texts]
    BY PartialFacts DEF Docs
  <2>. QED BY <2>1, DocFacts DEF DocInv
<1>2. /\ page.order \in Seq(Sections)
      /\ DOMAIN page.text = ToSet(page.order) \cup {HEAD} /\ DOMAIN page.text \subseteq Units
      /\ \A k \in DOMAIN page.text : page.text[k] \in Texts
  BY PagesFacts
<1>3. /\ new.version = v2 /\ new.order = page.order
      /\ DOMAIN new.units = DOMAIN page.text
      /\ new.parts = parts /\ new.built = TRUE
      /\ new = [version |-> new.version, units |-> new.units, order |-> new.order,
                parts |-> new.parts, built |-> new.built]
      /\ new.units = [k \in DOMAIN new.units |-> new.units[k]]
  BY DEF Refreshed
<1>4. \A k \in DOMAIN page.text :
        new.units[k] = IF k \in Changed(d, page) THEN [at |-> v2, text |-> page.text[k]]
                       ELSE d.units[k]
  BY DEF Refreshed
<1>5. \A k \in DOMAIN page.text :
        k \notin Changed(d, page) => k \in DOMAIN d.units /\ d.units[k].text = page.text[k]
  BY DEF Changed
<1>6. v2 \in Nat /\ d.version <= v2 /\ (~same => d.version < v2)
  <2> HIDE DEF same
  <2>. QED BY <1>1
<1>7. \A k \in DOMAIN page.text : new.units[k] \in [at : Nat, text : Texts]
                                  /\ new.units[k].text = page.text[k] /\ new.units[k].at <= v2
  <2> HIDE DEF new, v2, same
  <2> SUFFICES ASSUME NEW k \in DOMAIN page.text
               PROVE  /\ new.units[k] \in [at : Nat, text : Texts]
                      /\ new.units[k].text = page.text[k] /\ new.units[k].at <= v2
    OBVIOUS
  <2>1. CASE k \in Changed(d, page)
    <3>1. new.units[k] = [at |-> v2, text |-> page.text[k]] /\ page.text[k] \in Texts
      BY <1>2, <1>4, <2>1
    <3>. QED BY <1>6, <3>1
  <2>2. CASE k \notin Changed(d, page)
    <3>1. new.units[k] = d.units[k] /\ d.units[k].text = page.text[k] /\ k \in DOMAIN d.units
      BY <1>4, <1>5, <2>2
    <3>2. d.units[k] \in [at : Nat, text : Texts] /\ d.units[k].at <= d.version
      BY <1>1, <3>1
    <3>. QED BY <1>1, <1>6, <3>1, <3>2
  <2>. QED BY <2>1, <2>2
<1>8. new.units \in Partial([at : Nat, text : Texts])
  <2> HIDE DEF new
  <2>. QED BY <1>2, <1>3, <1>7, PartialFacts
<1>9. new \in Docs
  <2> HIDE DEF new, v2
  <2>1. [version |-> new.version, units |-> new.units, order |-> new.order,
         parts |-> new.parts, built |-> new.built] \in Docs
    BY <1>2, <1>3, <1>6, <1>8 DEF Docs
  <2>. QED BY <1>3, <2>1
<1>10. new.units # <<>>
  <2>1. HEAD \in DOMAIN new.units
    BY <1>2, <1>3
  <2> HIDE DEF new
  <2>2. DOMAIN <<>> = {}
    OBVIOUS
  <2>. QED BY <2>1, <2>2
<1>11. v2 # 0
  <2>1. CASE d.version = 0
    <3>1. DOMAIN d.units = {}
      BY <2>1, DocFacts DEF DocInv
    <3>2. HEAD \in Changed(d, page)
      BY <1>2, <3>1 DEF Changed
    <3>. QED BY <1>1, <3>2
  <2>2. CASE d.version # 0
    <3> HIDE DEF v2
    <3>. QED BY <1>1, <1>6, <2>2
  <2>. QED BY <2>1, <2>2
<1>12. DocInv(new)
  <2> HIDE DEF new, v2
  <2>. QED BY <1>2, <1>3, <1>7, <1>10, <1>11 DEF DocInv
<1>13. ASSUME NEW was, NEW v \in Nat, Reflects(was, v, d) PROVE Reflects(was, v, new)
  <2>1. v <= d.version
    BY <1>13 DEF Reflects
  <2>2. ASSUME NEW k \in DOMAIN page.text, new.units[k].at <= v
        PROVE  k \in DOMAIN was.text /\ was.text[k] = new.units[k].text
    <3>1. k \notin Changed(d, page)
      <4> SUFFICES ASSUME k \in Changed(d, page) PROVE FALSE
        OBVIOUS
      <4>1. ~same /\ new.units[k] = [at |-> v2, text |-> page.text[k]]
        BY <1>4
      <4> HIDE DEF new, v2, same
      <4>2. v2 <= v /\ d.version < v2
        BY <1>6, <2>2, <4>1
      <4>. QED BY <1>1, <1>6, <2>1, <4>2
    <3>2. new.units[k] = d.units[k] /\ k \in DOMAIN d.units
      BY <1>4, <1>5, <3>1
    <3> HIDE DEF new
    <3>. QED BY <1>13, <2>2, <3>2 DEF Reflects
  <2>3. ASSUME v = v2 PROVE was = PageOf(new)
    <3>1. same /\ v = d.version
      <4> HIDE DEF same, v2
      <4>1. same
        BY <1>1, <1>6, <2>1, <2>3
      <4>. QED BY <2>3, <4>1 DEF v2
    <3>2. was = PageOf(d)
      BY <1>13, <3>1 DEF Reflects
    <3>3. DOMAIN page.text = DOMAIN d.units
      <4>1. \A k \in DOMAIN d.units : k \in DOMAIN page.text
        BY <3>1 DEF Removed
      <4>. QED BY <1>5, <3>1, <4>1
    <3>4. \A k \in DOMAIN page.text : new.units[k] = d.units[k]
      BY <1>4, <3>1
    <3>5. new.order = d.order
      BY <1>3, <3>1
    <3> HIDE DEF new
    <3>6. [k \in DOMAIN d.units |-> d.units[k].text] = [k \in DOMAIN new.units |-> new.units[k].text]
      BY <1>3, <3>3, <3>4
    <3>. QED BY <3>2, <3>5, <3>6 DEF PageOf
  <2> HIDE DEF new, v2
  <2>4. v <= v2
    BY <1>1, <1>6, <2>1
  <2>. QED BY <1>3, <2>2, <2>3, <2>4 DEF Reflects
<1> HIDE DEF new
<1>14. \A was : \A v \in Nat : Reflects(was, v, d) => Reflects(was, v, new)
  BY <1>13
<1>. QED BY <1>9, <1>10, <1>12, <1>14 DEF new
-----------------------------------------------------------------------------
(* Requests.                                                               *)

\* Copies and replies outlive a refresh of the document.
LEMMA Onwards ==
  ASSUME TypeInv, NEW d, NEW d2,
         \A was : \A v \in Nat : Reflects(was, v, d) => Reflects(was, v, d2)
  PROVE  /\ (\A p \in Patched : CopyOK(copies[p], d, boot, resets))
              => \A p \in Patched : CopyOK(copies[p], d2, boot, resets)
         /\ QueueOK(replies, d, boot, resets, copies) => QueueOK(replies, d2, boot, resets, copies)
<1>1. ASSUME NEW p \in Patched, CopyOK(copies[p], d, boot, resets)
      PROVE  CopyOK(copies[p], d2, boot, resets)
  <2>1. copies[p].version \in Nat
    BY DEF TypeInv, Copies
  <2>. QED BY <1>1, <2>1 DEF CopyOK
<1>2. ASSUME NEW job \in Jobs, JobOK(job, d, boot, resets, copies)
      PROVE  JobOK(job, d2, boot, resets, copies)
  <2>1. job.body.version \in Nat
    BY DEF Jobs, Bodies
  <2>. QED BY <1>2, <2>1 DEF JobOK
<1>3. ASSUME QueueOK(replies, d, boot, resets, copies)
      PROVE  QueueOK(replies, d2, boot, resets, copies)
  <2>1. ToSet(replies) \subseteq Jobs
    BY SetOf DEF TypeInv
  <2>. QED BY <1>2, <1>3, <2>1 DEF QueueOK
<1>. QED BY <1>1, <1>3

\* What is let through while the strokes have the link, or the memory is low:
\* nothing but held replies; a delta is for one who asked for it in time.
LEMMA KindFacts ==
  ASSUME TypeInv, NEW p \in Peers
  PROVE  /\ Kind(p) \in Kinds
         /\ Kind(p) # "held" => gate # HELD /\ ~(nomem > 0)
         /\ Kind(p) = "delta" => p \in Patched
<1> DEFINE Events == {"first", "plain", "since", "again", "crowd", "refull", "nomem"}
<1> DEFINE e == AskEvent(p)
<1>1. /\ e \in Events
      /\ nomem > 0 => e = "nomem"
      /\ e = "since" => p \in Patched
  BY DEF AskEvent
<1>2. gate \in {SERVE, HELD} /\ SERVE # HELD
  BY DEF TypeInv, SERVE, HELD
<1>3. Kind(p) = IF gate = SERVE /\ e = "first" THEN "full"
                ELSE IF gate = SERVE /\ e = "plain" THEN "full_parts"
                ELSE IF gate = SERVE /\ e = "since" THEN "delta" ELSE "held"
  <2> DEFINE q == <<gate, e>>
  <2>1. q \in {SERVE, HELD} \X Events /\ q[1] = gate /\ q[2] = e
    BY <1>1, <1>2
  <2>2. Kind(p) = CASE q = <<SERVE, "first">> -> "full"
                    [] q = <<SERVE, "plain">> -> "full_parts"
                    [] q = <<SERVE, "since">> -> "delta"
                    [] OTHER -> "held"
    BY <2>1 DEF Kind, STATUS_ASK
  <2>3. \A x : q = <<SERVE, x>> <=> gate = SERVE /\ e = x
    OBVIOUS
  <2> HIDE DEF q, e
  <2>. QED BY <2>2, <2>3
<1> HIDE DEF e
<1>. QED BY <1>1, <1>2, <1>3 DEF Kinds

LEMMA BodyFacts ==
  ASSUME TypeInv, NEW d \in Docs, NEW kind \in Kinds, NEW since
  PROVE  /\ Body(kind, d, since) \in Bodies
         /\ Body(kind, d, since).kind = kind
         /\ Body(kind, d, since).boot = boot /\ Body(kind, d, since).resets = resets
         /\ Body(kind, d, since).version = d.version
         /\ kind \in {"full", "full_parts"} => Body(kind, d, since).page = PageOf(d)
         /\ kind = "delta" => Body(kind, d, since).page = Delta(d, since)
<1> DEFINE page == CASE kind = "held"  -> PageOf(Forgotten)
                     [] kind = "delta" -> Delta(d, since)
                     [] OTHER          -> PageOf(d)
<1>1. /\ kind \in {"full", "full_parts"} => page = PageOf(d)
      /\ kind = "delta" => page = Delta(d, since)
      /\ kind = "held" => page = PageOf(Forgotten)
  OBVIOUS
<1>2. page \in AnyPages
  <2>1. PageOf(d) \in AnyPages /\ Delta(d, since) \in AnyPages
    BY PageTypes
  <2>2. PageOf(Forgotten) \in AnyPages
    BY PageTypes, ForgottenFacts
  <2> HIDE DEF page
  <2>. QED BY <1>1, <2>1, <2>2 DEF Kinds
<1>3. boot \in Nat /\ resets \in Nat /\ d.version \in Nat
  BY DocFacts DEF TypeInv
<1> HIDE DEF page
<1>4. [kind |-> kind, boot |-> boot, resets |-> resets, version |-> d.version, page |-> page]
        \in Bodies
  BY <1>2, <1>3 DEF Bodies
<1>5. Body(kind, d, since) =
        [kind |-> kind, boot |-> boot, resets |-> resets, version |-> d.version, page |-> page]
  BY DEF Body, page
<1>. QED BY <1>1, <1>4, <1>5

LEMMA JobFacts ==
  ASSUME NEW p \in Peers, NEW body \in Bodies
  PROVE  /\ Job(p, body) \in Jobs /\ Job(p, body).peer = p /\ Job(p, body).body = body
         /\ ~Job(p, body).hung
<1>1. Chunks(body.kind) \in Int
  BY DEF Chunks
<1>. QED BY <1>1 DEF Job, Jobs

\* A queue takes a reply for one who waits for no other.
LEMMA QueueKeeps ==
  ASSUME NEW d, QueueOK(replies, d, boot, resets, copies),
         NEW p \in Peers, Asks(p), NEW body \in Bodies,
         JobOK(Job(p, body), d, boot, resets, copies),
         Queue(p, body)
  PROVE  /\ QueueOK(replies', d, boot, resets, copies)
         /\ AllHeld(replies) /\ body.kind = "held" => AllHeld(replies')
<1>1. /\ replies \in Seq(Jobs) /\ Pairwise(replies, Apart)
      /\ \A job \in ToSet(replies) : JobOK(job, d, boot, resets, copies)
  BY DEF QueueOK
<1>2. CASE replies' = replies
  BY <1>1, <1>2 DEF QueueOK
<1>3. CASE replies' = Append(replies, Job(p, body))
  <2> DEFINE new == Job(p, body)
  <2>1. new \in Jobs /\ new.peer = p /\ new.body = body /\ ~new.hung
    BY JobFacts
  <2>2. ASSUME NEW job \in ToSet(replies) PROVE <<job, new>> \in Apart
    <3>1. PICK i \in 1..Len(replies) : job = replies[i]
      BY <1>1, SetOf
    <3>2. job \in Jobs
      BY <1>1, SetOf
    <3>3. job.peer = p => job.hung
      BY <3>1 DEF Asks
    <3> HIDE DEF new
    <3>. QED BY <2>1, <3>2, <3>3 DEF Apart
  <2> HIDE DEF new
  <2>3. /\ Append(replies, new) \in Seq(Jobs)
        /\ ToSet(Append(replies, new)) = ToSet(replies) \cup {new}
    BY <1>1, <2>1, AppendFacts
  <2>4. Pairwise(Append(replies, new), Apart)
    BY <1>1, <2>1, <2>2, AppendPairs
  <2>5. JobOK(new, d, boot, resets, copies)
    BY DEF new
  <2>6. replies' = Append(replies, new)
    BY <1>3 DEF new
  <2>. QED BY <1>1, <2>1, <2>3, <2>4, <2>5, <2>6 DEF QueueOK, AllHeld
<1>. QED BY <1>2, <1>3 DEF Queue

\* A held reply promises nothing.
LEMMA HeldKeeps ==
  ASSUME TypeInv, NEW d, QueueOK(replies, d, boot, resets, copies),
         NEW p \in Peers, Asks(p), NEW e \in Docs, Queue(p, Body("held", e, 0))
  PROVE  /\ QueueOK(replies', d, boot, resets, copies)
         /\ AllHeld(replies) => AllHeld(replies')
<1> DEFINE body == Body("held", e, 0)
<1>1. body \in Bodies /\ body.kind = "held" /\ body.boot = boot /\ body.resets = resets
  BY BodyFacts DEF Kinds
<1> HIDE DEF body
<1>2. Job(p, body).body = body
  BY DEF Job
<1>3. JobOK(Job(p, body), d, boot, resets, copies)
  BY <1>1, <1>2 DEF JobOK
<1>4. Queue(p, body)
  BY DEF body
<1>. QED BY <1>1, <1>3, <1>4, QueueKeeps

\* What an answer is cut from is what its poller will make of it.
LEMMA AnswerKeeps ==
  ASSUME TypeInv, NEW d \in Docs, DocInv(d), d.units # <<>>,
         \A q \in Patched : CopyOK(copies[q], d, boot, resets),
         QueueOK(replies, d, boot, resets, copies),
         NEW p \in Peers, Asks(p), Kind(p) # "held", Answer(p, d)
  PROVE  QueueOK(replies', d, boot, resets, copies)
<1> DEFINE since == IF p \in Patched THEN copies[p].version ELSE 0
           stale == Kind(p) = "delta" /\ ~Knows(d, boot, since, copies[p].boot)
           kind == IF stale THEN "full" ELSE Kind(p)
           body == Body(kind, d, since)
<1>1. Queue(p, body)
  BY DEF Answer
<1>2. /\ kind \in Kinds \ {"held"}
      /\ kind = "delta" => p \in Patched /\ Knows(d, boot, copies[p].version, copies[p].boot)
                           /\ since = copies[p].version
  <2>1. Kind(p) \in Kinds \ {"held"} /\ (Kind(p) = "delta" => p \in Patched)
    BY KindFacts
  <2>2. "full" \in Kinds \ {"held"} /\ "full" # "delta"
    BY DEF Kinds
  <2>3. p \in Patched => since = copies[p].version
    OBVIOUS
  <2> HIDE DEF since
  <2>. QED BY <2>1, <2>2, <2>3
<1> HIDE DEF kind, since
<1>3. /\ body \in Bodies /\ body.kind = kind /\ body.boot = boot /\ body.resets = resets
      /\ body.version = d.version
      /\ kind \in {"full", "full_parts"} => body.page = PageOf(d)
      /\ kind = "delta" => body.page = Delta(d, since)
  BY <1>2, BodyFacts
<1> HIDE DEF body
<1>4. Job(p, body).body = body /\ Job(p, body).peer = p
  BY DEF Job
<1>5. Reflects(PageOf(d), d.version, d)
  BY PageReflects
<1>6. ASSUME kind = "delta"
      PROVE  /\ p \in Patched /\ copies[p].boot = boot
             /\ copies[p].resets = resets =>
                  Reflects(Merge(copies[p].page, body.page), body.version, d)
  <2>1. /\ p \in Patched /\ copies[p].boot = boot /\ copies[p].version > 0
        /\ since = copies[p].version
    BY <1>2, <1>6 DEF Knows
  <2>2. ASSUME copies[p].resets = resets
        PROVE  Reflects(Merge(copies[p].page, body.page), body.version, d)
    <3>1. Reflects(copies[p].page, since, d)
      BY <2>1, <2>2 DEF CopyOK
    <3>2. since \in Nat
      BY <2>1 DEF TypeInv, Copies
    <3>3. Merge(copies[p].page, Delta(d, since)) = PageOf(d)
      BY <3>1, <3>2, MergeReflects
    <3>. QED BY <1>3, <1>5, <1>6, <3>3
  <2>. QED BY <2>1, <2>2
<1>7. JobOK(Job(p, body), d, boot, resets, copies)
  BY <1>3, <1>4, <1>5, <1>6 DEF JobOK
<1>. QED BY <1>1, <1>3, <1>7, QueueKeeps

LEMMA ReplyKeeps ==
  ASSUME TypeInv, NEW d \in Docs, DocInv(d),
         \A q \in Patched : CopyOK(copies[q], d, boot, resets),
         QueueOK(replies, d, boot, resets, copies),
         NEW p \in Peers, Asks(p), Kind(p) # "held", Reply(p, d)
  PROVE  QueueOK(replies', d, boot, resets, copies)
<1>1. CASE d.units = <<>>
  BY <1>1 DEF Reply
<1>2. CASE d.units # <<>>
  <2>1. Answer(p, d)
    BY <1>2 DEF Reply
  <2>. QED BY <1>2, <2>1, AnswerKeeps
<1>. QED BY <1>1, <1>2
-----------------------------------------------------------------------------
(* The queue of replies.                                                   *)

LEMMA EmptyQueue ==
  ASSUME NEW d, NEW b, NEW r, NEW cs
  PROVE  QueueOK(<<>>, d, b, r, cs) /\ AllHeld(<<>>)
<1>1. <<>> \in Seq(Jobs) /\ Len(<<>>) = 0 /\ ToSet(<<>>) = {}
  BY DEF ToSet
<1>. QED BY <1>1 DEF QueueOK, AllHeld, Pairwise

\* Replies that grow older, are partly sent or given up are still those.
LEMMA SameQueue ==
  ASSUME NEW js, NEW d, QueueOK(js, d, boot, resets, copies), NEW js2 \in Seq(Jobs),
         Len(js2) = Len(js),
         \A i \in 1..Len(js) : /\ js2[i].peer = js[i].peer /\ js2[i].body = js[i].body
                               /\ js[i].hung => js2[i].hung
  PROVE  QueueOK(js2, d, boot, resets, copies) /\ (AllHeld(js) => AllHeld(js2))
<1>1. /\ js \in Seq(Jobs) /\ Pairwise(js, Apart) /\ Len(js) \in Nat
      /\ \A i \in 1..Len(js) : js[i] \in ToSet(js) /\ js2[i] \in Jobs
      /\ \A y \in ToSet(js2) : \E i \in 1..Len(js) : y = js2[i]
  <2>1. js \in Seq(Jobs) /\ Pairwise(js, Apart)
    BY DEF QueueOK
  <2>2. Len(js) \in Nat /\ \A i \in 1..Len(js) : js[i] \in ToSet(js)
    BY <2>1, SetOf
  <2>3. /\ \A i \in 1..Len(js2) : js2[i] \in Jobs
        /\ \A y \in ToSet(js2) : \E i \in 1..Len(js2) : y = js2[i]
    BY SetOf
  <2>. QED BY <2>1, <2>2, <2>3
<1>2. ASSUME NEW job \in ToSet(js2) PROVE JobOK(job, d, boot, resets, copies)
  <2>1. PICK i \in 1..Len(js) : job = js2[i]
    BY <1>1
  <2>2. JobOK(js[i], d, boot, resets, copies)
    BY <1>1 DEF QueueOK
  <2>3. job.peer = js[i].peer /\ job.body = js[i].body /\ (js[i].hung => job.hung)
    BY <2>1
  <2>. QED BY <2>2, <2>3 DEF JobOK
<1>3. Pairwise(js2, Apart)
  <2> SUFFICES ASSUME NEW i \in 1..Len(js), NEW j \in 1..Len(js), i < j
               PROVE  <<js2[i], js2[j]>> \in Apart
    BY DEF Pairwise
  <2>1. <<js[i], js[j]>> \in Apart
    BY <1>1 DEF Pairwise
  <2>2. js[i].peer = js[j].peer => js[i].hung \/ js[j].hung
    BY <2>1 DEF Apart
  <2>3. js2[i] \in Jobs /\ js2[j] \in Jobs
    BY <1>1
  <2>. QED BY <2>2, <2>3 DEF Apart
<1>4. ASSUME AllHeld(js) PROVE AllHeld(js2)
  BY <1>1, <1>4 DEF AllHeld
<1>. QED BY <1>2, <1>3, <1>4 DEF QueueOK

\* What is overdue is dropped.
LEMMA InTimeKeeps ==
  ASSUME NEW d, QueueOK(replies, d, boot, resets, copies)
  PROVE  /\ QueueOK(InTime(replies), d, boot, resets, copies)
         /\ AllHeld(replies) => AllHeld(InTime(replies))
<1> DEFINE S == {job \in ToSet(replies) : ~Overdue(job)}
<1>1. replies \in Seq(Jobs) /\ Pairwise(replies, Apart)
  BY DEF QueueOK
<1>2. InTime(replies) = Keeping(replies, S)
  BY DEF InTime
<1> HIDE DEF S
<1>3. /\ Keeping(replies, S) \in Seq(Jobs)
      /\ ToSet(Keeping(replies, S)) \subseteq ToSet(replies)
  BY <1>1, KeepingFacts
<1>4. Pairwise(Keeping(replies, S), Apart)
  BY <1>1, KeepingPairs
<1>. QED BY <1>2, <1>3, <1>4 DEF QueueOK, AllHeld

LEMMA TailKeeps ==
  ASSUME NEW js, NEW d, QueueOK(js, d, boot, resets, copies), js # <<>>
  PROVE  /\ QueueOK(Tail(js), d, boot, resets, copies)
         /\ AllHeld(js) => AllHeld(Tail(js))
         /\ Head(js) \in Jobs /\ JobOK(Head(js), d, boot, resets, copies)
         /\ \A job \in ToSet(Tail(js)) : <<Head(js), job>> \in Apart
<1>1. js \in Seq(Jobs) /\ Pairwise(js, Apart)
  BY DEF QueueOK
<1>2. Tail(js) \in Seq(Jobs) /\ ToSet(Tail(js)) \subseteq ToSet(js)
  BY <1>1, TailFacts
<1>3. Pairwise(Tail(js), Apart) /\ \A job \in ToSet(Tail(js)) : <<Head(js), job>> \in Apart
  BY <1>1, TailPairs
<1>4. Head(js) \in ToSet(js) /\ ToSet(js) \subseteq Jobs
  BY <1>1, SetOf
<1>. QED BY <1>2, <1>3, <1>4 DEF QueueOK, AllHeld

\* A body that arrives leaves a copy of its version, and nobody else waits for
\* a delta on the copy that it changed.
LEMMA ReceivesKeeps ==
  ASSUME TypeInv, \A q \in Patched : CopyOK(copies[q], doc, boot, resets),
         NEW js, QueueOK(js, doc, boot, resets, copies), js # <<>>,
         Receives(Head(js))
  PROVE  /\ copies' \in [Patched -> Copies]
         /\ \A q \in Patched : CopyOK(copies'[q], doc, boot, resets)
         /\ QueueOK(Tail(js), doc, boot, resets, copies')
<1> DEFINE job == Head(js)
           body == job.body
           p == job.peer
<1>1. /\ job \in Jobs /\ JobOK(job, doc, boot, resets, copies)
      /\ QueueOK(Tail(js), doc, boot, resets, copies)
      /\ \A other \in ToSet(Tail(js)) : <<job, other>> \in Apart
  BY TailKeeps
<1>2. copies \in [Patched -> Copies] /\ boot \in Nat /\ resets \in Nat
  BY DEF TypeInv
<1>3. /\ body \in Bodies /\ body.kind \in Kinds /\ body.boot \in Nat /\ body.resets \in Nat
      /\ body.version \in Nat /\ body.page \in AnyPages
  BY <1>1 DEF Jobs, Bodies
<1> HIDE DEF job
<1>4. CASE job.hung \/ body.kind = "held" \/ p \notin Patched
  <2>1. copies' = copies
    BY <1>4 DEF Receives, job
  <2>. QED BY <1>1, <1>2, <2>1
<1>5. CASE ~(job.hung \/ body.kind = "held" \/ p \notin Patched)
  <2> DEFINE c == copies[p]
             new == [boot    |-> body.boot,
                     resets  |-> IF body.kind = "delta" THEN c.resets ELSE body.resets,
                     version |-> body.version,
                     page    |-> IF body.kind = "delta" THEN Merge(c.page, body.page)
                                 ELSE body.page]
  <2>1. copies' = [copies EXCEPT ![p] = new]
    BY <1>5 DEF Receives, job
  <2>2. c \in Copies /\ c.resets \in Nat /\ c.page \in AnyPages /\ CopyOK(c, doc, boot, resets)
    BY <1>2, <1>5 DEF Copies
  <2>3. Merge(c.page, body.page) \in AnyPages
    BY <1>3, <2>2, MergeType
  <2>4. new \in Copies
    <3> HIDE DEF c
    <3>. QED BY <1>3, <2>2, <2>3 DEF Copies
  <2>5. body.boot = boot /\ body.resets = resets
    BY <1>1 DEF JobOK
  <2>6. CopyOK(new, doc, boot, resets)
    <3>1. new.boot <= boot /\ new.resets <= resets
      BY <1>2, <2>2, <2>5 DEF CopyOK
    <3>2. ASSUME new.resets = resets PROVE Reflects(new.page, new.version, doc)
      <4>1. CASE body.kind = "delta"
        BY <1>1, <1>5, <3>2, <4>1 DEF JobOK
      <4>2. CASE body.kind # "delta"
        <5>1. body.kind \in {"full", "full_parts"}
          BY <1>3, <1>5, <4>2 DEF Kinds
        <5>. QED BY <1>1, <4>2, <5>1 DEF JobOK
      <4>. QED BY <4>1, <4>2
    <3>. QED BY <3>1, <3>2 DEF CopyOK
  <2> HIDE DEF new, c
  <2>7. \A q \in Patched : copies'[q] = IF q = p THEN new ELSE copies[q]
    BY <1>2, <2>1
  <2>8. copies' \in [Patched -> Copies]
    BY <1>2, <2>1, <2>4
  <2>9. ASSUME NEW other \in ToSet(Tail(js)) PROVE JobOK(other, doc, boot, resets, copies')
    <3>1. JobOK(other, doc, boot, resets, copies)
      BY <1>1 DEF QueueOK
    <3>2. other.peer = p => other.hung
      BY <1>1, <1>5 DEF Apart
    <3>3. other.peer \in Patched /\ ~other.hung => copies'[other.peer] = copies[other.peer]
      BY <2>7, <3>2
    <3> HIDE DEF p
    <3>. QED BY <3>1, <3>3 DEF JobOK
  <2>10. \A q \in Patched : CopyOK(copies'[q], doc, boot, resets)
    BY <2>6, <2>7
  <2>11. QueueOK(Tail(js), doc, boot, resets, copies')
    BY <1>1, <2>9 DEF QueueOK
  <2>. QED BY <2>8, <2>10, <2>11
<1>. QED BY <1>4, <1>5
-----------------------------------------------------------------------------
(* Every action keeps the invariant.                                       *)

\* What a request leaves alone.
Still == UNCHANGED <<world, boot, resets, nomem, gate, copies>>

LEMMA InitInv == Init => StatusInv
<1> SUFFICES ASSUME Init PROVE StatusInv
  OBVIOUS
<1>1. Forgotten \in Docs /\ DocInv(Forgotten)
  BY ForgottenFacts
<1>2. PageOf(Forgotten) \in AnyPages
  BY <1>1, PageTypes
<1>3. [boot |-> 0, resets |-> 0, version |-> 0, page |-> PageOf(Forgotten)] \in Copies
  BY <1>2 DEF Copies
<1>4. copies \in [Patched -> Copies]
  BY <1>3 DEF Init
<1>5. TypeInv
  BY <1>1, <1>4 DEF Init, TypeInv
<1>6. ASSUME NEW p \in Patched PROVE CopyOK(copies[p], doc, boot, resets)
  BY DEF Init, CopyOK
<1>7. QueueOK(replies, doc, boot, resets, copies) /\ AllHeld(replies)
  BY EmptyQueue DEF Init
<1>8. GiveWay
  BY <1>7 DEF GiveWay, Init, SERVE, HELD
<1>. QED BY <1>1, <1>5, <1>6, <1>7, <1>8 DEF StatusInv, Init

\* A request that was let through answers from a document that the old one's
\* copies and replies still agree with.
LEMMA ServedInv ==
  ASSUME StatusInv, NEW p \in Peers, Kind(p) # "held", Still,
         doc' \in Docs, DocInv(doc'),
         \A was : \A v \in Nat : Reflects(was, v, doc) => Reflects(was, v, doc'),
         QueueOK(replies, doc', boot, resets, copies) => QueueOK(replies', doc', boot, resets, copies)
  PROVE  StatusInv'
<1>1. TypeInv
  BY DEF StatusInv
<1>2. /\ \A q \in Patched : CopyOK(copies[q], doc', boot, resets)
      /\ QueueOK(replies, doc', boot, resets, copies)
  <2>1. /\ \A q \in Patched : CopyOK(copies[q], doc, boot, resets)
        /\ QueueOK(replies, doc, boot, resets, copies)
    BY DEF StatusInv
  <2>. QED BY <1>1, <2>1, Onwards
<1>3. /\ world' = world /\ boot' = boot /\ resets' = resets /\ nomem' = nomem /\ gate' = gate
      /\ copies' = copies
  BY DEF Still
<1>4. QueueOK(replies', doc', boot', resets', copies')
  BY <1>2, <1>3
<1>5. \A q \in Patched : CopyOK(copies'[q], doc', boot', resets')
  BY <1>2, <1>3
<1>6. TypeInv'
  BY <1>1, <1>3, <1>4 DEF TypeInv, QueueOK
<1>7. GiveWay'
  BY <1>1, <1>3, KindFacts DEF GiveWay
<1>. QED BY <1>4, <1>5, <1>6, <1>7 DEF StatusInv

LEMMA AskHeldInv ==
  ASSUME StatusInv, NEW p \in Peers, AskHeld(p)
  PROVE  StatusInv'
<1>1. TypeInv /\ QueueOK(replies, doc, boot, resets, copies) /\ doc \in Docs
  BY DEF StatusInv, TypeInv
<1>2. Asks(p) /\ Queue(p, Body("held", doc, 0))
      /\ UNCHANGED <<world, boot, doc, resets, nomem, gate, copies>>
  BY DEF AskHeld
<1>3. /\ QueueOK(replies', doc, boot, resets, copies)
      /\ AllHeld(replies) => AllHeld(replies')
  BY <1>1, <1>2, HeldKeeps
<1>4. TypeInv'
  BY <1>1, <1>2, <1>3 DEF TypeInv, QueueOK
<1>5. GiveWay'
  BY <1>2, <1>3 DEF StatusInv, GiveWay
<1>. QED BY <1>2, <1>3, <1>4, <1>5 DEF StatusInv

LEMMA AskFreshInv ==
  ASSUME StatusInv, NEW p \in Peers, AskFresh(p)
  PROVE  StatusInv'
<1>1. TypeInv /\ doc \in Docs /\ DocInv(doc)
      /\ \A q \in Patched : CopyOK(copies[q], doc, boot, resets)
  BY DEF StatusInv, TypeInv
<1>2. Asks(p) /\ Kind(p) # "held" /\ Reply(p, doc) /\ Still /\ doc' = doc
  BY DEF AskFresh, Still
<1>3. QueueOK(replies, doc', boot, resets, copies) => QueueOK(replies', doc', boot, resets, copies)
  BY <1>1, <1>2, ReplyKeeps
<1>. QED BY <1>1, <1>2, <1>3, ServedInv

LEMMA AskBuiltInv ==
  ASSUME StatusInv, NEW p \in Peers, AskBuilt(p)
  PROVE  StatusInv'
<1>1. TypeInv /\ doc \in Docs /\ DocInv(doc) /\ world \in Pages
      /\ \A q \in Patched : CopyOK(copies[q], doc, boot, resets)
  BY DEF StatusInv, TypeInv
<1> DEFINE parts == Kind(p) = "full_parts"
<1>2. Asks(p) /\ Kind(p) # "held" /\ Reply(p, doc') /\ Still /\ doc' = Refreshed(doc, world, parts)
  BY DEF AskBuilt, Builds, Still
<1>3. parts \in BOOLEAN
  OBVIOUS
<1> HIDE DEF parts
<1>4. /\ doc' \in Docs /\ DocInv(doc')
      /\ \A was : \A v \in Nat : Reflects(was, v, doc) => Reflects(was, v, doc')
  BY <1>1, <1>2, <1>3, RefreshKeeps
<1>5. \A q \in Patched : CopyOK(copies[q], doc', boot, resets)
  BY <1>1, <1>4, Onwards
<1>6. ASSUME QueueOK(replies, doc', boot, resets, copies)
      PROVE  QueueOK(replies', doc', boot, resets, copies)
  <2> DEFINE d == doc'
  <2>1. d \in Docs /\ DocInv(d) /\ (\A q \in Patched : CopyOK(copies[q], d, boot, resets))
        /\ QueueOK(replies, d, boot, resets, copies) /\ Reply(p, d)
    BY <1>2, <1>4, <1>5, <1>6
  <2> HIDE DEF d
  <2>2. QueueOK(replies', d, boot, resets, copies)
    BY <1>1, <1>2, <2>1, ReplyKeeps
  <2>. QED BY <2>2 DEF d
<1>. QED BY <1>2, <1>4, <1>6, ServedInv

\* A failed build leaves what the document says.
LEMMA FailedDoc ==
  ASSUME NEW d \in Docs, DocInv(d), NEW built \in BOOLEAN
  PROVE  LET d2 == [d EXCEPT !.built = built] IN
         /\ d2 \in Docs /\ DocInv(d2)
         /\ \A was : \A v \in Nat : Reflects(was, v, d) => Reflects(was, v, d2)
<1> DEFINE d2 == [d EXCEPT !.built = built]
<1>1. /\ d2.version = d.version /\ d2.units = d.units /\ d2.order = d.order /\ d2 \in Docs
  BY DEF Docs
<1> HIDE DEF d2
<1>2. DocInv(d2)
  BY <1>1 DEF DocInv
<1>3. \A was : \A v \in Nat : Reflects(was, v, d) => Reflects(was, v, d2)
  BY <1>1 DEF Reflects, PageOf
<1>. QED BY <1>1, <1>2, <1>3 DEF d2

LEMMA AskFailedInv ==
  ASSUME StatusInv, NEW p \in Peers, NEW taken \in BOOLEAN, AskFailed(p, taken)
  PROVE  StatusInv'
<1>1. TypeInv /\ doc \in Docs /\ DocInv(doc) /\ doc.built \in BOOLEAN
      /\ \A q \in Patched : CopyOK(copies[q], doc, boot, resets)
  BY DEF StatusInv, TypeInv, Docs
<1>2. Asks(p) /\ Kind(p) # "held" /\ Still /\ doc' = [doc EXCEPT !.built = doc.built \/ taken]
      /\ (Reply(p, doc') \/ Queue(p, Body("held", doc, 0)))
  BY DEF AskFailed, Builds, Still
<1>3. /\ doc' \in Docs /\ DocInv(doc')
      /\ \A was : \A v \in Nat : Reflects(was, v, doc) => Reflects(was, v, doc')
  <2>1. (doc.built \/ taken) \in BOOLEAN
    OBVIOUS
  <2>. QED BY <1>1, <1>2, <2>1, FailedDoc
<1>4. \A q \in Patched : CopyOK(copies[q], doc', boot, resets)
  BY <1>1, <1>3, Onwards
<1>5. ASSUME QueueOK(replies, doc', boot, resets, copies)
      PROVE  QueueOK(replies', doc', boot, resets, copies)
  <2> DEFINE d == doc'
  <2>1. d \in Docs /\ DocInv(d) /\ (\A q \in Patched : CopyOK(copies[q], d, boot, resets))
        /\ QueueOK(replies, d, boot, resets, copies)
        /\ (Reply(p, d) \/ Queue(p, Body("held", doc, 0)))
    BY <1>2, <1>3, <1>4, <1>5
  <2> HIDE DEF d
  <2>2. CASE Reply(p, d)
    <3>1. QueueOK(replies', d, boot, resets, copies)
      BY <1>1, <1>2, <2>1, <2>2, ReplyKeeps
    <3>. QED BY <3>1 DEF d
  <2>3. CASE Queue(p, Body("held", doc, 0))
    <3>1. QueueOK(replies', d, boot, resets, copies)
      BY <1>1, <1>2, <2>1, <2>3, HeldKeeps
    <3>. QED BY <3>1 DEF d
  <2>. QED BY <2>1, <2>2, <2>3
<1>. QED BY <1>2, <1>3, <1>5, ServedInv

\* Low memory: another document begins, and no copy is of it yet.
LEMMA MemoryLowInv ==
  ASSUME StatusInv, NEW left, MemoryLow(left), UNCHANGED <<world, boot, gate, copies>>,
         left \in Seq(Jobs), AllHeld(left),
         QueueOK(left, Forgotten, boot, resets + 1, copies)
  PROVE  StatusInv'
<1>1. /\ TypeInv /\ resets' = resets + 1 /\ replies' = left /\ doc' = Forgotten
      /\ nomem' = NomemS /\ NomemS \in Nat
      /\ world' = world /\ boot' = boot /\ gate' = gate /\ copies' = copies
  BY StatusAssumption DEF StatusInv, MemoryLow
<1>2. Forgotten \in Docs /\ DocInv(Forgotten) /\ Forgotten.units = <<>>
  BY ForgottenFacts DEF Forgotten
<1>3. TypeInv'
  BY <1>1, <1>2 DEF TypeInv
<1>4. ASSUME NEW q \in Patched PROVE CopyOK(copies'[q], doc', boot', resets')
  <2>1. copies[q] \in Copies /\ copies[q].boot <= boot /\ copies[q].resets <= resets
        /\ copies[q].resets \in Nat /\ resets \in Nat
    BY DEF StatusInv, CopyOK, TypeInv, Copies
  <2>2. copies[q].resets <= resets + 1 /\ copies[q].resets # resets + 1
    BY <2>1
  <2>. QED BY <1>1, <2>1, <2>2 DEF CopyOK
<1>5. QueueOK(replies', doc', boot', resets', copies')
  BY <1>1
<1>6. GiveWay'
  BY <1>1, <1>2 DEF GiveWay
<1>. QED BY <1>1, <1>2, <1>3, <1>4, <1>5, <1>6 DEF StatusInv

LEMMA AskNoMemoryInv ==
  ASSUME StatusInv, NEW p \in Peers, AskNoMemory(p)
  PROVE  StatusInv'
<1> DEFINE body == [Body("held", Forgotten, 0) EXCEPT !.resets = resets + 1]
           job == Job(p, body)
<1>1. TypeInv /\ Forgotten \in Docs /\ resets \in Nat
  BY ForgottenFacts DEF StatusInv, TypeInv
<1>2. body \in Bodies /\ body.kind = "held" /\ body.boot = boot /\ body.resets = resets + 1
  <2> DEFINE e == Body("held", Forgotten, 0)
  <2>1. e \in Bodies /\ e.kind = "held" /\ e.boot = boot
    BY <1>1, BodyFacts DEF Kinds
  <2> HIDE DEF e
  <2>2. LET f == [e EXCEPT !.resets = resets + 1] IN
        f \in Bodies /\ f.kind = "held" /\ f.boot = boot /\ f.resets = resets + 1
    BY <1>1, <2>1 DEF Bodies
  <2>. QED BY <2>2 DEF e
<1> HIDE DEF body
<1>3. job \in Jobs /\ job.body = body
  BY <1>2, JobFacts
<1>4. MemoryLow(<<job>>) /\ UNCHANGED <<world, boot, gate, copies>>
  BY DEF AskNoMemory, body
<1> HIDE DEF job
<1>5. /\ <<job>> \in Seq(Jobs) /\ Len(<<job>>) = 1 /\ ToSet(<<job>>) = {job}
  BY <1>3 DEF ToSet
<1>6. JobOK(job, Forgotten, boot, resets + 1, copies)
  BY <1>2, <1>3 DEF JobOK
<1>7. QueueOK(<<job>>, Forgotten, boot, resets + 1, copies)
  BY <1>5, <1>6 DEF QueueOK, Pairwise
<1>8. AllHeld(<<job>>)
  BY <1>2, <1>3, <1>5 DEF AllHeld
<1>. QED BY <1>4, <1>5, <1>7, <1>8, MemoryLowInv

LEMMA PollNoMemoryInv ==
  ASSUME StatusInv, PollNoMemory
  PROVE  StatusInv'
<1>1. MemoryLow(<<>>) /\ UNCHANGED <<world, boot, gate, copies>>
  BY DEF PollNoMemory
<1>2. <<>> \in Seq(Jobs) /\ AllHeld(<<>>) /\ QueueOK(<<>>, Forgotten, boot, resets + 1, copies)
  BY EmptyQueue
<1>. QED BY <1>1, <1>2, MemoryLowInv

\* The queue gets shorter, or its replies older, and nothing else happens.
LEMMA QueueInv ==
  ASSUME StatusInv, UNCHANGED <<world, boot, doc, resets, copies>>,
         QueueOK(replies', doc, boot, resets, copies),
         AllHeld(replies) => AllHeld(replies'),
         gate' \in {SERVE, HELD}, gate' = HELD => gate = HELD \/ AllHeld(replies'),
         nomem' \in Nat, nomem' <= nomem
  PROVE  StatusInv'
<1>1. TypeInv /\ GiveWay /\ nomem \in Nat
  BY DEF StatusInv, TypeInv
<1>2. TypeInv'
  BY <1>1 DEF TypeInv, QueueOK
<1>3. nomem' > 0 => nomem > 0
  BY <1>1
<1>4. GiveWay'
  BY <1>1, <1>3 DEF GiveWay
<1>. QED BY <1>2, <1>4 DEF StatusInv
LEMMA PumpNothingInv ==
  ASSUME StatusInv, PumpNothing
  PROVE  StatusInv'
<1>1. QueueOK(replies, doc, boot, resets, copies) /\ gate \in {SERVE, HELD} /\ nomem \in Nat
  BY DEF StatusInv, TypeInv
<1>2. /\ QueueOK(InTime(replies), doc, boot, resets, copies)
      /\ AllHeld(replies) => AllHeld(InTime(replies))
  BY <1>1, InTimeKeeps
<1>3. /\ replies' = InTime(replies) /\ gate' = gate /\ nomem' = nomem
      /\ UNCHANGED <<world, boot, doc, resets, copies>>
  BY DEF PumpNothing
<1>. QED BY <1>1, <1>2, <1>3, QueueInv

LEMMA PumpFailsInv ==
  ASSUME StatusInv, PumpFails
  PROVE  StatusInv'
<1> DEFINE js == InTime(replies)
<1>1. QueueOK(replies, doc, boot, resets, copies) /\ gate \in {SERVE, HELD} /\ nomem \in Nat
  BY DEF StatusInv, TypeInv
<1>2. QueueOK(js, doc, boot, resets, copies) /\ (AllHeld(replies) => AllHeld(js))
  BY <1>1, InTimeKeeps
<1>3. /\ js # <<>> /\ replies' = Tail(js) /\ gate' = gate /\ nomem' = nomem
      /\ UNCHANGED <<world, boot, doc, resets, copies>>
  BY DEF PumpFails, Turn
<1> HIDE DEF js
<1>4. QueueOK(Tail(js), doc, boot, resets, copies) /\ (AllHeld(js) => AllHeld(Tail(js)))
  BY <1>2, <1>3, TailKeeps
<1>5. QueueOK(replies', doc, boot, resets, copies) /\ (AllHeld(replies) => AllHeld(replies'))
  BY <1>2, <1>3, <1>4
<1>. QED BY <1>1, <1>3, <1>5, QueueInv

LEMMA PumpChunkInv ==
  ASSUME StatusInv, PumpChunk
  PROVE  StatusInv'
<1> DEFINE js == InTime(replies)
<1>1. /\ TypeInv /\ QueueOK(replies, doc, boot, resets, copies)
      /\ \A q \in Patched : CopyOK(copies[q], doc, boot, resets)
      /\ gate \in {SERVE, HELD} /\ nomem \in Nat
  BY DEF StatusInv, TypeInv
<1>2. QueueOK(js, doc, boot, resets, copies) /\ (AllHeld(replies) => AllHeld(js))
  BY <1>1, InTimeKeeps
<1>3. /\ js # <<>> /\ gate' = gate /\ nomem' = nomem
      /\ world' = world /\ boot' = boot /\ doc' = doc /\ resets' = resets
      /\ \/ replies' = Tail(js) /\ Receives(Head(js))
         \/ replies' = [js EXCEPT ![1].left = @ - 1] /\ copies' = copies
  BY DEF PumpChunk, Turn
<1> HIDE DEF js
<1>4. CASE replies' = Tail(js) /\ Receives(Head(js))
  <2>1. QueueOK(Tail(js), doc, boot, resets, copies) /\ (AllHeld(js) => AllHeld(Tail(js)))
    BY <1>2, <1>3, TailKeeps
  <2>2. /\ copies' \in [Patched -> Copies]
        /\ \A q \in Patched : CopyOK(copies'[q], doc, boot, resets)
        /\ QueueOK(Tail(js), doc, boot, resets, copies')
    BY <1>1, <1>2, <1>3, <1>4, ReceivesKeeps
  <2>3. TypeInv'
    BY <1>1, <1>3, <1>4, <2>1, <2>2 DEF TypeInv, QueueOK
  <2>4. GiveWay'
    BY <1>2, <1>3, <1>4, <2>1 DEF StatusInv, GiveWay
  <2>. QED BY <1>3, <1>4, <2>2, <2>3, <2>4 DEF StatusInv
<1>5. CASE replies' = [js EXCEPT ![1].left = @ - 1] /\ copies' = copies
  <2>1. js \in Seq(Jobs) /\ Len(js) \in Nat /\ 1 \in 1..Len(js) /\ js[1] \in Jobs
    <3>1. js \in Seq(Jobs)
      BY <1>2 DEF QueueOK
    <3>2. Len(js) \in Nat /\ Len(js) # 0 /\ \A i \in 1..Len(js) : js[i] \in Jobs
      BY <1>3, <3>1, SetOf
    <3>. QED BY <3>1, <3>2
  <2> DEFINE new == [js[1] EXCEPT !.left = js[1].left - 1]
  <2>2. new \in Jobs /\ new.peer = js[1].peer /\ new.body = js[1].body /\ new.hung = js[1].hung
    <3>1. js[1].left - 1 \in Int
      BY <2>1 DEF Jobs
    <3>. QED BY <2>1, <3>1 DEF Jobs
  <2>3. replies' = [js EXCEPT ![1] = new]
    BY <1>5
  <2> HIDE DEF new
  <2>4. /\ replies' \in Seq(Jobs) /\ Len(replies') = Len(js)
        /\ \A i \in 1..Len(js) : replies'[i] = IF i = 1 THEN new ELSE js[i]
    BY <2>1, <2>2, <2>3
  <2>5. \A i \in 1..Len(js) : /\ replies'[i].peer = js[i].peer /\ replies'[i].body = js[i].body
                              /\ js[i].hung => replies'[i].hung
    BY <2>2, <2>4
  <2>6. QueueOK(replies', doc, boot, resets, copies) /\ (AllHeld(js) => AllHeld(replies'))
    <3> DEFINE r == replies'
    <3>1. r \in Seq(Jobs) /\ Len(r) = Len(js)
          /\ \A i \in 1..Len(js) : /\ r[i].peer = js[i].peer /\ r[i].body = js[i].body
                                   /\ js[i].hung => r[i].hung
      BY <2>4, <2>5
    <3> HIDE DEF r
    <3>2. QueueOK(r, doc, boot, resets, copies) /\ (AllHeld(js) => AllHeld(r))
      BY <1>2, <3>1, SameQueue
    <3>. QED BY <3>2 DEF r
  <2>. QED BY <1>1, <1>2, <1>3, <1>5, <2>6, QueueInv
<1>. QED BY <1>3, <1>4, <1>5

\* Ringing begins or ends, or its first stroke goes out.
LEMMA GateInv ==
  ASSUME StatusInv, Hold \/ Resume \/ Shed
  PROVE  StatusInv'
<1>1. QueueOK(replies, doc, boot, resets, copies) /\ gate \in {SERVE, HELD} /\ nomem \in Nat
  BY DEF StatusInv, TypeInv
<1>2. UNCHANGED <<world, boot, doc, resets, nomem, copies>>
  BY DEF Hold, Resume, Shed
<1>3. CASE Hold \/ Shed
  <2>1. replies' = <<>> /\ gate' \in {SERVE, HELD}
    BY <1>1, <1>3 DEF Hold, Shed
  <2>2. QueueOK(replies', doc, boot, resets, copies) /\ AllHeld(replies')
    BY <2>1, EmptyQueue
  <2>. QED BY <1>1, <1>2, <2>1, <2>2, QueueInv
<1>4. CASE Resume
  <2>1. replies' = replies /\ gate' = SERVE /\ SERVE # HELD
    BY <1>4 DEF Resume, SERVE, HELD
  <2>. QED BY <1>1, <1>2, <2>1, QueueInv
<1>. QED BY <1>3, <1>4

LEMMA ChangeInv ==
  ASSUME StatusInv, Change
  PROVE  StatusInv'
<1>1. world' \in Pages /\ UNCHANGED <<boot, doc, resets, nomem, gate, replies, copies>>
  BY DEF Change
<1>2. TypeInv'
  BY <1>1 DEF StatusInv, TypeInv
<1>3. GiveWay'
  BY <1>1 DEF StatusInv, GiveWay
<1>. QED BY <1>1, <1>2, <1>3 DEF StatusInv

\* Replies of the same bodies, for the same peers.
LEMMA SameRepliesInv ==
  ASSUME StatusInv, UNCHANGED <<world, boot, doc, resets, gate, copies>>,
         nomem' \in Nat, nomem' <= nomem,
         replies' \in Seq(Jobs), Len(replies') = Len(replies),
         \A i \in 1..Len(replies) :
           /\ replies'[i].peer = replies[i].peer /\ replies'[i].body = replies[i].body
           /\ replies[i].hung => replies'[i].hung
  PROVE  StatusInv'
<1>1. QueueOK(replies, doc, boot, resets, copies) /\ gate \in {SERVE, HELD}
  BY DEF StatusInv, TypeInv
<1> DEFINE r == replies'
<1>2. r \in Seq(Jobs) /\ Len(r) = Len(replies)
      /\ \A i \in 1..Len(replies) : /\ r[i].peer = replies[i].peer /\ r[i].body = replies[i].body
                                    /\ replies[i].hung => r[i].hung
  OBVIOUS
<1> HIDE DEF r
<1>3. QueueOK(r, doc, boot, resets, copies) /\ (AllHeld(replies) => AllHeld(r))
  BY <1>1, <1>2, SameQueue
<1>4. QueueOK(replies', doc, boot, resets, copies) /\ (AllHeld(replies) => AllHeld(replies'))
  BY <1>3 DEF r
<1>. QED BY <1>1, <1>4, QueueInv

LEMMA HangUpInv ==
  ASSUME StatusInv, NEW p \in Peers, HangUp(p)
  PROVE  StatusInv'
<1>1. replies \in Seq(Jobs) /\ nomem \in Nat
  BY DEF StatusInv, TypeInv
<1>2. PICK i \in 1..Len(replies) : replies' = [replies EXCEPT ![i].hung = TRUE]
  BY DEF HangUp
<1> DEFINE new == [replies[i] EXCEPT !.hung = TRUE]
<1>3. replies[i] \in Jobs
  BY <1>1
<1>4. new \in Jobs /\ new.peer = replies[i].peer /\ new.body = replies[i].body /\ new.hung
  BY <1>3 DEF Jobs
<1>5. replies' = [replies EXCEPT ![i] = new]
  BY <1>2
<1> HIDE DEF new
<1>6. /\ replies' \in Seq(Jobs) /\ Len(replies') = Len(replies)
      /\ \A j \in 1..Len(replies) : replies'[j] = IF j = i THEN new ELSE replies[j]
  BY <1>1, <1>4, <1>5
<1>7. \A j \in 1..Len(replies) :
        /\ replies'[j].peer = replies[j].peer /\ replies'[j].body = replies[j].body
        /\ replies[j].hung => replies'[j].hung
  BY <1>4, <1>6
<1>8. UNCHANGED <<world, boot, doc, resets, gate, copies>> /\ nomem' = nomem
  BY DEF HangUp
<1>. QED BY <1>1, <1>6, <1>7, <1>8, SameRepliesInv

LEMMA TickInv ==
  ASSUME StatusInv, Tick
  PROVE  StatusInv'
<1>1. replies \in Seq(Jobs) /\ nomem \in Nat /\ Len(replies) \in Nat
      /\ DOMAIN replies = 1..Len(replies) /\ \A i \in 1..Len(replies) : replies[i] \in Jobs
  BY DEF StatusInv, TypeInv
<1> DEFINE Older(i) == [replies[i] EXCEPT !.age = OlderTo(@, DeadlineS + 1)]
<1>2. replies' = [i \in 1..Len(replies) |-> Older(i)]
  BY <1>1 DEF Tick
<1>3. ASSUME NEW i \in 1..Len(replies)
      PROVE  /\ Older(i) \in Jobs /\ Older(i).peer = replies[i].peer
             /\ Older(i).body = replies[i].body /\ Older(i).hung = replies[i].hung
  <2>1. replies[i] \in Jobs /\ OlderTo(replies[i].age, DeadlineS + 1) \in Int
    BY <1>1 DEF Jobs, OlderTo
  <2>. QED BY <2>1 DEF Jobs
<1> HIDE DEF Older
<1>4. replies' \in Seq(Jobs) /\ Len(replies') = Len(replies)
  BY <1>1, <1>2, <1>3
<1>5. \A i \in 1..Len(replies) :
        /\ replies'[i].peer = replies[i].peer /\ replies'[i].body = replies[i].body
        /\ replies[i].hung => replies'[i].hung
  BY <1>2, <1>3
<1>6. UNCHANGED <<world, boot, doc, resets, gate, copies>> /\ nomem' \in Nat /\ nomem' <= nomem
  BY <1>1 DEF Tick
<1>. QED BY <1>4, <1>5, <1>6, SameRepliesInv

\* A boot forgets everything; no copy is of it yet.
LEMMA RebootInv ==
  ASSUME StatusInv, Reboot
  PROVE  StatusInv'
<1>1. /\ TypeInv /\ boot' = boot + 1 /\ doc' = Forgotten /\ nomem' = 0 /\ gate' = SERVE
      /\ replies' = <<>> /\ world' = world /\ resets' = resets /\ copies' = copies
      /\ boot \in Nat
  BY DEF StatusInv, TypeInv, Reboot
<1>2. Forgotten \in Docs /\ DocInv(Forgotten)
  BY ForgottenFacts
<1>3. TypeInv'
  BY <1>1, <1>2 DEF TypeInv
<1>4. ASSUME NEW q \in Patched PROVE CopyOK(copies'[q], doc', boot', resets')
  <2>1. copies[q].boot \in Nat /\ copies[q].boot <= boot /\ copies[q].resets <= resets
    BY DEF StatusInv, CopyOK, TypeInv, Copies
  <2>2. copies[q].boot <= boot + 1 /\ copies[q].boot # boot + 1
    BY <1>1, <2>1
  <2>. QED BY <1>1, <2>1, <2>2 DEF CopyOK
<1>5. QueueOK(replies', doc', boot', resets', copies')
  BY <1>1, EmptyQueue
<1>6. GiveWay'
  BY <1>1 DEF GiveWay, SERVE, HELD
<1>. QED BY <1>1, <1>2, <1>3, <1>4, <1>5, <1>6 DEF StatusInv

LEMMA StutterInv ==
  ASSUME StatusInv, UNCHANGED vars
  PROVE  StatusInv'
<1>1. /\ replies' = replies /\ nomem' = nomem /\ gate' = gate
      /\ UNCHANGED <<world, boot, doc, resets, copies>>
  BY DEF vars
<1>2. replies \in Seq(Jobs) /\ nomem \in Nat /\ nomem <= nomem
  BY DEF StatusInv, TypeInv
<1>. QED BY <1>1, <1>2, SameRepliesInv

LEMMA NextInv ==
  ASSUME StatusInv, [Next]_vars
  PROVE  StatusInv'
<1>1. ASSUME NEW p \in Peers, Ask(p) PROVE StatusInv'
  BY <1>1, AskHeldInv, AskFreshInv, AskBuiltInv, AskFailedInv, AskNoMemoryInv DEF Ask
<1>2. CASE PollNoMemory
  BY <1>2, PollNoMemoryInv
<1>3. CASE Pump
  BY <1>3, PumpNothingInv, PumpChunkInv, PumpFailsInv DEF Pump
<1>4. CASE Hold \/ Resume \/ Shed
  BY <1>4, GateInv
<1>5. CASE Change
  BY <1>5, ChangeInv
<1>6. ASSUME NEW p \in Peers, HangUp(p) PROVE StatusInv'
  BY <1>6, HangUpInv
<1>7. CASE Tick
  BY <1>7, TickInv
<1>8. CASE Reboot
  BY <1>8, RebootInv
<1>9. CASE UNCHANGED vars
  BY <1>9, StutterInv
<1>. QED BY <1>1, <1>2, <1>3, <1>4, <1>5, <1>6, <1>7, <1>8, <1>9 DEF Next

-----------------------------------------------------------------------------
(* What is promised.                                                       *)

\* The inductive invariant: copies and replies under way reflect the document
\* they were cut from, as far as it is still this boot's and not forgotten
\* since (farm_ws.route_status, _pump_replies; status_doc.StatusDoc).
THEOREM StatusInvariant == Spec => []StatusInv
<1>1. StatusInv /\ [Next]_vars => StatusInv'
  BY NextInv
<1>. QED BY InitInv, <1>1, PTL DEF Spec

\* A poller that puts deltas on its copy has the page of the version it names,
\* whatever replies were lost, given up, or overtaken by a refresh, as long as
\* the document was not forgotten since (StatusDoc.delta).
THEOREM CopiesSayThePage == Spec => []CopiesAgree
<1>1. StatusInv => CopiesAgree
  <2> SUFFICES ASSUME StatusInv, NEW p \in Patched, copies[p].boot = boot,
                      copies[p].resets = resets, copies[p].version = doc.version,
                      doc.version > 0
               PROVE  copies[p].page = PageOf(doc)
    BY DEF CopiesAgree
  <2>1. Reflects(copies[p].page, copies[p].version, doc)
    BY DEF StatusInv, CopyOK
  <2>. QED BY <2>1 DEF Reflects
<1>. QED BY <1>1, StatusInvariant, PTL

\* While the strokes have the link, or the memory is given back, no reply
\* holds a piece of a page (farm_ws.set_tower, memory_low).
THEOREM PagesGiveWay == Spec => []RepliesGiveWay
<1>1. StatusInv => RepliesGiveWay
  <2> SUFFICES ASSUME StatusInv, gate = HELD \/ nomem > 0
               PROVE  /\ \A i \in 1..Len(replies) : replies[i].body.kind = "held"
                      /\ nomem > 0 => doc.units = <<>>
    BY DEF RepliesGiveWay
  <2>1. AllHeld(replies) /\ (nomem > 0 => doc.units = <<>>) /\ replies \in Seq(Jobs)
    BY DEF StatusInv, GiveWay, TypeInv
  <2>. QED BY <2>1, SetOf DEF AllHeld
<1>. QED BY <1>1, StatusInvariant, PTL
\* The newest reply is the one just queued.
LEMMA QueuedLast ==
  ASSUME replies \in Seq(Jobs), NEW p \in Peers, NEW body, Queue(p, body),
         Len(replies') > Len(replies)
  PROVE  Last(replies') = Job(p, body)
<1>1. Len(replies) \in Nat
  BY SetOf
<1>2. replies' = Append(replies, Job(p, body))
  BY <1>1 DEF Queue
<1>. QED BY <1>1, <1>2 DEF Last

\* A delta was cut from the document as it is now.
LEMMA DeltaIsCurrent ==
  ASSUME StatusInv, NEW p \in Peers, Ask(p), Len(replies') > Len(replies),
         Last(replies').body.kind = "delta"
  PROVE  /\ Last(replies').peer = p /\ ~Last(replies').hung
         /\ Last(replies').body.version = doc'.version
<1>1. replies \in Seq(Jobs)
  BY DEF StatusInv, TypeInv
<1>2. \A body : Job(p, body).peer = p /\ ~Job(p, body).hung /\ Job(p, body).body = body
  BY DEF Job
<1>3. ASSUME NEW e, Queue(p, Body("held", e, 0)) PROVE FALSE
  <2>1. Last(replies') = Job(p, Body("held", e, 0))
    BY <1>1, <1>3, QueuedLast
  <2>2. Body("held", e, 0).kind = "held"
    BY DEF Body
  <2>. QED BY <1>2, <2>1, <2>2
<1>4. ASSUME Reply(p, doc')
      PROVE  /\ Last(replies').peer = p /\ ~Last(replies').hung
             /\ Last(replies').body.version = doc'.version
  <2>1. replies' # replies
    <3>1. Len(replies) \in Nat
      BY <1>1, SetOf
    <3>. QED BY <3>1
  <2>2. Answer(p, doc')
    BY <1>4, <2>1 DEF Reply
  <2>3. PICK body : Queue(p, body) /\ body.version = doc'.version
    <3>1. \A kind, since : Body(kind, doc', since).version = doc'.version
      BY DEF Body
    <3>. QED BY <2>2, <3>1 DEF Answer
  <2>4. Last(replies') = Job(p, body)
    BY <1>1, <2>3, QueuedLast
  <2>. QED BY <1>2, <2>3, <2>4
<1>5. CASE AskHeld(p)
  BY <1>3, <1>5 DEF AskHeld
<1>6. CASE AskFresh(p)
  BY <1>4, <1>6 DEF AskFresh
<1>7. CASE AskBuilt(p)
  BY <1>4, <1>7 DEF AskBuilt
<1>8. ASSUME NEW taken \in BOOLEAN, AskFailed(p, taken)
      PROVE  Reply(p, doc') \/ Queue(p, Body("held", doc, 0))
  BY <1>8 DEF AskFailed
<1>9. CASE AskNoMemory(p)
  <2> DEFINE body == [Body("held", Forgotten, 0) EXCEPT !.resets = resets + 1]
  <2>1. body.kind = "held"
    BY DEF Body
  <2> HIDE DEF body
  <2>2. replies' = <<Job(p, body)>>
    BY <1>9 DEF AskNoMemory, MemoryLow, body
  <2>3. Last(replies') = Job(p, body)
    BY <2>2 DEF Last
  <2>. QED BY <1>2, <2>1, <2>3
<1>. QED BY <1>3, <1>4, <1>5, <1>6, <1>7, <1>8, <1>9 DEF Ask

\* DeltaSaysAll fails (a finding), and this is how far it holds: of a document
\* that was not forgotten since the copy was taken, a delta says all.
DeltaSaysAllSince ==
  \A p \in Patched :
    (Ask(p) /\ Len(replies') > Len(replies) /\ copies[p].resets = resets) =>
    LET body == Last(replies').body
    IN body.kind = "delta" => Merge(copies[p].page, body.page) = PageOf(doc')

\* A delta put on the copy it was asked from gives the page, unless the
\* versions began again in between (StatusDoc.delta, StatusDoc.reset).
THEOREM DeltasSayAllSince == Spec => [][DeltaSaysAllSince]_vars
<1>1. ASSUME StatusInv, StatusInv', NEW p \in Patched, Ask(p), Len(replies') > Len(replies),
             copies[p].resets = resets, Last(replies').body.kind = "delta"
      PROVE  Merge(copies[p].page, Last(replies').body.page) = PageOf(doc')
  <2> DEFINE job == Last(replies')
  <2>1. p \in Peers
    BY StatusAssumption
  <2>2. job.peer = p /\ ~job.hung /\ job.body.version = doc'.version
    BY <1>1, <2>1, DeltaIsCurrent
  <2>3. job \in ToSet(replies')
    <3> DEFINE js == replies'
    <3>1. js \in Seq(Jobs) /\ Len(js) > 0
      <4>1. replies \in Seq(Jobs) /\ replies' \in Seq(Jobs) /\ Len(replies) \in Nat
        BY <1>1, SetOf DEF StatusInv, TypeInv
      <4>2. Len(replies') \in Nat
        BY <4>1
      <4>. QED BY <1>1, <4>1, <4>2
    <3> HIDE DEF js
    <3>2. Len(js) \in 1..Len(js)
      BY <3>1, SetOf
    <3>3. js[Len(js)] \in ToSet(js)
      BY <3>1, <3>2, SetOf
    <3>. QED BY <3>3 DEF Last, js
  <2>4. JobOK(job, doc', boot', resets', copies')
    BY <1>1, <2>3 DEF StatusInv, QueueOK
  <2>5. copies' = copies /\ resets' = resets
    <3>1. CASE AskNoMemory(p)
      <4> DEFINE held == [Body("held", Forgotten, 0) EXCEPT !.resets = resets + 1]
      <4>1. held.kind = "held"
        BY DEF Body
      <4> HIDE DEF held
      <4>2. replies' = <<Job(p, held)>>
        BY <3>1 DEF AskNoMemory, MemoryLow, held
      <4>3. job = Job(p, held) /\ Job(p, held).body = held
        BY <4>2 DEF Last, Job
      <4>. QED BY <1>1, <4>1, <4>3
    <3>2. CASE ~AskNoMemory(p)
      BY <1>1, <3>2 DEF Ask, AskHeld, AskFresh, AskBuilt, AskFailed
    <3>. QED BY <3>1, <3>2
  <2> HIDE DEF job
  <2>6. job.body.kind = "delta"
    BY <1>1 DEF job
  <2>7. Reflects(Merge(copies[p].page, job.body.page), doc'.version, doc')
    BY <1>1, <2>2, <2>4, <2>5, <2>6 DEF JobOK
  <2>8. Merge(copies[p].page, job.body.page) = PageOf(doc')
    BY <2>7 DEF Reflects
  <2>. QED BY <2>8 DEF job
<1>2. StatusInv /\ StatusInv' /\ [Next]_vars => [DeltaSaysAllSince]_vars
  BY <1>1 DEF DeltaSaysAllSince
<1>. QED BY <1>2, StatusInvariant, PTL DEF Spec
=============================================================================
