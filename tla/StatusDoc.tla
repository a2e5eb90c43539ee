----------------------------- MODULE StatusDoc -----------------------------
(* The /status document as status_doc.StatusDoc keeps it: serialised units  *)
(* (the head fields, and each section by id), each stamped with the version *)
(* at which it last changed, so that a poller can be sent only what changed *)
(* after the version it holds.                                              *)
(*                                                                          *)
(* A page is what a document says: its head, and its sections in order.     *)
(* Texts are abstract.  Parts carry no version and no delta carries them,   *)
(* so of them only "are they held?" is kept.  The list of removed sections  *)
(* (gone, at most 16) is left out: the order sent with every delta already  *)
(* says which sections there are, and the poller goes by the order.         *)
EXTENDS Integers, Sequences, SequencesExt, FiniteSets, Functions

CONSTANTS Sections,       \* section ids
          Texts           \* what a unit may say

HEAD == "head"

ASSUME SectionsAssumption == HEAD \notin Sections

Orders == {q \in UNION {[1..n -> Sections] : n \in 0..Cardinality(Sections)} : IsInjective(q)}

Pages == UNION {[order : {o}, text : [ToSet(o) \cup {HEAD} -> Texts]] : o \in Orders}

(* reset(): nothing known; the versions start again at 0, the boot stays.   *)
Forgotten == [version |-> 0, units |-> <<>>, order |-> <<>>,
              parts |-> FALSE, built |-> FALSE]

Documents(maxVersion) ==
  [version : 0..maxVersion,
   units   : UNION {[K -> [at : 0..maxVersion, text : Texts]] :
                      K \in SUBSET (Sections \cup {HEAD})},
   order   : Seq(Sections),
   parts   : BOOLEAN,
   built   : BOOLEAN]

----------------------------------------------------------------------------
(* refresh(): is the document still good enough for this request?           *)
StillFresh(doc, fresh, wantParts) ==
  doc.built /\ fresh /\ (doc.parts \/ ~wantParts)

Changed(doc, page) ==
  {k \in DOMAIN page.text :
     k \in DOMAIN doc.units => doc.units[k].text # page.text[k]}

Removed(doc, page) == DOMAIN doc.units \ DOMAIN page.text

(* refresh() past that: the version moves when a unit changed, came or      *)
(* went, or when the order did; every changed unit takes the new version.   *)
Refreshed(doc, page, wantParts) ==
  LET moved == \/ Changed(doc, page) # {}
               \/ Removed(doc, page) # {}
               \/ page.order # doc.order
      version == IF moved THEN doc.version + 1 ELSE doc.version
  IN [version |-> version,
      units   |-> [k \in DOMAIN page.text |->
                     IF k \in Changed(doc, page)
                     THEN [at |-> version, text |-> page.text[k]]
                     ELSE doc.units[k]],
      order   |-> page.order,
      parts   |-> wantParts,
      built   |-> TRUE]

(* knows(): the same boot, and a version this document has had.             *)
Knows(doc, boot, since, asBoot) ==
  doc.built /\ asBoot = boot /\ 0 < since /\ since <= doc.version

(* What the document says, and what it says of what changed after `since`   *)
(* (mutant: an off-by-one).                                                 *)
PageOf(doc) ==
  [order |-> doc.order, text |-> [k \in DOMAIN doc.units |-> doc.units[k].text]]

Delta_Later(doc, since) ==
  [order |-> doc.order,
   text  |-> [k \in {u \in DOMAIN doc.units : doc.units[u].at > since + 1} |->
                doc.units[k].text]]

Delta(doc, since) ==
  [order |-> doc.order,
   text  |-> [k \in {u \in DOMAIN doc.units : doc.units[u].at > since} |->
                doc.units[k].text]]

----------------------------------------------------------------------------
(* External: what the page in the browser does with a delta (mergeStatus):  *)
(* what was sent replaces what it had, the order says what there is.  A     *)
(* section named in the order and held by neither side has no text to show: *)
(* "nothing".                                                               *)
NOTHING == "nothing"

Merge(page, delta) ==
  [order |-> delta.order,
   text  |-> [k \in ToSet(delta.order) \cup {HEAD} |->
                IF k \in DOMAIN delta.text THEN delta.text[k]
                ELSE IF k \in DOMAIN page.text THEN page.text[k]
                ELSE NOTHING]]
============================================================================
