---------------------------- MODULE TimingProofs ----------------------------
(***************************************************************************)
(* The two sides of the time a stroke takes.                               *)
(*                                                                         *)
(* Its stamps, for every counter, tower and MIDI host: MIDI and network    *)
(* are on one scale, a session is one line and a touch one session, lost   *)
(* strokes show, and UTC never decreases.                                  *)
(*                                                                         *)
(* Its send, for every table of levels: the send path's invariant, how     *)
(* slowly a level is given up, and that the path implements the embargo.   *)
(***************************************************************************)
EXTENDS SendPath, TimeSession, QueueFacts

-----------------------------------------------------------------------------
(* Remainders.                                                             *)

\* A small number is its own remainder.
LEMMA SmallMod ==
  ASSUME NEW P \in Nat, P > 0, NEW x \in Int
  PROVE  /\ 0 <= x /\ x < P => x % P = x
         /\ -P <= x /\ x < 0 => x % P = x + P
<1>1. ASSUME 0 <= x, x < P PROVE x % P = x
  BY <1>1
<1>2. ASSUME -P <= x, x < 0 PROVE x % P = x + P
  BY <1>2
<1>. QED BY <1>1, <1>2

LEMMA DivMod ==
  ASSUME NEW P \in Nat, P > 0, NEW x \in Int
  PROVE  \E q \in Int : x = P * q + (x % P) /\ x % P \in 0..(P - 1)
<1>1. x \div P \in Int /\ x = P * (x \div P) + (x % P) /\ x % P \in 0..(P - 1)
  OBVIOUS
<1>. QED BY <1>1

\* Two times less than a period apart differ by what their readings do.
LEMMA Difference ==
  ASSUME NEW P \in Nat, P > 0, NEW a \in Int, NEW b \in Int, 0 <= a - b, a - b < P
  PROVE  ((a % P) - (b % P)) % P = a - b
<1>1. PICK q \in Int : a = P * q + (a % P) /\ a % P \in 0..(P - 1)
  BY DivMod
<1>2. PICK r \in Int : b = P * r + (b % P) /\ b % P \in 0..(P - 1)
  BY DivMod
<1> DEFINE x == a % P
           y == b % P
           k == q - r
<1>3. x \in Int /\ y \in Int /\ k \in Int /\ x - y < P /\ x - y > -P
  BY <1>1, <1>2
<1>4. a - b = P * k + (x - y)
  <2>1. P * q - P * r = P * k
    OBVIOUS
  <2>. QED BY <1>1, <1>2, <2>1
<1> HIDE DEF x, y, k
<1>5. k < 2 /\ k > -1
  <2>1. ASSUME k >= 2 PROVE FALSE
    <3>1. P * k >= P * 2
      BY <1>3, <2>1
    <3>. QED BY <1>3, <1>4, <3>1
  <2>2. ASSUME k <= -1 PROVE FALSE
    <3>1. P * k <= P * (-1)
      BY <1>3, <2>2
    <3>. QED BY <1>3, <1>4, <3>1
  <2>. QED BY <1>3, <2>1, <2>2
<1>6. CASE k = 0
  <2>1. x - y = a - b
    BY <1>3, <1>4, <1>6
  <2>2. (x - y) % P = x - y
    BY <1>3, <2>1, SmallMod
  <2>. QED BY <2>1, <2>2 DEF x, y
<1>7. CASE k = 1
  <2>1. x - y = (a - b) - P
    BY <1>3, <1>4, <1>7
  <2>2. (x - y) % P = x - y + P
    BY <1>3, <2>1, SmallMod
  <2>. QED BY <1>3, <2>1, <2>2 DEF x, y
<1>. QED BY <1>3, <1>5, <1>6, <1>7

\* Two times with no wrap between them have the same number of wraps behind.
Wraps(time) == time - Raw(time)

LEMMA SameLap ==
  ASSUME NEW a \in Int, NEW b \in Int, NEW c \in Int, a <= b, b <= c, Wraps(a) = Wraps(c)
  PROVE  Wraps(b) = Wraps(a)
<1> DEFINE P == Period
<1>0. P \in Nat /\ P > 0
  BY PeriodAssumption
<1>1. PICK q \in Int : a = P * q + (a % P) /\ a % P \in 0..(P - 1)
  BY <1>0, DivMod
<1>2. PICK r \in Int : b = P * r + (b % P) /\ b % P \in 0..(P - 1)
  BY <1>0, DivMod
<1>3. Wraps(a) = P * q /\ Wraps(b) = P * r
  BY <1>0, <1>1, <1>2 DEF Wraps, Raw
<1>4. P * q <= a /\ a < P * q + P /\ P * r <= b /\ b < P * r + P /\ c < P * q + P
  <2>1. c % P \in 0..(P - 1)
    BY <1>0
  <2>. QED BY <1>0, <1>1, <1>2, <1>3, <2>1 DEF Wraps, Raw
<1> HIDE DEF P
<1>5. P * r < P * q + P /\ P * q < P * r + P
  BY <1>0, <1>4
<1>6. r < q + 1 /\ q < r + 1
  <2>1. ASSUME r >= q + 1 PROVE FALSE
    <3>1. P * r >= P * (q + 1) /\ P * (q + 1) = P * q + P
      BY <1>0, <2>1
    <3>. QED BY <1>0, <1>5, <3>1
  <2>2. ASSUME q >= r + 1 PROVE FALSE
    <3>1. P * q >= P * (r + 1) /\ P * (r + 1) = P * r + P
      BY <1>0, <2>2
    <3>. QED BY <1>0, <1>5, <3>1
  <2>. QED BY <2>1, <2>2
<1>. QED BY <1>3, <1>6

-----------------------------------------------------------------------------
(* The tick clocks.                                                        *)

\* A clock whose last reading was of time u, and base ticks behind the time.
Reads(c, u, base) == c = [raw |-> Raw(u), ext |-> u - base]

\* That reading is near enough to any an edge may bring at this time.
Counts(c, base, time) == \E u \in Int : Reads(c, u, base) /\ u <= time /\ time - u + Lag < Half

LEMMA HalfFacts == Half \in Nat /\ Period \in Nat /\ Period > 0 /\ Period = 2 * Half /\ Lag \in Nat /\ Lag < Half
BY PeriodAssumption, SessionAssumption DEF Half

LEMMA RawDifference ==
  ASSUME NEW a \in Int, NEW b \in Int, 0 <= a - b, a - b < Period
  PROVE  /\ Raw(a) \in 0..(Period - 1) /\ Raw(b) \in 0..(Period - 1)
         /\ (Raw(a) - Raw(b)) % Period = a - b
         /\ a - b > 0 => (Raw(b) - Raw(a)) % Period = Period - (a - b)
<1> DEFINE P == Period
           x == Raw(a) - Raw(b)
<1>0. P \in Nat /\ P > 0
  BY HalfFacts
<1>1. Raw(a) = a % P /\ Raw(b) = b % P
  BY DEF Raw
<1> HIDE DEF P
<1>2. (a % P) \in 0..(P - 1) /\ (b % P) \in 0..(P - 1)
  BY <1>0
<1>3. ((a % P) - (b % P)) % P = a - b
  BY <1>0, Difference DEF P
<1>4. x \in Int /\ -P < x /\ x < P /\ x % P = a - b
  BY <1>0, <1>1, <1>2, <1>3
<1>5. Raw(b) - Raw(a) = -x
  BY <1>0, <1>1, <1>2
<1> HIDE DEF x
<1>6. a - b > 0 => (-x) % P = P - (a - b)
  <2>1. CASE x > 0
    <3>1. x % P = x
      BY <1>0, <1>4, <2>1, SmallMod
    <3>2. -x \in Int /\ -P <= -x /\ -x < 0
      BY <1>0, <1>4, <2>1
    <3>3. (-x) % P = -x + P
      BY <1>0, <3>2, SmallMod
    <3>. QED BY <1>0, <1>4, <3>1, <3>3
  <2>2. CASE x = 0
    BY <1>0, <1>4, <2>2, SmallMod
  <2>3. CASE x < 0
    <3>1. x % P = x + P
      BY <1>0, <1>4, <2>3, SmallMod
    <3>2. -x \in Int /\ 0 <= -x /\ -x < P
      BY <1>0, <1>4, <2>3
    <3>3. (-x) % P = -x
      BY <1>0, <3>2, SmallMod
    <3>. QED BY <1>0, <1>4, <3>1, <3>3
  <2>. QED BY <1>4, <2>1, <2>2, <2>3
<1>. QED BY <1>0, <1>1, <1>2, <1>4, <1>5, <1>6 DEF P, x

\* What a clock makes of a reading of a time that is not long past.
LEMMA Reading ==
  ASSUME NEW c, NEW base \in Int, NEW time \in Int, Counts(c, base, time),
         NEW at \in (time - Lag)..time
  PROVE  /\ Extended(c, Raw(at)) = at - base
         /\ Counts(Extend(c, Raw(at)), base, time)
<1>1. PICK u \in Int : Reads(c, u, base) /\ u <= time /\ time - u + Lag < Half
  BY DEF Counts
<1>2. c.raw = Raw(u) /\ c.ext = u - base
  BY <1>1 DEF Reads
<1>3. CASE u <= at
  <2>1. 0 <= at - u /\ at - u < Half /\ at - u < Period
    BY <1>1, <1>3, HalfFacts
  <2>2. Ahead(c, Raw(at)) = at - u
    BY <1>2, <2>1, RawDifference DEF Ahead
  <2>3. Extended(c, Raw(at)) = at - base
    BY <1>2, <2>1, <2>2 DEF Extended
  <2>4. Reads(Extend(c, Raw(at)), at, base)
    BY <2>1, <2>2, <2>3 DEF Extend, Reads
  <2>5. at <= time /\ time - at + Lag < Half
    BY <1>1, <1>3, HalfFacts
  <2>. QED BY <2>3, <2>4, <2>5 DEF Counts
<1>4. CASE at < u
  <2>1. 0 <= u - at /\ u - at < Half /\ u - at < Period /\ u - at > 0
    BY <1>1, <1>4, HalfFacts
  <2>2. Behind(c, Raw(at)) = u - at
    BY <1>2, <2>1, RawDifference DEF Behind
  <2>3. Ahead(c, Raw(at)) = Period - (u - at)
    BY <1>2, <2>1, RawDifference DEF Ahead
  <2>4. ~(Ahead(c, Raw(at)) < Half)
    BY <2>1, <2>3, HalfFacts
  <2>5. Extended(c, Raw(at)) = at - base
    BY <1>2, <2>2, <2>4 DEF Extended
  <2>6. Extend(c, Raw(at)) = c
    BY <2>4 DEF Extend
  <2>. QED BY <2>5, <2>6
<1>. QED BY <1>1, <1>3, <1>4

LEMMA ReadingNow ==
  ASSUME NEW c, NEW base \in Int, NEW time \in Int, Counts(c, base, time)
  PROVE  Counts(Extend(c, Raw(time)), base, time)
<1>1. time \in (time - Lag)..time
  BY HalfFacts
<1>. QED BY <1>1, Reading

\* A clock is read again before it is too late.
LEMMA NearStays ==
  ASSUME NEW c, NEW base \in Int, NEW time \in Int, Counts(c, base, time), StillNear(c, time + 1)
  PROVE  Counts(c, base, time + 1)
<1>1. PICK u \in Int : Reads(c, u, base) /\ u <= time /\ time - u + Lag < Half
  BY DEF Counts
<1>2. 0 <= (time + 1) - u /\ (time + 1) - u < Period
  BY <1>1, HalfFacts
<1>3. Ahead(c, Raw(time + 1)) = (time + 1) - u
  BY <1>1, <1>2, RawDifference DEF Ahead, Reads
<1>4. u <= time + 1 /\ (time + 1) - u + Lag < Half
  BY <1>1, <1>3 DEF StillNear
<1>. QED BY <1>1, <1>4 DEF Counts

LEMMA NewCounts ==
  ASSUME NEW time \in Int
  PROVE  Counts(NewTicks(time), Wraps(time), time)
<1>1. Raw(time) \in Int
  BY HalfFacts DEF Raw
<1>2. Reads(NewTicks(time), time, Wraps(time))
  BY <1>1 DEF Reads, NewTicks, Wraps
<1>3. time <= time /\ time - time + Lag < Half
  BY HalfFacts
<1>. QED BY <1>2, <1>3 DEF Counts

-----------------------------------------------------------------------------
(* The time client.                                                        *)

\* A client's fields, whatever they hold.
IsClient(s) ==
  s \in [ticks : {s.ticks}, server : {s.server}, est : {s.est}, rtts : {s.rtts}, rejects : {s.rejects},
         segs : {s.segs}, ringing : BOOLEAN, null : {s.null}, session : {s.session}, since : {s.since},
         kick : {s.kick}, issue : {s.issue}, hits : {s.hits}]

\* The session, and while it lasts its mapping, are not touched.
SessionStays(s, r) ==
  /\ IsClient(r) /\ r.ringing = s.ringing /\ r.session = s.session /\ r.null = s.null
  /\ s.ringing => r.segs = s.segs

\* Another mapping, whatever it is, is all that changes.
MapOnly(s, r) ==
  /\ IsClient(r) /\ r.ticks = s.ticks /\ r.ringing = s.ringing /\ r.session = s.session /\ r.null = s.null

LEMMA NewMap == ASSUME NEW s, IsClient(s), NEW e, NEW r, r = [s EXCEPT !.segs = e] PROVE MapOnly(s, r)
BY DEF IsClient, MapOnly

LEMMA NewTick ==
  ASSUME NEW s, IsClient(s), NEW e, NEW r, r = [s EXCEPT !.ticks = e]
  PROVE  SessionStays(s, r) /\ r.ticks = e /\ IsClient(r)
BY DEF IsClient, SessionStays

LEMMA NewField ==
  ASSUME NEW s, IsClient(s), NEW e, NEW r,
         \/ r = [s EXCEPT !.kick = e]
         \/ r = [s EXCEPT !.server = e]
         \/ r = [s EXCEPT !.rejects = e]
         \/ r = s
  PROVE  SessionStays(s, r) /\ r.ticks = s.ticks /\ IsClient(r)
BY DEF IsClient, SessionStays

LEMMA NewIsClient ==
  ASSUME NEW time
  PROVE  LET r == NewSntp(time) IN IsClient(r) /\ r.ticks = NewTicks(time) /\ ~r.ringing /\ r.session = 0
BY DEF NewSntp, IsClient

LEMMA AppliedFacts ==
  ASSUME NEW s, IsClient(s), NEW time
  PROVE  MapOnly(s, Applied(s, time))
<1> DEFINE e1 == <<Piece(time, Estimate(s, time), s.est.dr)>>
           e2 == Continued(s, time, Correction(s, time, Estimate(s, time) - Issued(s, time)))
           r == Applied(s, time)
<1>1. CASE ~s.est.known
  <2>1. Applied(s, time) = s
    BY <1>1 DEF Applied
  <2>. QED BY <2>1 DEF MapOnly
<1>2. CASE s.est.known /\ s.segs = <<>>
  <2>1. r = [s EXCEPT !.segs = e1]
    BY <1>2 DEF Applied
  <2> HIDE DEF e1, r
  <2>2. MapOnly(s, r)
    BY <2>1, NewMap
  <2>. QED BY <2>2 DEF r
<1>3. CASE s.est.known /\ s.segs # <<>>
  <2>1. r = [s EXCEPT !.segs = e2]
    BY <1>3 DEF Applied
  <2> HIDE DEF e2, r
  <2>2. MapOnly(s, r)
    BY <2>1, NewMap
  <2>. QED BY <2>2 DEF r
<1>. QED BY <1>1, <1>2, <1>3

LEMMA FrozenFacts ==
  ASSUME NEW s, IsClient(s), NEW time, NEW r, r = Frozen(s, time)
  PROVE  IsClient(r) /\ r.ticks = s.ticks /\ r.ringing = TRUE
<1> DEFINE q == [s EXCEPT !.session = @ + 1, !.ringing = TRUE, !.since = time, !.null = s.segs = <<>>]
           dr == IF s.est.known THEN s.est.dr ELSE PieceAt(s.segs, time).dr
           e == Continued(s, time, <<Piece(time, Issued(s, time), dr)>>)
<1>1. IsClient(q) /\ q.ticks = s.ticks /\ q.ringing = TRUE
  BY DEF IsClient
<1>2. r = IF s.segs = <<>> THEN q ELSE [q EXCEPT !.segs = e]
  BY DEF Frozen
<1> HIDE DEF q, e
<1>3. CASE s.segs = <<>>
  BY <1>1, <1>2, <1>3
<1>4. CASE s.segs # <<>>
  <2>1. MapOnly(q, r)
    BY <1>1, <1>2, <1>4, NewMap
  <2>. QED BY <1>1, <2>1 DEF MapOnly
<1>. QED BY <1>3, <1>4

LEMMA ReleasedFacts ==
  ASSUME NEW s, IsClient(s), NEW time
  PROVE  LET r == Released(s, time)
         IN  IsClient(r) /\ r.ticks = s.ticks /\ r.ringing = FALSE /\ r.session = s.session
<1> DEFINE q == [s EXCEPT !.ringing = FALSE, !.null = FALSE]
           a == Applied(q, time)
           r == Released(s, time)
<1>1. IsClient(q) /\ q.ticks = s.ticks /\ q.ringing = FALSE /\ q.session = s.session
  BY DEF IsClient
<1>2. r = [a EXCEPT !.kick = TRUE]
  BY DEF Released
<1> HIDE DEF q
<1>3. IsClient(a) /\ a.ticks = s.ticks /\ a.ringing = FALSE /\ a.session = s.session
  BY <1>1, AppliedFacts DEF MapOnly
<1> HIDE DEF a, r
<1>4. SessionStays(a, r) /\ r.ticks = a.ticks /\ IsClient(r)
  BY <1>2, <1>3, NewField
<1>5. IsClient(r) /\ r.ticks = s.ticks /\ r.ringing = FALSE /\ r.session = s.session
  BY <1>3, <1>4 DEF SessionStays
<1>. QED BY <1>5 DEF r

\* set_ringing: nothing without a change; a reading of the counter with one.
LEMMA SetRingingFacts ==
  ASSUME NEW s, IsClient(s), NEW rings \in BOOLEAN, NEW raw, NEW r, r = SetRinging(s, rings, raw)
  PROVE  /\ IsClient(r) /\ r.ringing = rings
         /\ r.ticks \in {s.ticks, Extend(s.ticks, raw)}
         /\ rings = s.ringing => r = s
         /\ ~rings => r.session = s.session
<1> DEFINE c == [s EXCEPT !.ticks = Extend(s.ticks, raw)]
           t == Extended(s.ticks, raw)
<1>0. s.ringing \in BOOLEAN
  BY DEF IsClient
<1>1. IsClient(c) /\ c.ticks = Extend(s.ticks, raw) /\ c.session = s.session
  <2>1. SessionStays(s, c) /\ c.ticks = Extend(s.ticks, raw) /\ IsClient(c)
    BY NewTick
  <2>. QED BY <2>1 DEF SessionStays
<1>2. CASE rings = s.ringing
  <2>1. r = s
    BY <1>2 DEF SetRinging
  <2>. QED BY <1>0, <1>2, <2>1
<1>3. CASE rings # s.ringing /\ rings
  <2>1. r = Frozen(c, t)
    BY <1>3 DEF SetRinging
  <2> HIDE DEF c, t
  <2>2. IsClient(r) /\ r.ticks = c.ticks /\ r.ringing = TRUE
    BY <1>1, <2>1, FrozenFacts
  <2>. QED BY <1>1, <1>3, <2>2
<1>4. CASE rings # s.ringing /\ ~rings
  <2>1. r = Released(c, t)
    BY <1>4 DEF SetRinging
  <2> HIDE DEF c, t
  <2>2. IsClient(c)
    BY <1>1
  <2>3. LET q == Released(c, t)
        IN  IsClient(q) /\ q.ticks = c.ticks /\ q.ringing = FALSE /\ q.session = c.session
    BY <2>2, ReleasedFacts
  <2>. QED BY <1>1, <1>4, <2>1, <2>3
<1>. QED BY <1>2, <1>3, <1>4

LEMMA StampedFacts ==
  ASSUME NEW s, IsClient(s), NEW raw, NEW r, r = Stamped(s, raw)
  PROVE  /\ SessionStays(s, r) /\ r.ticks = Extend(s.ticks, raw)
         /\ Stamp(s, raw).tick = Extended(s.ticks, raw)
<1>1. ASSUME NEW e1, NEW e2, NEW e3, r = [s EXCEPT !.ticks = e1, !.hits = e2, !.issue = e3]
      PROVE  SessionStays(s, r) /\ r.ticks = e1
  BY <1>1 DEF IsClient, SessionStays
<1>2. PICK e2, e3 : r = [s EXCEPT !.ticks = Extend(s.ticks, raw), !.hits = e2, !.issue = e3]
  BY DEF Stamped
<1>3. SessionStays(s, r) /\ r.ticks = Extend(s.ticks, raw)
  BY <1>1, <1>2
<1>. QED BY <1>3 DEF Stamp

\* A sample that is taken, and what follows it.
Taken(s, best, dr, rtts) == [Fitted(s, best, dr) EXCEPT !.rejects = 0, !.rtts = rtts]

LEMMA TakenFacts ==
  ASSUME NEW s, IsClient(s), NEW best, NEW dr, NEW e
  PROVE  LET q == Taken(s, best, dr, e) IN SessionStays(s, q) /\ q.ticks = s.ticks /\ IsClient(q)
BY DEF Taken, Fitted, IsClient, SessionStays

LEMMA FollowedFacts ==
  ASSUME NEW s, IsClient(s), NEW time, NEW began
  PROVE  LET r == Followed(s, time, began) IN SessionStays(s, r) /\ r.ticks = s.ticks
<1> DEFINE r == Followed(s, time, began)
<1>1. r = IF ~s.ringing THEN Applied(s, time) ELSE s
  BY DEF Followed
<1> HIDE DEF r
<1>2. ASSUME s.ringing PROVE SessionStays(s, r) /\ r.ticks = s.ticks
  BY <1>1, <1>2 DEF SessionStays
<1>3. ASSUME ~s.ringing PROVE SessionStays(s, r) /\ r.ticks = s.ticks
  <2>1. r = Applied(s, time)
    BY <1>1, <1>3
  <2>2. MapOnly(s, r)
    BY <2>1, AppliedFacts
  <2>. QED BY <1>3, <2>2 DEF SessionStays, MapOnly
<1>. QED BY <1>2, <1>3 DEF r

\* A burst: its end leaves a session alone.
LEMMA FinishedFacts ==
  ASSUME NEW s, IsClient(s), NEW best, NEW dr, NEW time, NEW began
  PROVE  LET r == Finished(s, best, dr, time, began) IN SessionStays(s, r) /\ r.ticks = s.ticks
<1> DEFINE r == Finished(s, best, dr, time, began)
<1>1. PICK e : r \in {s, [s EXCEPT !.rejects = @ + 1], Followed(Taken(s, best, dr, e), time, began)}
  BY DEF Finished, Taken
<1> HIDE DEF r
<1>2. ASSUME r \in {s, [s EXCEPT !.rejects = s.rejects + 1]}
      PROVE  SessionStays(s, r) /\ r.ticks = s.ticks
  BY <1>2, NewField
<1>3. ASSUME r = Followed(Taken(s, best, dr, e), time, began)
      PROVE  SessionStays(s, r) /\ r.ticks = s.ticks
  <2> DEFINE q == Taken(s, best, dr, e)
  <2>1. SessionStays(s, q) /\ q.ticks = s.ticks /\ IsClient(q)
    BY TakenFacts
  <2> HIDE DEF q
  <2>2. SessionStays(q, r) /\ r.ticks = q.ticks
    BY <1>3, <2>1, FollowedFacts DEF q
  <2>. QED BY <2>1, <2>2 DEF SessionStays
<1>. QED BY <1>1, <1>2, <1>3 DEF r

LEMMA UsedFacts ==
  ASSUME NEW s, IsClient(s), NEW server, NEW r, r = Used(s, server)
  PROVE  SessionStays(s, r) /\ r.ticks = s.ticks /\ IsClient(r)
<1>1. CASE r \in {s, [s EXCEPT !.server = server]}
  BY <1>1, NewField
<1>2. CASE r = [s EXCEPT !.server = server, !.est = NoEst, !.rtts = <<>>]
  BY <1>2 DEF IsClient, SessionStays
<1>. QED BY <1>1, <1>2 DEF Used
-----------------------------------------------------------------------------
(* The steps of the time task.                                             *)

\* What they do to the client: at most one reading of now, and no session
\* begins or ends.
TaskStep(s, r) ==
  SessionStays(s, r) /\ r.ticks \in {s.ticks, Extend(s.ticks, Raw(now))}

LEMMA QueriedFacts ==
  ASSUME NEW s, IsClient(s), NEW ringing, NEW best, NEW left, Queried(s, ringing, best, left)
  PROVE  TaskStep(s, sntp')
<1> DEFINE c == [s EXCEPT !.ticks = Extend(@, Raw(now))]
<1>1. SessionStays(s, c) /\ c.ticks = Extend(s.ticks, Raw(now)) /\ IsClient(c)
  BY DEF IsClient, SessionStays
<1>2. sntp' = c \/ \E b, dr, time : sntp' = Finished(c, b, dr, time, ringing)
  BY DEF Queried
<1> HIDE DEF c
<1>3. CASE sntp' = c
  BY <1>1, <1>3 DEF TaskStep
<1>4. ASSUME NEW b, NEW dr, NEW time, sntp' = Finished(c, b, dr, time, ringing)
      PROVE  TaskStep(s, sntp')
  <2>1. SessionStays(c, sntp') /\ sntp'.ticks = c.ticks
    BY <1>1, <1>4, FinishedFacts
  <2>. QED BY <1>1, <2>1 DEF SessionStays, TaskStep
<1>. QED BY <1>2, <1>3, <1>4

LEMMA ProbedFacts ==
  ASSUME NEW s, IsClient(s), NEW ranks, Probed(s, ranks)
  PROVE  TaskStep(s, sntp')
<1>1. sntp' = [s EXCEPT !.ticks = Extend(s.ticks, Raw(now))]
  BY DEF Probed
<1>. QED BY <1>1, NewTick DEF TaskStep

\* First something that leaves the clock alone, then a step of the task.
LEMMA StepAfter ==
  ASSUME NEW s, NEW q, NEW r, SessionStays(s, q), q.ticks = s.ticks, TaskStep(q, r)
  PROVE  TaskStep(s, r)
BY DEF TaskStep, SessionStays

LEMMA TaskFacts ==
  ASSUME IsClient(sntp), Begin \/ Probe \/ Query
  PROVE  TaskStep(sntp, sntp') /\ TaskOnly
<1>1. CASE Begin
  <2> DEFINE s == [sntp EXCEPT !.kick = @ /\ now >= task.due]
  <2>1. SessionStays(sntp, s) /\ s.ticks = sntp.ticks /\ IsClient(s)
    BY DEF IsClient, SessionStays
  <2> DEFINE u == IF scene.servers = 1 /\ s.server = 0 THEN [s EXCEPT !.server = 1] ELSE s
             n == IF s.ringing THEN RingQueries ELSE scene.queries
  <2>2. \/ sntp' = s
        \/ Probed(s, <<>>)
        \/ Queried(u, s.ringing, NoReply, n - 1)
    BY <1>1 DEF Begin
  <2> HIDE DEF s
  <2>3. SessionStays(s, u) /\ u.ticks = s.ticks /\ IsClient(u)
    <3>1. u = s \/ u = [s EXCEPT !.server = 1]
      OBVIOUS
    <3> HIDE DEF u
    <3>. QED BY <2>1, <3>1, NewField
  <2> HIDE DEF u, n
  <2>4. TaskStep(s, sntp')
    <3>1. CASE sntp' = s
      BY <2>1, <3>1 DEF TaskStep, SessionStays
    <3>2. CASE Probed(s, <<>>)
      BY <2>1, <3>2, ProbedFacts
    <3>3. CASE Queried(u, s.ringing, NoReply, n - 1)
      <4>1. TaskStep(u, sntp')
        BY <2>3, <3>3, QueriedFacts
      <4>. QED BY <2>3, <4>1, StepAfter
    <3>. QED BY <2>2, <3>1, <3>2, <3>3
  <2>5. TaskStep(sntp, sntp')
    BY <2>1, <2>4, StepAfter
  <2>. QED BY <1>1, <2>5 DEF Begin
<1>2. CASE Probe
  <2> DEFINE u == Used(sntp, Chosen(task.ranks))
  <2>1. Probed(sntp, task.ranks) \/ Queried(u, FALSE, NoReply, scene.queries - 1)
    BY <1>2 DEF Probe
  <2>2. SessionStays(sntp, u) /\ u.ticks = sntp.ticks /\ IsClient(u)
    BY UsedFacts
  <2> HIDE DEF u
  <2>3. CASE Probed(sntp, task.ranks)
    BY <1>2, <2>3, ProbedFacts DEF Probe
  <2>4. CASE Queried(u, FALSE, NoReply, scene.queries - 1)
    <3>1. TaskStep(u, sntp')
      BY <2>2, <2>4, QueriedFacts
    <3>2. TaskStep(sntp, sntp')
      BY <2>2, <3>1, StepAfter
    <3>. QED BY <1>2, <3>2 DEF Probe
  <2>. QED BY <2>1, <2>3, <2>4
<1>3. CASE Query
  BY <1>3, QueriedFacts DEF Query
<1>. QED BY <1>1, <1>2, <1>3

-----------------------------------------------------------------------------
(* The tower watch.                                                        *)

BellKinds == {"ringing", "stood", "idle"}

Watches == [bell : [Bells -> BellKinds], held : [Bells -> BOOLEAN],
            tower : {"boot", "active", "ringing_down", "inactive"}, edge : Int, day : Int, mark : SUBSET Bells]

LEMMA WatchFields ==
  ASSUME NEW w \in Watches
  PROVE  /\ w.bell \in [Bells -> BellKinds] /\ w.edge \in Int /\ Rings(w) \in BOOLEAN
         /\ w.mark \subseteq Bells
BY DEF Watches, Rings

\* What the bells and the last edge make of the tower.
LEMMA ReducedFacts ==
  ASSUME NEW w \in Watches, NEW time \in Int
  PROVE  LET r == Reduced(w, time)
         IN  /\ r \in Watches /\ r.bell = w.bell /\ r.edge = w.edge /\ r.mark = w.mark /\ r.day = w.day
             /\ w.edge # -1 /\ (\E b \in Bells : w.bell[b] = "ringing") => Rings(r)
             /\ w.edge # -1 /\ time - w.edge < RingdownS /\ (\E b \in Bells : w.bell[b] # "stood") => Rings(r)
<1>1. ASSUME NEW t \in {"active", "ringing_down", "inactive"}
      PROVE  LET r == [w EXCEPT !.tower = t]
             IN  /\ r \in Watches /\ r.bell = w.bell /\ r.edge = w.edge /\ r.mark = w.mark /\ r.day = w.day
                 /\ r.tower = t
  BY DEF Watches
<1>2. w.edge \in Int /\ RingdownS \in Nat
  BY WatchAssumption, WatchFields
<1>3. CASE w.edge = -1
  <2>1. Reduced(w, time) = [w EXCEPT !.tower = "inactive"]
    BY <1>3 DEF Reduced
  <2>. QED BY <1>1, <1>3, <2>1
<1>4. CASE w.edge # -1 /\ \E b \in Bells : w.bell[b] = "ringing"
  <2>1. Reduced(w, time) = [w EXCEPT !.tower = "active"]
    BY <1>4 DEF Reduced
  <2>. QED BY <1>1, <2>1 DEF Rings
<1>5. CASE w.edge # -1 /\ (~\E b \in Bells : w.bell[b] = "ringing") /\ \A b \in Bells : w.bell[b] = "stood"
  <2>1. Reduced(w, time) = [w EXCEPT !.tower = "inactive"]
    BY <1>5 DEF Reduced
  <2>. QED BY <1>1, <1>5, <2>1
<1>6. CASE w.edge # -1 /\ (~\E b \in Bells : w.bell[b] = "ringing") /\ ~\A b \in Bells : w.bell[b] = "stood"
  <2> DEFINE t == IF time - w.edge >= RingdownS THEN "inactive" ELSE "ringing_down"
  <2>1. Reduced(w, time) = [w EXCEPT !.tower = t]
    BY <1>6 DEF Reduced
  <2>2. t \in {"active", "ringing_down", "inactive"} /\ (time - w.edge < RingdownS => t = "ringing_down")
    BY <1>2
  <2> HIDE DEF t
  <2>. QED BY <1>1, <1>6, <2>1, <2>2 DEF Rings
<1>. QED BY <1>3, <1>4, <1>5, <1>6

LEMMA ReportFacts ==
  ASSUME NEW w \in Watches, NEW b \in Bells, NEW kind \in BellKinds, NEW up \in BOOLEAN, NEW time \in Int
  PROVE  LET r == Report(w, b, kind, up, time)
         IN  /\ r \in Watches
             /\ r.edge = IF kind = "ringing" THEN time ELSE w.edge
             /\ kind = "ringing" /\ time # -1 => Rings(r)
<1> DEFINE q == [w EXCEPT !.bell[b] = kind, !.held[b] = up,
                          !.edge = IF kind = "ringing" THEN time ELSE @]
<1>1. q \in Watches /\ q.bell[b] = kind /\ q.edge = IF kind = "ringing" THEN time ELSE w.edge
  BY DEF Watches
<1>2. Report(w, b, kind, up, time) = Reduced(q, time)
  BY DEF Report
<1> HIDE DEF q
<1>3. Reduced(q, time) \in Watches /\ Reduced(q, time).edge = q.edge
      /\ (q.edge # -1 /\ (\E x \in Bells : q.bell[x] = "ringing") => Rings(Reduced(q, time)))
  BY <1>1, ReducedFacts
<1>. QED BY <1>1, <1>2, <1>3

LEMMA UnmarkedFacts ==
  ASSUME NEW w \in Watches, NEW b
  PROVE  Unmarked(w, b) \in Watches /\ Unmarked(w, b).edge = w.edge
BY DEF Unmarked, Watches

LEMMA PolledFacts ==
  ASSUME NEW w \in Watches, NEW time \in Int
  PROVE  LET r == Polled(w, time)
         IN  /\ r \in Watches /\ r.bell = w.bell /\ r.edge = w.edge
             /\ w.edge # -1 /\ time - w.edge < RingdownS /\ (\E b \in Bells : w.bell[b] # "stood") => Rings(r)
<1> DEFINE q == Reduced(w, time)
           d == [q EXCEPT !.day = time]
           m == [d EXCEPT !.mark = @ \cup {b \in Bells : d.held[b]}]
<1>1. q \in Watches /\ q.bell = w.bell /\ q.edge = w.edge
      /\ (w.edge # -1 /\ time - w.edge < RingdownS /\ (\E b \in Bells : w.bell[b] # "stood") => Rings(q))
  BY ReducedFacts
<1>2. Polled(w, time) \in {q, d, m}
  BY DEF Polled, OnTick
<1> HIDE DEF q
<1>3. d \in Watches /\ d.bell = q.bell /\ d.edge = q.edge /\ d.tower = q.tower
  BY <1>1 DEF Watches
<1> HIDE DEF d
<1>4. m \in Watches /\ m.bell = d.bell /\ m.edge = d.edge /\ m.tower = d.tower
  BY <1>3 DEF Watches
<1> HIDE DEF m
<1>. QED BY <1>1, <1>2, <1>3, <1>4 DEF Rings

LEMMA KindFacts ==
  ASSUME NEW b, NEW up \in BOOLEAN, NEW began \in Nat, NEW at
  PROVE  Kind(b, up, began, at) \in BellKinds /\ Kind(b, TRUE, began, began) = "ringing"
BY SessionAssumption DEF Kind, BellKinds, None

LEMMA LookedFacts ==
  ASSUME NEW w \in Watches, NEW began \in Nat, held \in [Bells -> BOOLEAN], now \in Nat
  PROVE  LET r == Looked(w, began) IN r \in Watches /\ r.edge \in {w.edge, now}
<1> DEFINE bell == [b \in Bells |-> Kind(b, held[b], began, rangAt[b])]
           mark == {b \in w.mark : held[b]}
           edge == IF \E b \in Bells : bell[b] = "ringing" THEN now ELSE w.edge
           q == [w EXCEPT !.bell = bell, !.held = held, !.mark = mark, !.edge = edge]
<1>1. bell \in [Bells -> BellKinds]
  <2>1. \A b \in Bells : Kind(b, held[b], began, rangAt[b]) \in BellKinds
    BY KindFacts
  <2>. QED BY <2>1
<1>2. Looked(w, began) = Reduced(q, now)
  BY DEF Looked
<1>3. mark \in SUBSET Bells /\ edge \in {w.edge, now} /\ edge \in Int
  BY WatchFields
<1> HIDE DEF bell, mark, edge
<1>4. q \in Watches /\ q.edge \in {w.edge, now}
  BY <1>1, <1>3 DEF Watches
<1> HIDE DEF q
<1>5. Reduced(q, now) \in Watches /\ Reduced(q, now).edge = q.edge
  BY <1>4, ReducedFacts
<1>. QED BY <1>2, <1>4, <1>5

-----------------------------------------------------------------------------
(* What every state of the strokes' time is made of.                       *)

TimeInv ==
  /\ scene \in Scenes /\ now \in Start..(Start + scene.ticks)
  /\ on \in BOOLEAN /\ pass \in {None} \cup Nat /\ held \in [Bells -> BOOLEAN]
  /\ IsClient(sntp) /\ watch \in Watches

LEMMA SceneFacts ==
  ASSUME NEW sc \in Scenes
  PROVE  sc.heads \subseteq Bells /\ sc.ticks \in Nat /\ sc.faults \in Nat /\ Start \in Nat /\ Lag \in Nat
BY SessionAssumption

LEMMA NowFacts == TimeInv => now \in Nat /\ scene.heads \subseteq Bells
BY SceneFacts DEF TimeInv

\* The bursts of setup_sntp, one after the other.
Quick == [rtt |-> 1, off |-> 0, tick |-> Raw(Start)]
Boots(f) ==
  /\ f[0] = Used(NewSntp(Start), 1)
  /\ \A n \in 1..RttHist : f[n] = Finished(f[n - 1], Quick, 0, Raw(Start), FALSE)

LEMMA BootedIs ==
  ASSUME NEW boot
  PROVE  \E f : Boots(f) /\ Booted(boot) \in {f[RttHist], NewSntp(Start)}
<1> DEFINE Step(f, n) == IF n = 0 THEN Used(NewSntp(Start), 1)
                         ELSE Finished(f[n - 1], Quick, 0, Raw(Start), FALSE)
           Exists(m) == \E f : f = [n \in 0..m |-> Step(f, n)]
           Good == {m \in 0..RttHist : Exists(m)}
<1>0. RttHist \in Nat
  BY SntpAssumption
<1>1. 0 \in Good
  <2> DEFINE f == [n \in 0..0 |-> Used(NewSntp(Start), 1)]
  <2>1. f = [n \in 0..0 |-> Step(f, n)]
    OBVIOUS
  <2>2. Exists(0)
    <3> HIDE DEF f, Step
    <3>. QED BY <2>1
  <2> HIDE DEF Exists
  <2>. QED BY <1>0, <2>2
<1>2. ASSUME NEW m \in 1..RttHist, m - 1 \in Good PROVE m \in Good
  <2>1. PICK f : f = [n \in 0..(m - 1) |-> Step(f, n)]
    <3>1. Exists(m - 1)
      <4> HIDE DEF Exists
      <4>. QED BY <1>2
    <3>. QED BY <3>1
  <2> DEFINE top == Step(f, m)
             g == [n \in 0..m |-> IF n = m THEN top ELSE f[n]]
  <2>2. ASSUME NEW n \in 0..m PROVE g[n] = Step(g, n)
    <3>1. CASE n = m
      <4>1. m - 1 \in 0..m /\ m - 1 # m /\ m # 0
        OBVIOUS
      <4>2. g[m - 1] = f[m - 1] /\ g[m] = Step(f, m)
        <5> HIDE DEF top
        <5>1. g[m - 1] = f[m - 1] /\ g[m] = top
          BY <4>1
        <5>. QED BY <5>1 DEF top
      <4>. QED BY <3>1, <4>1, <4>2
    <3>2. CASE n # m /\ n # 0
      <4>1. n \in 0..(m - 1) /\ n - 1 \in 0..m /\ n - 1 # m
        BY <3>2
      <4>2. g[n - 1] = f[n - 1] /\ g[n] = f[n]
        BY <3>2, <4>1
      <4>3. f[n] = Step(f, n)
        BY <2>1, <4>1
      <4>. QED BY <4>2, <4>3
    <3>3. CASE n # m /\ n = 0
      <4>1. n \in 0..(m - 1)
        BY <3>3
      <4>. QED BY <2>1, <3>3, <4>1
    <3>. QED BY <3>1, <3>2, <3>3
  <2>3. g = [n \in 0..m |-> Step(g, n)]
    <3>1. g = [n \in 0..m |-> g[n]]
      OBVIOUS
    <3> HIDE DEF g, Step
    <3>. QED BY <2>2, <3>1
  <2>4. Exists(m)
    <3> HIDE DEF g, Step
    <3>. QED BY <2>3
  <2> HIDE DEF Exists
  <2>. QED BY <1>0, <2>4
<1>3. Exists(RttHist)
  <2> HIDE DEF Exists
  <2>1. \A m \in 1..RttHist : m - 1 \in Good => m \in Good
    BY <1>2
  <2>2. \A m \in 0..RttHist : m \in Good
    <3> HIDE DEF Good
    <3>. QED BY <1>0, <1>1, <2>1, Upwards
  <2>. QED BY <1>0, <2>2
<1>4. PICK f : /\ f = [n \in 0..RttHist |-> Step(f, n)]
               /\ Booted(boot) = IF boot = "synced" THEN f[RttHist] ELSE NewSntp(Start)
  BY <1>3 DEF Booted, Quick
<1>5. \A n \in 0..RttHist : f[n] = Step(f, n)
  <2> HIDE DEF Step
  <2>. QED BY <1>4
<1>6. f[0] = Used(NewSntp(Start), 1)
  <2>1. 0 \in 0..RttHist
    BY <1>0
  <2>. QED BY <1>5, <2>1
<1>7. ASSUME NEW n \in 1..RttHist PROVE f[n] = Finished(f[n - 1], Quick, 0, Raw(Start), FALSE)
  <2>1. n \in 0..RttHist /\ n # 0
    BY <1>0
  <2>2. f[n] = Step(f, n)
    BY <1>5, <2>1
  <2>. QED BY <2>1, <2>2
<1>8. Boots(f)
  BY <1>6, <1>7, Zenon DEF Boots
<1>. QED BY <1>4, <1>8

\* They learn, and leave the clock where it began.
LEMMA BootedFacts ==
  ASSUME NEW boot
  PROVE  LET r == Booted(boot) IN IsClient(r) /\ r.ticks = NewTicks(Start) /\ ~r.ringing /\ r.session = 0
<1> DEFINE Fine(r) == IsClient(r) /\ r.ticks = NewTicks(Start) /\ ~r.ringing /\ r.session = 0
<1>0. RttHist \in Nat
  BY SntpAssumption
<1>1. PICK f : Boots(f) /\ Booted(boot) \in {f[RttHist], NewSntp(Start)}
  BY BootedIs
<1>2. Fine(NewSntp(Start))
  BY NewIsClient
<1>3. Fine(Used(NewSntp(Start), 1))
  BY <1>2, UsedFacts DEF SessionStays
<1>4. ASSUME NEW r, Fine(r) PROVE Fine(Finished(r, Quick, 0, Raw(Start), FALSE))
  <2> DEFINE no == FALSE
             q == Finished(r, Quick, 0, Raw(Start), no)
  <2>1. SessionStays(r, q) /\ q.ticks = r.ticks
    <3>1. IsClient(r)
      BY <1>4
    <3> HIDE DEF no
    <3>. QED BY <3>1, FinishedFacts
  <2> HIDE DEF q
  <2>2. Fine(q)
    BY <1>4, <2>1 DEF SessionStays
  <2>. QED BY <2>2 DEF q
<1>5. Fine(f[RttHist])
  <2> DEFINE All == {n \in 0..RttHist : Fine(f[n])}
  <2> HIDE DEF Fine
  <2>1. 0 \in All
    <3>1. 0 \in 0..RttHist /\ f[0] = Used(NewSntp(Start), 1)
      BY <1>0, <1>1 DEF Boots
    <3>. QED BY <1>3, <3>1
  <2>2. ASSUME NEW n \in 1..RttHist, n - 1 \in All PROVE n \in All
    <3>1. n \in 0..RttHist /\ n # 0
      BY <1>0
    <3>2. f[n] = Finished(f[n - 1], Quick, 0, Raw(Start), FALSE)
      BY <1>1 DEF Boots
    <3>. QED BY <1>4, <2>2, <3>1, <3>2
  <2>3. \A n \in 1..RttHist : n - 1 \in All => n \in All
    BY <2>2
  <2>4. \A n \in 0..RttHist : n \in All
    <3> HIDE DEF All
    <3>. QED BY <1>0, <2>1, <2>3, Upwards
  <2>. QED BY <1>0, <2>4
<1>. QED BY <1>1, <1>2, <1>5

LEMMA TimeInitInv == TimeInit => TimeInv
<1> SUFFICES ASSUME TimeInit PROVE TimeInv
  OBVIOUS
<1>1. scene \in Scenes /\ scene.ticks \in Nat /\ Start \in Nat
  BY SceneFacts DEF TimeInit
<1>2. now \in Start..(Start + scene.ticks)
  BY <1>1 DEF TimeInit
<1>3. IsClient(sntp)
  BY BootedFacts DEF TimeInit
<1>4. watch \in Watches
  <2>1. NewWatch(Start) \in Watches
    BY <1>1 DEF NewWatch, Watches, BellKinds
  <2>. QED BY <2>1 DEF TimeInit
<1>. QED BY <1>1, <1>2, <1>3, <1>4 DEF TimeInit, TimeInv

Looks == \E heard \in BOOLEAN : Look(heard)
Notes == \E b \in scene.heads, written \in BOOLEAN : Note(b, written)
Edges ==
  \/ \E b \in scene.heads, at \in (now - Lag)..now, counted, written \in BOOLEAN : Edge(b, at, counted, written)
  \/ \E b \in scene.heads, counted \in BOOLEAN : Unstamped(b, counted)

\* An edge is of its stamp's time, or of now.
LEMMA EdgeIs ==
  ASSUME TimeInv, Edges
  PROVE  \E b \in scene.heads : \E at \in (now - Lag)..now : \E counted \in BOOLEAN : \E note :
           Channel(b, counted, Raw(at), note)
<1>1. ASSUME NEW b \in scene.heads, NEW at \in (now - Lag)..now, NEW counted \in BOOLEAN,
             NEW written \in BOOLEAN, Edge(b, at, counted, written)
      PROVE  \E note : Channel(b, counted, Raw(at), note)
  BY <1>1 DEF Edge
<1>2. ASSUME NEW b \in scene.heads, NEW counted \in BOOLEAN, Unstamped(b, counted)
      PROVE  \E at \in (now - Lag)..now : \E note : Channel(b, counted, Raw(at), note)
  <2>1. now \in (now - Lag)..now
    BY NowFacts, HalfFacts
  <2>2. Channel(b, counted, Raw(now), noted)
    BY <1>2 DEF Unstamped
  <2>. QED BY <2>1, <2>2
<1>. QED BY <1>1, <1>2 DEF Edges

\* A stroke finds the session open, or opens it.
LEMMA ChannelIs ==
  ASSUME TimeInv, NEW b \in scene.heads, NEW counted \in BOOLEAN, NEW raw, NEW note,
         Channel(b, counted, raw, note)
  PROVE  /\ watch' \in Watches /\ watch'.edge \in {watch.edge, now}
         /\ pass' \in Nat /\ held' \in [Bells -> BOOLEAN]
         /\ counted => watch'.edge = now /\ Rings(watch')
<1> DEFINE became == ~held[b]
           began == IF pass = None THEN now ELSE pass
           rang == IF became THEN began ELSE rangAt[b]
           kind == Kind(b, became, began, rang)
           w0 == IF became THEN watch ELSE Unmarked(watch, b)
<1>1. b \in Bells /\ now \in Nat /\ held \in [Bells -> BOOLEAN] /\ became \in BOOLEAN
  BY NowFacts DEF TimeInv
<1>2. began \in Nat
  BY <1>1 DEF TimeInv
<1>3. /\ (counted => became) /\ pass' = began /\ held' = [held EXCEPT ![b] = became]
      /\ watch' = Report(w0, b, kind, became, now)
  BY DEF Channel
<1>4. w0 \in Watches /\ w0.edge = watch.edge
  BY UnmarkedFacts DEF TimeInv
<1> HIDE DEF began
<1>5. kind \in BellKinds /\ (became => kind = "ringing")
  <2>1. Kind(b, became, began, rang) \in BellKinds
    BY <1>1, <1>2, KindFacts
  <2>2. Kind(b, TRUE, began, began) = "ringing"
    BY <1>2, KindFacts
  <2>. QED BY <1>1, <2>1, <2>2
<1> HIDE DEF became, kind, w0
<1>6. /\ watch' \in Watches /\ watch'.edge = IF kind = "ringing" THEN now ELSE w0.edge
      /\ kind = "ringing" /\ now # -1 => Rings(watch')
  BY <1>1, <1>3, <1>4, <1>5, ReportFacts
<1>7. now # -1
  BY <1>1
<1>. QED BY <1>1, <1>2, <1>3, <1>4, <1>5, <1>6, <1>7

LEMMA SyncedFacts ==
  ASSUME TimeInv, NEW w \in Watches
  PROVE  LET s == Synced(sntp, w)
         IN  /\ IsClient(s) /\ s.ticks \in {sntp.ticks, Extend(sntp.ticks, Raw(now))}
             /\ Rings(w) = sntp.ringing => s = sntp
             /\ on => s.ringing = Rings(w)
<1>1. Rings(w) \in BOOLEAN
  BY WatchFields
<1>. QED BY <1>1, SetRingingFacts DEF Synced, TimeInv

\* The rest of the sense step finds the tower as the bells left it.
LEMMA LookIs ==
  ASSUME TimeInv, Looks
  PROVE  \E w \in Watches :
           /\ watch' = w /\ w.edge \in {watch.edge, now}
           /\ sntp' = Synced(sntp, w)
           /\ pass' = None /\ UNCHANGED <<scene, now, held, edgeAt, noted, lost, on, task, moves>>
           /\ app' = IF scene.midi THEN Extend(app, Raw(now)) ELSE app
           /\ stroke' \in {stroke, NoStroke}
           /\ stroke' # NoStroke /\ w.edge # None /\ now - w.edge < RingdownS => Rings(w)
           /\ stroke' # NoStroke => ~(now - stroke.at >= RingdownS)
           /\ IF scene.midi /\ ClockDue(midi, now)
              THEN midi' = ClockStamp(midi, now) /\ host' \in {HostClock(host, midi.seq), HostNothing(host)}
              ELSE UNCHANGED <<midi, host>>
<1> DEFINE began == IF pass = None THEN now ELSE pass
           l == Looked(watch, began)
           w == Polled(l, now)
           stood == w.edge # None /\ \A b \in Bells : w.bell[b] = "stood"
<1>1. began \in Nat /\ now \in Nat /\ now \in Int /\ watch \in Watches /\ held \in [Bells -> BOOLEAN]
  BY NowFacts DEF TimeInv
<1>2. /\ watch' = w /\ sntp' = Synced(sntp, w)
      /\ pass' = None /\ UNCHANGED <<scene, now, held, edgeAt, noted, lost, on, task, moves>>
      /\ app' = IF scene.midi THEN Extend(app, Raw(now)) ELSE app
      /\ stroke' = IF stood \/ now - stroke.at >= RingdownS THEN NoStroke ELSE stroke
      /\ IF scene.midi /\ ClockDue(midi, now)
         THEN midi' = ClockStamp(midi, now) /\ host' \in {HostClock(host, midi.seq), HostNothing(host)}
         ELSE UNCHANGED <<midi, host>>
  BY DEF Looks, Look
<1> HIDE DEF began
<1>3. l \in Watches /\ l.edge \in {watch.edge, now}
  BY <1>1, LookedFacts
<1> HIDE DEF l
<1>4. /\ w \in Watches /\ w.bell = l.bell /\ w.edge = l.edge
      /\ l.edge # -1 /\ now - l.edge < RingdownS /\ (\E b \in Bells : l.bell[b] # "stood") => Rings(w)
  BY <1>1, <1>3, PolledFacts
<1> HIDE DEF w
<1>5. stroke' # NoStroke /\ w.edge # None /\ now - w.edge < RingdownS => Rings(w)
  BY <1>2, <1>4 DEF None
<1>. QED BY <1>2, <1>3, <1>4, <1>5

LEMMA NetStrokeFacts ==
  ASSUME TimeInv, NEW raw, NEW w \in Watches, NEW note, NetStroke(raw, w, note)
  PROVE  LET s == Synced(sntp, w)
         IN  /\ IsClient(sntp')
             /\ on => SessionStays(s, sntp') /\ sntp'.ticks = Extend(s.ticks, raw)
             /\ stroke'.at = now /\ stroke'.session = IF on THEN s.session ELSE 0
             /\ stroke'.tick = IF on THEN Extended(s.ticks, raw) ELSE Extended(app, raw)
             /\ stroke'.midi = IF note = NoNote THEN stroke'.tick ELSE note.ms
             /\ stroke'.took = IF note = NoNote THEN 0 ELSE now - note.at
<1> DEFINE s == Synced(sntp, w)
<1>1. IsClient(s) /\ IsClient(sntp)
  BY SyncedFacts DEF TimeInv
<1>2. /\ sntp' = IF on THEN Stamped(s, raw) ELSE sntp
      /\ stroke' = [at |-> now, tick |-> IF on THEN Stamp(s, raw).tick ELSE Extended(app, raw),
                    session |-> IF on THEN s.session ELSE 0,
                    midi |-> IF note = NoNote THEN IF on THEN Stamp(s, raw).tick ELSE Extended(app, raw)
                             ELSE note.ms,
                    took |-> IF note = NoNote THEN 0 ELSE now - note.at]
  BY DEF NetStroke
<1> HIDE DEF s
<1>3. /\ SessionStays(s, Stamped(s, raw)) /\ Stamped(s, raw).ticks = Extend(s.ticks, raw)
      /\ Stamp(s, raw).tick = Extended(s.ticks, raw)
  BY <1>1, StampedFacts
<1>4. /\ stroke'.at = now /\ stroke'.session = (IF on THEN s.session ELSE 0)
      /\ stroke'.tick = (IF on THEN Extended(s.ticks, raw) ELSE Extended(app, raw))
      /\ stroke'.midi = (IF note = NoNote THEN stroke'.tick ELSE note.ms)
      /\ stroke'.took = (IF note = NoNote THEN 0 ELSE now - note.at)
  BY <1>2, <1>3
<1>. QED BY <1>1, <1>2, <1>3, <1>4 DEF SessionStays, s

LEMMA TimeStep == TimeInv /\ [TimeNext]_timeVars => TimeInv'
<1> SUFFICES ASSUME TimeInv, [TimeNext]_timeVars PROVE TimeInv'
  OBVIOUS
<1>0. scene \in Scenes /\ scene.ticks \in Nat /\ Start \in Nat /\ now \in Nat /\ None \notin Nat
  BY SceneFacts, NowFacts DEF TimeInv, None
<1>1. CASE UNCHANGED timeVars
  BY <1>1 DEF timeVars, TimeInv, IsClient
<1>2. CASE TimePasses
  <2>1. now < Start + scene.ticks /\ now' = now + 1 /\ UNCHANGED <<scene, pass, held, watch, on, sntp>>
    BY <1>2 DEF TimePasses
  <2>2. now' \in Start..(Start + scene'.ticks)
    BY <1>0, <2>1 DEF TimeInv
  <2>. QED BY <2>1, <2>2 DEF TimeInv, IsClient
<1>3. ASSUME NEW b \in scene.heads, NEW counted \in BOOLEAN, NEW raw, NEW note, Channel(b, counted, raw, note)
      PROVE  TimeInv'
  <2>1. /\ watch' \in Watches /\ pass' \in Nat /\ held' \in [Bells -> BOOLEAN]
    BY <1>3, ChannelIs
  <2>2. UNCHANGED <<scene, now, on>>
    BY <1>3 DEF Channel
  <2>3. IsClient(sntp')
    <3>1. CASE counted
      <4>1. NetStroke(raw, watch', note)
        BY <1>3, <3>1 DEF Channel
      <4>. QED BY <2>1, <4>1, NetStrokeFacts
    <3>2. CASE ~counted
      <4>1. sntp' = sntp
        BY <1>3, <3>2 DEF Channel
      <4>. QED BY <4>1 DEF TimeInv, IsClient
    <3>. QED BY <3>1, <3>2
  <2>. QED BY <2>1, <2>2, <2>3 DEF TimeInv, IsClient
<1>8. CASE Edges
  BY <1>3, <1>8, EdgeIs
<1>9. CASE Notes
  <2>1. UNCHANGED <<scene, now, held, watch, on, sntp>> /\ pass' = IF pass = None THEN now ELSE pass
    BY <1>9 DEF Notes, Note
  <2>2. pass' \in Nat
    BY <1>0, <2>1 DEF TimeInv
  <2>. QED BY <2>1, <2>2 DEF TimeInv, IsClient
<1>4. CASE Looks
  <2>1. PICK w \in Watches : /\ watch' = w /\ sntp' = Synced(sntp, w)
                             /\ pass' = None /\ UNCHANGED <<scene, now, held, on>>
    BY <1>4, LookIs
  <2>2. IsClient(sntp')
    BY <2>1, SyncedFacts
  <2>. QED BY <2>1, <2>2 DEF TimeInv, IsClient
<1>5. CASE Beat
  <2>1. UNCHANGED <<scene, now, pass, held, watch, on>> /\ sntp' \in {sntp, Stamped(sntp, Raw(now))}
    BY <1>5 DEF Beat
  <2>2. IsClient(sntp')
    BY <2>1, StampedFacts DEF TimeInv, SessionStays
  <2>. QED BY <2>1, <2>2 DEF TimeInv, IsClient
<1>6. CASE WifiUp
  <2>1. UNCHANGED <<scene, now, pass, held, watch>> /\ on' = TRUE /\ sntp' = NewSntp(now)
    BY <1>6 DEF WifiUp
  <2>2. IsClient(sntp')
    BY <2>1, NewIsClient
  <2>. QED BY <2>1, <2>2 DEF TimeInv, IsClient
<1>7. CASE Begin \/ Probe \/ Query
  <2>1. TaskStep(sntp, sntp') /\ UNCHANGED <<scene, now, pass, held, watch, on>>
    BY <1>7, TaskFacts DEF TimeInv, TaskOnly
  <2>. QED BY <2>1 DEF TimeInv, TaskStep, SessionStays, IsClient
<1>. QED BY <1>1, <1>2, <1>4, <1>5, <1>6, <1>7, <1>8, <1>9 DEF TimeNext, Edges, Notes, Looks

-----------------------------------------------------------------------------
(* One scale.                                                              *)

\* A client that is made late is made before the counter wraps.
InTimeForWrap == scene.boot = "late" => Wraps(Start + scene.ticks) = Wraps(Start)

\* Both clocks are behind the time by the wraps before the start, and a note
\* that waits for its event carries the time it went.
Notable(note, base) == note = NoNote \/ (note.at \in Int /\ note.ms = note.at - base)

ClockInv ==
  /\ InTimeForWrap
  /\ Counts(app, Wraps(Start), now)
  /\ on => Counts(sntp.ticks, Wraps(Start), now)
  /\ Notable(noted, Wraps(Start))
  /\ OneScale

LEMMA WrapsType == ASSUME NEW time \in Int PROVE Wraps(time) \in Int
BY HalfFacts DEF Wraps, Raw

LEMMA ClockStart == TimeInit /\ InTimeForWrap => ClockInv
<1> SUFFICES ASSUME TimeInit, InTimeForWrap PROVE ClockInv
  OBVIOUS
<1>1. Start \in Int
  BY SessionAssumption
<1>2. Counts(NewTicks(Start), Wraps(Start), Start)
  BY <1>1, NewCounts
<1>3. sntp.ticks = NewTicks(Start)
  BY BootedFacts DEF TimeInit
<1>. QED BY <1>2, <1>3 DEF TimeInit, ClockInv, OneScale, NoStroke, Notable, None

LEMMA ClockStep == TimeInv /\ ClockInv /\ [TimeNext]_timeVars => ClockInv'
<1> SUFFICES ASSUME TimeInv, ClockInv, [TimeNext]_timeVars PROVE ClockInv'
  OBVIOUS
<1> DEFINE base == Wraps(Start)
<1>0. base \in Int /\ now \in Nat /\ now \in Int /\ Start \in Int /\ scene \in Scenes /\ scene.ticks \in Nat
      /\ now >= Start /\ now <= Start + scene.ticks /\ base' = base
  <2>1. base \in Int /\ Start \in Int
    BY WrapsType, SessionAssumption
  <2>2. base' = base
    BY DEF Wraps, Raw
  <2>3. now \in Nat /\ now \in Int /\ scene \in Scenes /\ scene.ticks \in Nat
        /\ now >= Start /\ now <= Start + scene.ticks
    BY NowFacts, SceneFacts DEF TimeInv
  <2> HIDE DEF base
  <2>. QED BY <2>1, <2>2, <2>3
<1>1. scene' = scene
  BY DEF TimeNext, TimePasses, Edge, Note, Unstamped, Channel, Look, Beat, WifiUp, Begin, Probe, Query, TaskOnly, timeVars
<1>2. InTimeForWrap'
  BY <1>1 DEF ClockInv, InTimeForWrap, Wraps, Raw
<1>3. Counts(app, base, now) /\ (on => Counts(sntp.ticks, base, now)) /\ Notable(noted, base) /\ OneScale
  BY DEF ClockInv
<1>4. ASSUME now' = now, Counts(app', base, now), on' => Counts(sntp'.ticks, base, now),
             Notable(noted', base), OneScale'
      PROVE  ClockInv'
  BY <1>2, <1>4 DEF ClockInv, Notable, Counts, Reads, Wraps, Raw
<1> HIDE DEF base
<1>5. ASSUME NEW c, Counts(c, base, now) PROVE Counts(Extend(c, Raw(now)), base, now)
  BY <1>0, <1>5, ReadingNow
<1>6. CASE UNCHANGED timeVars
  BY <1>3, <1>4, <1>6 DEF timeVars, OneScale
<1>7. CASE TimePasses
  <2>1. /\ StillNear(app, now + 1) /\ (on => StillNear(sntp.ticks, now + 1)) /\ now' = now + 1
        /\ UNCHANGED <<app, on, sntp, stroke, noted>>
    BY <1>7 DEF TimePasses
  <2>2. Counts(app, base, now + 1) /\ (on => Counts(sntp.ticks, base, now + 1))
    BY <1>0, <1>3, <2>1, NearStays
  <2>. QED BY <1>2, <1>3, <2>1, <2>2 DEF ClockInv, OneScale, Notable, Counts, Reads, Wraps, Raw, base
\* Whatever a stroke's note was, its event is on the same scale.
<1>8. ASSUME NEW b \in scene.heads, NEW at \in (now - Lag)..now, NEW counted \in BOOLEAN, NEW note,
             Channel(b, counted, Raw(at), note),
             note = NoNote \/ (note.at \in Int /\ note.ms + (now - note.at) = at - base)
      PROVE  OneScale' /\ (on' => Counts(sntp'.ticks, base, now))
  <2>1. UNCHANGED <<now, on>> /\ watch' \in Watches
    BY <1>8, ChannelIs DEF Channel
  <2>2. Extended(app, Raw(at)) = at - base
    BY <1>0, <1>3, Reading
  <2>3. CASE counted
    <3> DEFINE s == Synced(sntp, watch')
    <3>1. NetStroke(Raw(at), watch', note)
      BY <1>8, <2>3 DEF Channel
    <3>2. /\ on => sntp'.ticks = Extend(s.ticks, Raw(at))
          /\ stroke'.tick = IF on THEN Extended(s.ticks, Raw(at)) ELSE Extended(app, Raw(at))
          /\ stroke'.midi = IF note = NoNote THEN stroke'.tick ELSE note.ms
          /\ stroke'.took = IF note = NoNote THEN 0 ELSE now - note.at
      BY <2>1, <3>1, NetStrokeFacts
    <3>3. s.ticks \in {sntp.ticks, Extend(sntp.ticks, Raw(now))}
      BY <2>1, SyncedFacts
    <3> HIDE DEF s
    <3>4. on => Counts(s.ticks, base, now)
      BY <1>3, <1>5, <3>3
    <3>5. on => Extended(s.ticks, Raw(at)) = at - base /\ Counts(Extend(s.ticks, Raw(at)), base, now)
      BY <1>0, <3>4, Reading
    <3>6. stroke'.tick = at - base /\ at - base \in Int
      BY <1>0, <2>2, <3>2, <3>5
    <3>7. stroke'.tick = stroke'.midi + stroke'.took
      BY <1>8, <3>2, <3>6
    <3>. QED BY <2>1, <3>2, <3>5, <3>7 DEF OneScale
  <2>4. CASE ~counted
    <3>1. UNCHANGED <<sntp, stroke>>
      BY <1>8, <2>4 DEF Channel
    <3>. QED BY <1>3, <2>1, <3>1 DEF OneScale
  <2>. QED BY <2>3, <2>4
<1>13. ASSUME NEW b \in scene.heads, NEW at \in (now - Lag)..now, NEW counted \in BOOLEAN,
             NEW written \in BOOLEAN, Edge(b, at, counted, written)
      PROVE  ClockInv'
  <2> DEFINE note == NoteOf(b, Raw(at))
  <2>1. Extended(app, Raw(at)) = at - base /\ Counts(Extend(app, Raw(at)), base, now)
    BY <1>0, <1>3, Reading
  <2>2. app' \in {Extend(app, Raw(at)), Extend(Extend(app, Raw(at)), Raw(now))}
    BY <1>13 DEF Edge, MidiStroke
  <2>3. Counts(app', base, now)
    BY <1>5, <2>1, <2>2
  <2>4. /\ Channel(b, counted, Raw(at), note) /\ noted' = noted /\ now' = now
    BY <1>13 DEF Edge, Channel
  <2>5. note = NoNote \/ (note.at \in Int /\ note.ms + (now - note.at) = at - base)
    <3>1. at - base \in Int
      BY <1>0
    <3>. QED BY <1>0, <2>1, <3>1 DEF NoteOf
  <2> HIDE DEF note
  <2>6. OneScale' /\ (on' => Counts(sntp'.ticks, base, now))
    BY <1>8, <2>4, <2>5
  <2>. QED BY <1>3, <1>4, <2>3, <2>4, <2>6
<1>14. ASSUME NEW b \in scene.heads, NEW counted \in BOOLEAN, Unstamped(b, counted)
      PROVE  ClockInv'
  <2>1. now \in (now - Lag)..now
    BY <1>0, HalfFacts
  <2>2. /\ Channel(b, counted, Raw(now), noted) /\ noted' = NoNote /\ now' = now
        /\ app' = Extend(app, Raw(now))
    BY <1>14 DEF Unstamped, Channel
  <2>3. noted = NoNote \/ (noted.at \in Int /\ noted.ms + (now - noted.at) = now - base)
    BY <1>0, <1>3 DEF Notable
  <2>4. OneScale' /\ (on' => Counts(sntp'.ticks, base, now))
    BY <1>8, <2>1, <2>2, <2>3
  <2>. QED BY <1>3, <1>4, <1>5, <2>2, <2>4 DEF Notable
<1>15. CASE Notes
  <2>1. PICK b \in scene.heads, written \in BOOLEAN : Note(b, written)
    BY <1>15 DEF Notes
  <2>2. /\ UNCHANGED <<now, on, sntp, stroke>> /\ noted' = NoteOf(b, Raw(now))
        /\ app' \in {Extend(app, Raw(now)), Extend(Extend(app, Raw(now)), Raw(now))}
    BY <2>1 DEF Note, MidiStroke
  <2>3. now \in (now - Lag)..now
    BY <1>0, HalfFacts
  <2>4. Extended(app, Raw(now)) = now - base
    BY <1>0, <1>3, <2>3, Reading
  <2>5. Notable(noted', base)
    BY <1>0, <2>2, <2>4 DEF NoteOf, Notable
  <2>. QED BY <1>3, <1>4, <1>5, <2>2, <2>5 DEF OneScale
<1>9. CASE Looks
  <2>1. PICK w \in Watches : /\ sntp' = Synced(sntp, w) /\ UNCHANGED <<now, on, noted>>
                             /\ app' = IF scene.midi THEN Extend(app, Raw(now)) ELSE app
                             /\ stroke' \in {stroke, NoStroke}
    BY <1>9, LookIs
  <2>2. sntp'.ticks \in {sntp.ticks, Extend(sntp.ticks, Raw(now))}
    BY <2>1, SyncedFacts
  <2>3. OneScale'
    <3>1. stroke' = stroke => OneScale'
      BY <1>3 DEF OneScale
    <3>2. stroke' = NoStroke => OneScale'
      BY DEF OneScale, NoStroke, None
    <3>. QED BY <2>1, <3>1, <3>2
  <2>. QED BY <1>3, <1>4, <1>5, <2>1, <2>2, <2>3
<1>10. CASE Beat
  <2>1. /\ UNCHANGED <<now, on, stroke, noted>>
        /\ sntp' = (IF on THEN Stamped(sntp, Raw(now)) ELSE sntp)
        /\ app' = (IF on THEN app ELSE Extend(app, Raw(now)))
    BY <1>10 DEF Beat
  <2>2. on => sntp'.ticks = Extend(sntp.ticks, Raw(now))
    BY <2>1, StampedFacts DEF TimeInv
  <2>. QED BY <1>3, <1>4, <1>5, <2>1, <2>2 DEF OneScale
<1>11. CASE WifiUp
  <2>1. scene.boot = "late" /\ UNCHANGED <<now, app, stroke, noted>> /\ sntp' = NewSntp(now)
    BY <1>11 DEF WifiUp
  <2>2. Wraps(now) = base
    <3>1. Wraps(Start) = Wraps(Start + scene.ticks) /\ Start + scene.ticks \in Int
      BY <1>0, <2>1 DEF ClockInv, InTimeForWrap
    <3>. QED BY <1>0, <3>1, SameLap DEF base
  <2>3. Counts(sntp'.ticks, base, now)
    BY <1>0, <2>1, <2>2, NewCounts, NewIsClient
  <2>. QED BY <1>3, <1>4, <2>1, <2>3 DEF OneScale
<1>12. CASE Begin \/ Probe \/ Query
  <2>1. TaskStep(sntp, sntp') /\ UNCHANGED <<now, on, app, stroke, noted>>
    BY <1>12, TaskFacts DEF TimeInv, TaskOnly
  <2>2. sntp'.ticks \in {sntp.ticks, Extend(sntp.ticks, Raw(now))}
    BY <2>1 DEF TaskStep
  <2>. QED BY <1>3, <1>4, <1>5, <2>1, <2>2 DEF OneScale
<1>. QED BY <1>6, <1>7, <1>9, <1>10, <1>11, <1>12, <1>13, <1>14, <1>15 DEF TimeNext, Notes, Looks

\* The event of a stroke and its MIDI stamp are on one scale, at any period of
\* the counter and however late an edge is within Lag, unless the time client
\* was made after a wrap (concentrator._wifi_regained): with a keypad stamp they
\* carry the same millisecond, without one they differ by the time between the
\* two readings (_edge_ms, _channel).
THEOREM StampsOnOneScale == TimeSpec /\ InTimeForWrap => []OneScale
<1>1. TimeInit /\ InTimeForWrap => TimeInv /\ ClockInv
  BY TimeInitInv, ClockStart
<1>2. TimeInv /\ ClockInv /\ [TimeNext]_timeVars => (TimeInv /\ ClockInv)'
  BY TimeStep, ClockStep
<1>3. ClockInv => OneScale
  BY DEF ClockInv
<1>. QED BY <1>1, <1>2, <1>3, PTL DEF TimeSpec

-----------------------------------------------------------------------------
(* Sessions.                                                               *)

\* A step that does not end the session leaves its mapping and its number; a
\* new one begins only when none was on.
LEMMA SessionMoves ==
  ASSUME TimeInv, [TimeNext]_timeVars
  PROVE  \/ sntp.ringing /\ sntp'.ringing => sntp'.segs = sntp.segs /\ sntp'.null = sntp.null
         \/ sntp'.session # sntp.session
<1> USE DEF SessionStays
<1>0. IsClient(sntp)
  BY DEF TimeInv
<1>1. CASE UNCHANGED timeVars \/ TimePasses
  <2>1. sntp' = sntp
    BY <1>1 DEF timeVars, TimePasses
  <2>. QED BY <2>1
<1>2. ASSUME NEW b \in scene.heads, NEW counted \in BOOLEAN, NEW raw, NEW note,
             Channel(b, counted, raw, note), sntp.ringing
      PROVE  sntp'.segs = sntp.segs /\ sntp'.null = sntp.null
  <2>1. counted => NetStroke(raw, watch', note)
    BY <1>2 DEF Channel
  <2>2. ~counted \/ ~on => sntp' = sntp
    BY <1>2 DEF Channel, NetStroke
  <2>3. watch' \in Watches /\ (counted => Rings(watch'))
    BY <1>2, ChannelIs
  <2>4. CASE counted /\ on
    <3>1. Rings(watch') = TRUE /\ sntp.ringing = TRUE
      BY <1>0, <1>2, <2>3, <2>4, WatchFields DEF IsClient
    <3>2. Synced(sntp, watch') = sntp
      BY <2>3, <3>1, SyncedFacts
    <3>3. SessionStays(sntp, sntp')
      BY <2>1, <2>3, <2>4, <3>2, NetStrokeFacts
    <3>. QED BY <1>2, <3>3
  <2>. QED BY <2>2, <2>4
<1>3. ASSUME Looks, sntp.ringing, sntp'.ringing PROVE sntp' = sntp
  <2>1. PICK w \in Watches : sntp' = Synced(sntp, w)
    BY <1>3, LookIs
  <2>2. CASE on
    <3>1. sntp'.ringing = Rings(w)
      BY <2>1, <2>2, SyncedFacts
    <3>2. Rings(w) = sntp.ringing
      BY <1>0, <1>3, <3>1, WatchFields DEF IsClient
    <3>. QED BY <2>1, <3>2, SyncedFacts
  <2>3. CASE ~on
    BY <2>1, <2>3 DEF Synced
  <2>. QED BY <2>2, <2>3
<1>4. ASSUME Beat, sntp.ringing PROVE sntp'.segs = sntp.segs /\ sntp'.null = sntp.null
  <2>1. sntp' \in {sntp, Stamped(sntp, Raw(now))}
    BY <1>4 DEF Beat
  <2>. QED BY <1>0, <1>4, <2>1, StampedFacts
<1>5. WifiUp => ~sntp'.ringing
  BY NewIsClient DEF WifiUp
<1>6. ASSUME Begin \/ Probe \/ Query, sntp.ringing PROVE sntp'.segs = sntp.segs /\ sntp'.null = sntp.null
  BY <1>0, <1>6, TaskFacts DEF TaskStep
<1>7. ASSUME Edges, sntp.ringing PROVE sntp'.segs = sntp.segs /\ sntp'.null = sntp.null
  BY <1>2, <1>7, EdgeIs
<1>8. Notes => sntp' = sntp
  BY DEF Notes, Note
<1>. QED BY <1>1, <1>3, <1>4, <1>5, <1>6, <1>7, <1>8 DEF TimeNext, Edges, Notes, Looks

\* While a ringing session lasts, its ticks keep the UTC they had when it
\* began, for any counter, drift, correction and number of servers
\* (SntpClock.set_ringing, _finish).
THEOREM SessionIsOneLine == TimeSpec => OneLinePerSession
<1>1. TimeInv /\ [TimeNext]_timeVars =>
        (sntp.ringing /\ sntp'.ringing /\ sntp'.session = sntp.session =>
           \A t \in sntp.since..(Start + scene.ticks) : Utc(sntp', t) = Utc(sntp, t))
  <2> SUFFICES ASSUME TimeInv, [TimeNext]_timeVars, sntp.ringing, sntp'.ringing,
                      sntp'.session = sntp.session, NEW t
               PROVE  Utc(sntp', t) = Utc(sntp, t)
    OBVIOUS
  <2>1. sntp'.segs = sntp.segs /\ sntp'.null = sntp.null
    BY SessionMoves
  <2>. QED BY <2>1 DEF Utc, Issued
<1>. QED BY <1>1, TimeInitInv, TimeStep, PTL DEF TimeSpec, OneLinePerSession

-----------------------------------------------------------------------------
(* Touches.                                                                *)

\* A session that the last stroke carries is still open, and the bells have
\* been heard since.
TouchInv ==
  stroke.at # None =>
    /\ stroke.at \in 0..now /\ watch.edge >= stroke.at
    /\ stroke.session # 0 => on /\ sntp.ringing /\ stroke.session = sntp.session

LEMMA TouchStep ==
  ASSUME TimeInv, TouchInv, [TimeNext]_timeVars
  PROVE  /\ TouchInv'
         /\ stroke.at # None /\ stroke'.at # None /\ stroke.session # 0 /\ stroke'.session # stroke.session =>
              now - stroke.at >= RingdownS
<1>0. IsClient(sntp) /\ watch \in Watches /\ watch.edge \in Int /\ now \in Nat /\ RingdownS \in Nat
      /\ None \notin Nat /\ NoStroke.at = None
      /\ sntp.ringing \in BOOLEAN
  BY NowFacts, WatchFields, WatchAssumption DEF TimeInv, None, NoStroke, TouchInv, IsClient
<1>1. ASSUME UNCHANGED <<scene, watch, on, stroke>>, now' \in {now, now + 1},
             sntp'.ringing = sntp.ringing /\ sntp'.session = sntp.session
      PROVE  TouchInv' /\ stroke' = stroke
  BY <1>0, <1>1 DEF TouchInv
<1>2. CASE UNCHANGED timeVars \/ TimePasses
  BY <1>1, <1>2 DEF timeVars, TimePasses
<1>3. ASSUME NEW b \in scene.heads, NEW counted \in BOOLEAN, NEW raw, NEW note, Channel(b, counted, raw, note)
      PROVE  /\ TouchInv'
             /\ stroke.at # None /\ stroke.session # 0 => stroke'.session = stroke.session
  <2>1. /\ UNCHANGED <<scene, on, now>> /\ watch' \in Watches /\ watch'.edge \in {watch.edge, now}
        /\ (counted => watch'.edge = now /\ Rings(watch'))
    BY <1>3, ChannelIs DEF Channel
  <2>2. CASE counted
    <3> DEFINE s == Synced(sntp, watch')
    <3>1. NetStroke(raw, watch', note)
      BY <1>3, <2>2 DEF Channel
    <3>2. /\ on => sntp'.ringing = s.ringing /\ sntp'.session = s.session
          /\ stroke'.at = now /\ stroke'.session = IF on THEN s.session ELSE 0
      BY <2>1, <3>1, NetStrokeFacts DEF SessionStays
    <3>3. Rings(watch') = TRUE
      BY <2>1, <2>2, WatchFields
    <3>4. on => s.ringing = TRUE
      BY <2>1, <3>3, SyncedFacts
    <3>5. TouchInv'
      BY <1>0, <2>1, <2>2, <3>2, <3>4 DEF TouchInv
    <3>6. ASSUME stroke.at # None, stroke.session # 0 PROVE stroke'.session = stroke.session
      <4>1. on /\ sntp.ringing = TRUE /\ stroke.session = sntp.session
        BY <1>0, <3>6 DEF TouchInv
      <4>2. s = sntp
        BY <2>1, <3>3, <4>1, SyncedFacts
      <4>. QED BY <3>2, <4>1, <4>2
    <3>. QED BY <3>5, <3>6
  <2>3. CASE ~counted
    <3>1. UNCHANGED <<sntp, stroke>>
      BY <1>3, <2>3 DEF Channel
    <3>2. stroke.at # None => watch'.edge >= stroke.at
      <4> SUFFICES ASSUME stroke.at # None PROVE watch'.edge >= stroke.at
        OBVIOUS
      <4>. QED BY <1>0, <2>1 DEF TouchInv
    <3>. QED BY <2>1, <3>1, <3>2 DEF TouchInv
  <2>. QED BY <2>2, <2>3
<1>4. CASE Looks
  <2>1. PICK w \in Watches :
          /\ watch' = w /\ w.edge \in {watch.edge, now}
          /\ sntp' = Synced(sntp, w) /\ UNCHANGED <<scene, now, on>>
          /\ stroke' \in {stroke, NoStroke}
          /\ stroke' # NoStroke /\ w.edge # None /\ now - w.edge < RingdownS => Rings(w)
          /\ stroke' # NoStroke => ~(now - stroke.at >= RingdownS)
    BY <1>4, LookIs
  <2>2. CASE stroke'.at = None
    BY <1>0, <2>1, <2>2 DEF TouchInv
  <2>3. CASE stroke'.at # None
    <3>1. stroke' = stroke /\ stroke' # NoStroke /\ stroke.at # None
      BY <1>0, <2>1, <2>3
    <3>2. stroke.at \in 0..now /\ watch.edge >= stroke.at
      BY <3>1 DEF TouchInv
    <3>3. w.edge >= stroke.at /\ w.edge \in Int /\ w.edge # None
      BY <1>0, <2>1, <3>2 DEF None
    <3>4. now - w.edge < RingdownS
      BY <1>0, <2>1, <3>1, <3>2, <3>3
    <3>5. Rings(w) = TRUE
      BY <2>1, <3>1, <3>3, <3>4, WatchFields
    <3>6. stroke.session # 0 => sntp' = sntp
      <4> SUFFICES ASSUME stroke.session # 0 PROVE sntp' = sntp
        OBVIOUS
      <4>1. on /\ sntp.ringing = TRUE
        BY <1>0, <3>1 DEF TouchInv
      <4>. QED BY <2>1, <3>5, <4>1, SyncedFacts
    <3>7. TouchInv'
      BY <1>0, <2>1, <3>1, <3>2, <3>3, <3>6 DEF TouchInv
    <3>. QED BY <3>1, <3>7
  <2>. QED BY <2>2, <2>3
<1>5. CASE Beat
  <2>1. UNCHANGED <<scene, now, watch, on, stroke>> /\ sntp' \in {sntp, Stamped(sntp, Raw(now))}
    BY <1>5 DEF Beat
  <2>2. sntp'.ringing = sntp.ringing /\ sntp'.session = sntp.session
    BY <1>0, <2>1, StampedFacts DEF SessionStays
  <2>. QED BY <1>1, <2>1, <2>2
<1>6. CASE WifiUp
  <2>1. UNCHANGED <<now, watch, stroke>> /\ ~on /\ on'
    BY <1>6 DEF WifiUp
  <2>. QED BY <1>0, <2>1 DEF TouchInv
<1>7. CASE Begin \/ Probe \/ Query
  <2>1. TaskStep(sntp, sntp') /\ UNCHANGED <<scene, now, watch, on, stroke>>
    BY <1>0, <1>7, TaskFacts DEF TaskOnly
  <2>. QED BY <1>1, <2>1 DEF TaskStep, SessionStays
<1>8. ASSUME Edges
      PROVE  /\ TouchInv'
             /\ stroke.at # None /\ stroke.session # 0 => stroke'.session = stroke.session
  BY <1>3, <1>8, EdgeIs
<1>9. CASE Notes
  <2>1. UNCHANGED <<scene, now, watch, on, stroke, sntp>>
    BY <1>9 DEF Notes, Note
  <2>. QED BY <1>1, <2>1
<1>. QED BY <1>0, <1>2, <1>4, <1>5, <1>6, <1>7, <1>8, <1>9, <1>1
         DEF TimeNext, Edges, Notes, Looks, timeVars, TimePasses

\* Strokes less than the ring-down time apart are one session, however the
\* steps are held and whatever the other bells do, once there is a time client
\* (_channel, _sync_ringing; TowerWatch._reduce).
THEOREM TouchesAreSessions == TimeSpec => TouchIsOneSession
<1>1. TimeInit => TimeInv /\ TouchInv
  BY TimeInitInv DEF TimeInit, TouchInv, NoStroke
<1>2. TimeInv /\ TouchInv /\ [TimeNext]_timeVars => (TimeInv /\ TouchInv)'
  BY TimeStep, TouchStep
<1>3. TimeInv /\ TouchInv /\ [TimeNext]_timeVars =>
        (stroke.at # None /\ stroke'.at # None /\ stroke.session # 0 /\ stroke'.session # stroke.session =>
           now - stroke.at >= RingdownS)
  BY TouchStep
<1>. QED BY <1>1, <1>2, <1>3, PTL DEF TimeSpec, TouchIsOneSession

-----------------------------------------------------------------------------
(* Lost MIDI stamps.                                                       *)

\* The strokes lost since the host's last number, fewer than there are
\* numbers, are what the program's number is ahead of it.
StampInv ==
  /\ scene.faults \in Nat /\ scene.faults < SeqMax
  /\ midi.seq \in 0..SeqMax /\ host.seq \in 0..SeqMax
  /\ lost \in 0..scene.faults /\ host.missed \in 0..lost
  /\ midi.seq = LET ahead == host.seq + (lost - host.missed)
                IN  IF ahead <= SeqMax THEN ahead ELSE ahead - SeqMax
  /\ host.fresh => host.missed = lost

LEMMA NumberFacts ==
  ASSUME NEW m, m.seq \in 0..SeqMax
  PROVE  NextSeq(m) = (IF m.seq < SeqMax THEN m.seq + 1 ELSE 1) /\ NextSeq(m) \in 1..SeqMax
<1>1. SeqMax \in Nat /\ SeqMax > 0
  BY StampAssumption
<1>2. m.seq < SeqMax => m.seq % SeqMax = m.seq
  BY <1>1, SmallMod
<1>3. SeqMax % SeqMax = 0
  BY <1>1
<1>4. CASE m.seq < SeqMax
  BY <1>1, <1>2, <1>4 DEF NextSeq
<1>5. CASE m.seq = SeqMax
  BY <1>1, <1>3, <1>5 DEF NextSeq
<1>. QED BY <1>1, <1>4, <1>5

\* A stroke takes its number whether it reaches the host or not.
LEMMA StrokeCounts ==
  ASSUME StampInv, TimeInv, NEW raw, NEW written \in BOOLEAN, written \/ lost < scene.faults,
         MidiStroke(raw, written), UNCHANGED scene
  PROVE  StampInv'
<1> DEFINE n == NextSeq(midi)
           d == lost - host.missed
<1>1. /\ SeqMax \in Nat /\ SeqMax > 0 /\ scene.faults \in Nat /\ scene.faults < SeqMax
      /\ lost \in 0..scene.faults /\ host.missed \in 0..lost /\ host.seq \in 0..SeqMax
      /\ midi.seq \in 0..SeqMax
      /\ midi.seq = IF host.seq + d <= SeqMax THEN host.seq + d ELSE host.seq + d - SeqMax
  BY StampAssumption DEF StampInv
<1>2. n = (IF midi.seq < SeqMax THEN midi.seq + 1 ELSE 1) /\ n \in 1..SeqMax
  BY <1>1, NumberFacts
<1>3. midi'.seq = n
  BY DEF MidiStroke, StrokeStamp
<1>4. CASE written
  <2>1. host' = HostStroke(host, n) /\ lost' = lost
    BY <1>4 DEF MidiStroke
  <2>2. (n - host.seq - 1) % SeqMax = d
    <3>1. d \in Int /\ 0 <= d /\ d < SeqMax
      BY <1>1
    <3> HIDE DEF n, d
    <3>2. n - host.seq - 1 = d \/ n - host.seq - 1 = d - SeqMax
      BY <1>1, <1>2, <3>1
    <3>3. n - host.seq - 1 \in Int
      BY <1>1, <1>2
    <3>4. CASE n - host.seq - 1 = d
      BY <1>1, <3>1, <3>4, SmallMod
    <3>5. CASE n - host.seq - 1 = d - SeqMax
      <4>1. d - SeqMax \in Int /\ -SeqMax <= d - SeqMax /\ d - SeqMax < 0
        BY <1>1, <3>1
      <4>2. (d - SeqMax) % SeqMax = d - SeqMax + SeqMax
        BY <1>1, <4>1, SmallMod
      <4>. QED BY <1>1, <3>1, <3>5, <4>2
    <3>. QED BY <3>2, <3>4, <3>5
  <2> HIDE DEF n
  <2>3. host'.seq = n /\ host'.missed = host.missed + d /\ host'.missed = lost
    BY <1>1, <2>1, <2>2 DEF HostStroke
  <2>. QED BY <1>1, <1>2, <1>3, <2>1, <2>3 DEF StampInv
<1>5. CASE ~written
  <2>1. host' = HostNothing(host) /\ lost' = lost + 1 /\ lost < scene.faults
    BY <1>5 DEF MidiStroke
  <2> HIDE DEF n
  <2>2. host'.seq = host.seq /\ host'.missed = host.missed /\ ~host'.fresh
    BY <2>1 DEF HostNothing
  <2>3. n = IF host.seq + (d + 1) <= SeqMax THEN host.seq + (d + 1) ELSE host.seq + (d + 1) - SeqMax
    BY <1>1, <1>2
  <2>. QED BY <1>1, <1>2, <1>3, <2>1, <2>2, <2>3 DEF StampInv
<1>. QED BY <1>4, <1>5

\* The quiet clock says the number again.
LEMMA QuietCounts ==
  ASSUME StampInv, midi' = ClockStamp(midi, now), host' = HostClock(host, midi.seq),
         UNCHANGED <<scene, lost>>
  PROVE  StampInv'
<1> DEFINE d == lost - host.missed
<1>1. /\ SeqMax \in Nat /\ SeqMax > 0 /\ scene.faults \in Nat /\ scene.faults < SeqMax
      /\ lost \in 0..scene.faults /\ host.missed \in 0..lost /\ host.seq \in 0..SeqMax
      /\ midi.seq \in 0..SeqMax
      /\ midi.seq = IF host.seq + d <= SeqMax THEN host.seq + d ELSE host.seq + d - SeqMax
  BY StampAssumption DEF StampInv
<1>2. (midi.seq - host.seq) % SeqMax = d
  <2>1. d \in Int /\ 0 <= d /\ d < SeqMax
    BY <1>1
  <2> HIDE DEF d
  <2>2. CASE midi.seq - host.seq = d
    BY <1>1, <2>1, <2>2, SmallMod
  <2>3. CASE midi.seq - host.seq = d - SeqMax
    <3>1. d - SeqMax \in Int /\ -SeqMax <= d - SeqMax /\ d - SeqMax < 0
      BY <1>1, <2>1
    <3>2. (d - SeqMax) % SeqMax = d - SeqMax + SeqMax
      BY <1>1, <3>1, SmallMod
    <3>. QED BY <1>1, <2>1, <2>3, <3>2
  <2>. QED BY <1>1, <2>1, <2>2, <2>3
<1>3. midi'.seq = midi.seq
  <2>1. midi' = [midi EXCEPT !.last = now]
    BY DEF ClockStamp
  <2>. QED BY <2>1
<1>4. host'.seq = midi.seq /\ host'.missed = host.missed + d /\ host'.missed = lost
  BY <1>1, <1>2 DEF HostClock
<1>. QED BY <1>1, <1>3, <1>4 DEF StampInv

\* A clock message that is lost tells the host nothing.
LEMMA MissedClock ==
  ASSUME StampInv, midi' = ClockStamp(midi, now), host' = HostNothing(host), UNCHANGED <<scene, lost>>
  PROVE  StampInv'
<1>1. midi' = [midi EXCEPT !.last = now] /\ host' = [host EXCEPT !.fresh = FALSE]
  BY DEF ClockStamp, HostNothing
<1>2. midi'.seq = midi.seq /\ host'.seq = host.seq /\ host'.missed = host.missed /\ ~host'.fresh
  BY <1>1 DEF StampInv
<1>. QED BY <1>2 DEF StampInv

LEMMA StampStep == TimeInv /\ StampInv /\ [TimeNext]_timeVars => StampInv'
<1> SUFFICES ASSUME TimeInv, StampInv, [TimeNext]_timeVars PROVE StampInv'
  OBVIOUS
<1>1. ASSUME UNCHANGED <<scene, midi, host, lost>> PROVE StampInv'
  BY <1>1 DEF StampInv
<1>2. ASSUME NEW b \in scene.heads, NEW at \in (now - Lag)..now, NEW counted \in BOOLEAN,
             NEW written \in BOOLEAN, Edge(b, at, counted, written)
      PROVE  StampInv'
  <2>1. CASE counted /\ scene.midi
    <3>1. MidiStroke(Raw(at), written) /\ (written \/ lost < scene.faults) /\ UNCHANGED scene
      BY <1>2, <2>1 DEF Edge, Channel
    <3>. QED BY <3>1, StrokeCounts
  <2>2. CASE ~(counted /\ scene.midi)
    BY <1>1, <1>2, <2>2 DEF Edge, Channel
  <2>. QED BY <2>1, <2>2
<1>6. CASE Notes
  <2>1. PICK b \in scene.heads, written \in BOOLEAN : Note(b, written)
    BY <1>6 DEF Notes
  <2>2. MidiStroke(Raw(now), written) /\ (written \/ lost < scene.faults) /\ UNCHANGED scene
    BY <2>1 DEF Note
  <2>. QED BY <2>2, StrokeCounts
<1>7. ASSUME NEW b \in scene.heads, NEW counted \in BOOLEAN, Unstamped(b, counted)
      PROVE  StampInv'
  BY <1>1, <1>7 DEF Unstamped, Channel
<1>3. CASE Looks
  <2>1. /\ UNCHANGED <<scene, lost>>
        /\ IF scene.midi /\ ClockDue(midi, now)
           THEN midi' = ClockStamp(midi, now) /\ host' \in {HostClock(host, midi.seq), HostNothing(host)}
           ELSE UNCHANGED <<midi, host>>
    BY <1>3, LookIs
  <2>. QED BY <1>1, <2>1, QuietCounts, MissedClock
<1>4. CASE UNCHANGED timeVars \/ TimePasses \/ Beat \/ WifiUp
  BY <1>1, <1>4 DEF timeVars, TimePasses, Beat, WifiUp
<1>5. CASE Begin \/ Probe \/ Query
  BY <1>1, <1>5 DEF Begin, Probe, Query, TaskOnly
<1>. QED BY <1>2, <1>3, <1>4, <1>5, <1>6, <1>7 DEF TimeNext, Notes, Looks

\* Whenever a stamp has reached the host, it knows how many strokes it missed,
\* for any number of numbers that is not lost in a row (MidiStamp.stroke, clock).
THEOREM MissedStrokesShow == TimeSpec /\ scene.faults < SeqMax => []LostStrokesShow
<1>1. TimeInit /\ scene.faults < SeqMax => TimeInv /\ StampInv
  <2> SUFFICES ASSUME TimeInit, scene.faults < SeqMax PROVE TimeInv /\ StampInv
    OBVIOUS
  <2>1. scene.faults \in Nat /\ SeqMax \in Nat
    BY SceneFacts, StampAssumption DEF TimeInit
  <2>. QED BY <2>1, TimeInitInv DEF TimeInit, StampInv, NewStamps, NewHost
<1>2. TimeInv /\ StampInv /\ [TimeNext]_timeVars => (TimeInv /\ StampInv)'
  BY TimeStep, StampStep
<1>3. StampInv => LostStrokesShow
  BY DEF StampInv, LostStrokesShow
<1>. QED BY <1>1, <1>2, <1>3, PTL DEF TimeSpec

-----------------------------------------------------------------------------
(* Rounding, and a line of the mapping.                                    *)

\* What rounding does, by the quotient and the remainder.
LEMMA Quotient ==
  ASSUME NEW d \in Nat, d > 0, NEW n \in Int, NEW q \in Int, NEW m \in 0..(d - 1), n = d * q + m
  PROVE  n \div d = q /\ n % d = m
<1>1. PICK r \in Int : n = d * r + (n % d) /\ n % d \in 0..(d - 1) /\ r = n \div d
  <2>1. n \div d \in Int /\ n = d * (n \div d) + (n % d) /\ n % d \in 0..(d - 1)
    OBVIOUS
  <2>. QED BY <2>1
<1> DEFINE x == n % d
<1>2. x \in 0..(d - 1) /\ d * r + x = d * q + m
  BY <1>1
<1> HIDE DEF x
<1>3. r < q + 1
  <2>1. ASSUME r >= q + 1 PROVE FALSE
    <3>1. d * r >= d * (q + 1) /\ d * (q + 1) = d * q + d
      BY <2>1
    <3>. QED BY <1>2, <3>1
  <2>. QED BY <2>1
<1>4. q < r + 1
  <2>1. ASSUME q >= r + 1 PROVE FALSE
    <3>1. d * q >= d * (r + 1) /\ d * (r + 1) = d * r + d
      BY <2>1
    <3>. QED BY <1>2, <3>1
  <2>. QED BY <2>1
<1>5. r = q
  BY <1>3, <1>4
<1>. QED BY <1>1, <1>2, <1>5 DEF x

Nearest(q, m, d) == IF 2 * m > d \/ (2 * m = d /\ q % 2 = 1) THEN q + 1 ELSE q

LEMMA RoundedIs ==
  ASSUME NEW d \in Nat, d > 0, NEW n \in Int, NEW q \in Int, NEW m \in 0..(d - 1), n = d * q + m
  PROVE  /\ Rounded(n, d) = Nearest(q, m, d)
         /\ Rounded(n, d) \in Int /\ q <= Rounded(n, d) /\ Rounded(n, d) <= q + 1
<1>1. n \div d = q /\ n % d = m
  BY Quotient
<1>. QED BY <1>1 DEF Rounded, Nearest

LEMMA RoundedType ==
  ASSUME NEW d \in Nat, d > 0, NEW n \in Int
  PROVE  Rounded(n, d) \in Int
<1>1. PICK q \in Int : n = d * q + (n % d) /\ n % d \in 0..(d - 1)
  BY DivMod
<1>. QED BY <1>1, RoundedIs

\* It keeps the order.
LEMMA RoundedRises ==
  ASSUME NEW d \in Nat, d > 0, NEW a \in Int, NEW b \in Int, a <= b
  PROVE  Rounded(a, d) <= Rounded(b, d)
<1>1. PICK q \in Int : a = d * q + (a % d) /\ a % d \in 0..(d - 1)
  BY DivMod
<1>2. PICK r \in Int : b = d * r + (b % d) /\ b % d \in 0..(d - 1)
  BY DivMod
<1> DEFINE x == a % d
           y == b % d
<1>3. x \in 0..(d - 1) /\ y \in 0..(d - 1) /\ a = d * q + x /\ b = d * r + y
  BY <1>1, <1>2
<1> HIDE DEF x, y
<1>4. /\ Rounded(a, d) = Nearest(q, x, d)
      /\ Rounded(a, d) \in Int /\ Rounded(a, d) <= q + 1
  BY <1>3, RoundedIs
<1>5. /\ Rounded(b, d) = Nearest(r, y, d)
      /\ Rounded(b, d) \in Int /\ r <= Rounded(b, d)
  BY <1>3, RoundedIs
<1>6. q <= r
  <2>1. ASSUME q >= r + 1 PROVE FALSE
    <3>1. d * q >= d * (r + 1) /\ d * (r + 1) = d * r + d
      BY <2>1
    <3>. QED BY <1>3, <3>1
  <2>. QED BY <2>1
<1>7. CASE q = r
  <2>1. x <= y
    BY <1>3, <1>7
  <2>2. 2 * x <= 2 * y
    BY <1>3, <2>1
  <2>. QED BY <1>3, <1>4, <1>5, <1>7, <2>2 DEF Nearest
<1>8. CASE q < r
  BY <1>4, <1>5, <1>8
<1>. QED BY <1>6, <1>7, <1>8

\* A number k whole parts smaller, and at least a little larger than that, is
\* at most k smaller when rounded; on a tie it may be k + 1.
LEMMA RoundedFalls ==
  ASSUME NEW d \in Nat, d > 0, NEW n \in Int, NEW k \in Int, NEW w \in Int,
         w = (n - d * k) + 1
  PROVE  Rounded(n, d) - k <= Rounded(w, d)
<1>1. PICK q \in Int : n = d * q + (n % d) /\ n % d \in 0..(d - 1)
  BY DivMod
<1> DEFINE m == n % d
<1>2. m \in 0..(d - 1) /\ n = d * q + m
  BY <1>1
<1> HIDE DEF m
<1>3. /\ Rounded(n, d) = Nearest(q, m, d)
      /\ Rounded(n, d) \in Int /\ Rounded(n, d) <= q + 1
  BY <1>2, RoundedIs
<1>4. PICK l \in Int : w = d * l + m + 1 /\ q - k = l
  <2>1. q - k \in Int /\ d * (q - k) = d * q - d * k
    OBVIOUS
  <2>. QED BY <1>2, <2>1
<1>5. CASE m + 1 < d
  <2>1. PICK h \in 0..(d - 1) : w = d * l + h /\ h = m + 1
    BY <1>2, <1>4, <1>5
  <2>2. /\ Rounded(w, d) = Nearest(l, h, d)
        /\ Rounded(w, d) \in Int
    BY <2>1, RoundedIs
  <2>. QED BY <1>2, <1>3, <1>4, <2>1, <2>2 DEF Nearest
<1>6. CASE m + 1 = d
  <2>1. 0 \in 0..(d - 1) /\ l + 1 \in Int /\ w = d * (l + 1) + 0
    <3>1. d * (l + 1) = d * l + d
      BY <1>4
    <3>. QED BY <1>2, <1>4, <1>6, <3>1
  <2>2. Rounded(w, d) \in Int /\ l + 1 <= Rounded(w, d)
    BY <1>4, <2>1, RoundedIs
  <2>. QED BY <1>3, <1>4, <2>2
<1>. QED BY <1>2, <1>5, <1>6

\* A piece of the mapping, of a rate above -1.
Pieces == [t0 : Int, u0 : Int, dr : {dr \in Int : dr > -Rate}]

LEMMA RateFacts ==
  /\ Rate \in Nat /\ Rate > 0 /\ Slew \in Nat /\ Slew > 0 /\ StepMs \in Nat
  /\ MaxSegs \in Nat /\ MaxSegs > 1 /\ RttHist \in Nat
  /\ 0 \in Drifts
  /\ \A dr \in Drifts : /\ dr \in Int /\ dr + Slew \in Int /\ dr - Slew \in Int
                        /\ dr > -Rate /\ dr - Slew > -Rate /\ dr + Slew > -Rate
BY SntpAssumption

LEMMA LineType ==
  ASSUME NEW p \in Pieces, NEW t \in Int
  PROVE  /\ Line(p, t) \in Int /\ Line(p, p.t0) = p.u0
         /\ p.t0 \in Int /\ p.u0 \in Int /\ p.dr \in Int
<1>1. p.t0 \in Int /\ p.u0 \in Int /\ p.dr \in Int
  BY DEF Pieces
<1>2. (t - p.t0) * p.dr \in Int /\ (p.t0 - p.t0) * p.dr = 0
  BY <1>1
<1>3. Rounded((t - p.t0) * p.dr, Rate) \in Int
  BY <1>2, RateFacts, RoundedType
<1>4. Rounded(0, Rate) = 0
  <2>1. 0 = Rate * 0 + 0 /\ 0 \in 0..(Rate - 1)
    BY RateFacts
  <2>2. Rounded(0, Rate) = Nearest(0, 0, Rate)
    BY <2>1, RateFacts, RoundedIs
  <2>. QED BY <2>2, RateFacts DEF Nearest
<1>. QED BY <1>1, <1>2, <1>3, <1>4 DEF Line

\* No line of the mapping ever falls: with every tick it gains one, and what
\* its rate takes back is less than that, however round() rounds it (_issued).
THEOREM LineRises ==
  ASSUME NEW p \in Pieces, NEW t \in Int, NEW v \in Int, t <= v
  PROVE  Line(p, t) <= Line(p, v)
<1>1. /\ p.t0 \in Int /\ p.u0 \in Int /\ p.dr \in Int /\ p.dr >= 1 - Rate
      /\ Rate \in Nat /\ Rate > 0
  BY RateFacts DEF Pieces
<1> DEFINE k == v - t
           x == (t - p.t0) * p.dr
           y == (v - p.t0) * p.dr
<1>2. CASE k = 0
  <2>1. t = v
    BY <1>2
  <2>. QED BY <2>1, LineType
<1>3. CASE k >= 1
  <2>0. k \in Nat /\ x \in Int /\ y \in Int
    BY <1>1, <1>3
  <2>1. y = x + k * p.dr
    BY <1>1
  <2>2. k * p.dr >= k * (1 - Rate) /\ k * (1 - Rate) = k - Rate * k
    BY <1>1, <2>0
  <2>2a. Rate * k \in Int /\ k * p.dr \in Int
    BY <1>1, <2>0
  <2>3. (x - Rate * k) + 1 <= y /\ (x - Rate * k) + 1 \in Int
    <3> HIDE DEF x, y, k
    <3>. QED BY <1>3, <2>0, <2>1, <2>2, <2>2a
  <2> DEFINE z == (x - Rate * k) + 1
             rx == Rounded(x, Rate)
             ry == Rounded(y, Rate)
             rz == Rounded(z, Rate)
  <2>4. rx - k <= rz
    <3>1. z \in Int /\ z = (x - Rate * k) + 1 /\ k \in Int /\ x \in Int /\ Rate \in Nat /\ Rate > 0
      BY <1>1, <2>0, <2>3
    <3> HIDE DEF x, k, z
    <3>. QED BY <3>1, RoundedFalls
  <2>5. rz <= ry
    <3>1. z <= y /\ z \in Int
      BY <2>3
    <3> HIDE DEF y, z
    <3>. QED BY <1>1, <2>0, <3>1, RoundedRises
  <2>6. rx \in Int /\ ry \in Int /\ rz \in Int
    <3>1. z \in Int
      BY <2>3
    <3> HIDE DEF x, y, z
    <3>. QED BY <1>1, <2>0, <3>1, RoundedType
  <2>7. Line(p, t) = p.u0 + (t - p.t0) + rx /\ Line(p, v) = p.u0 + (v - p.t0) + ry
    BY DEF Line
  <2> HIDE DEF rx, ry, rz
  <2>. QED BY <1>1, <2>4, <2>5, <2>6, <2>7
<1>. QED BY <1>2, <1>3
-----------------------------------------------------------------------------
(* The issued mapping.                                                     *)

\* Pieces in order.  A client keeps at most MaxSegs of them, and only the last
\* may still be to come: the end of a slew.
InOrder(segs) == \A i \in 1..Len(segs) : \A j \in 1..Len(segs) : i <= j => segs[i].t0 <= segs[j].t0

IsMap(segs, top) ==
  /\ segs \in Seq(Pieces) /\ Len(segs) <= MaxSegs /\ InOrder(segs)
  /\ \A i \in 1..Len(segs) : i = 1 \/ i < Len(segs) => segs[i].t0 <= top

\* The UTC of a tick.
Value(segs, t) == Line(PieceAt(segs, t), t)

\* Piece n is the one of a tick.
Within(segs, t, n) ==
  /\ n \in 1..Len(segs) /\ segs[n].t0 <= t
  /\ \A j \in 1..Len(segs) : n < j => segs[j].t0 > t

LEMMA SomePieces ==
  ASSUME NEW segs \in Seq(Pieces)
  PROVE  /\ Len(segs) \in Nat /\ DOMAIN segs = 1..Len(segs) /\ (segs # <<>> => Len(segs) >= 1)
         /\ \A i \in 1..Len(segs) : segs[i] \in Pieces /\ segs[i].t0 \in Int /\ segs[i].u0 \in Int
<1>1. Len(segs) \in Nat /\ DOMAIN segs = 1..Len(segs) /\ (segs # <<>> => Len(segs) >= 1)
  OBVIOUS
<1>2. \A i \in 1..Len(segs) : segs[i] \in Pieces
  OBVIOUS
<1>3. \A q \in Pieces : q.t0 \in Int /\ q.u0 \in Int
  BY DEF Pieces
<1>. QED BY <1>1, <1>2, <1>3

LEMMA PieceFacts ==
  ASSUME NEW segs \in Seq(Pieces), NEW t \in Int
  PROVE  /\ \A n : Within(segs, t, n) => PieceAt(segs, t) = segs[n]
         /\ InOrder(segs) /\ segs # <<>> /\ t < segs[1].t0 => PieceAt(segs, t) = segs[1]
<1> DEFINE begun == {i \in DOMAIN segs : segs[i].t0 <= t}
<1>1. Len(segs) \in Nat /\ DOMAIN segs = 1..Len(segs) /\ \A i \in 1..Len(segs) : segs[i].t0 \in Int
  BY SomePieces
<1>2. PieceAt(segs, t) = IF begun = {} THEN segs[1] ELSE segs[CHOOSE i \in begun : \A j \in begun : j <= i]
  BY DEF PieceAt
<1>3. begun \subseteq 1..Len(segs)
  BY <1>1
<1>4. ASSUME NEW n, Within(segs, t, n) PROVE PieceAt(segs, t) = segs[n]
  <2>1. n \in begun /\ \A j \in begun : j <= n
    BY <1>1, <1>4 DEF Within
  <2> HIDE DEF begun
  <2> DEFINE c == CHOOSE i \in begun : \A j \in begun : j <= i
  <2>2. c \in begun /\ \A j \in begun : j <= c
    BY <2>1
  <2> HIDE DEF c
  <2>3. c = n
    BY <1>1, <1>3, <2>1, <2>2
  <2>. QED BY <1>2, <2>1, <2>3 DEF c
<1>5. ASSUME InOrder(segs), segs # <<>>, t < segs[1].t0 PROVE PieceAt(segs, t) = segs[1]
  <2>1. 1 \in 1..Len(segs)
    BY <1>1, <1>5
  <2>2. \A i \in 1..Len(segs) : segs[1].t0 <= segs[i].t0
    BY <1>5, <2>1 DEF InOrder
  <2>3. begun = {}
    BY <1>1, <1>5, <2>1, <2>2
  <2>. QED BY <1>2, <2>3
<1>. QED BY <1>4, <1>5

\* From the first piece on, a tick is in one.
LEMMA PieceFound ==
  ASSUME NEW segs \in Seq(Pieces), segs # <<>>, NEW t \in Int, segs[1].t0 <= t
  PROVE  \E n : Within(segs, t, n)
<1>1. Len(segs) \in Nat /\ Len(segs) >= 1 /\ \A i \in 1..Len(segs) : segs[i].t0 \in Int
  BY SomePieces
<1> DEFINE S == {Len(segs) - i : i \in {j \in 1..Len(segs) : segs[j].t0 <= t}}
<1>2. S \subseteq Nat /\ Len(segs) - 1 \in S
  BY <1>1
<1>3. PICK m \in S : \A k \in S : m <= k
  <2> HIDE DEF S
  <2>1. S # {}
    BY <1>2
  <2>. QED BY <1>2, <2>1, LeastNatural
<1>4. PICK n \in 1..Len(segs) : m = Len(segs) - n /\ segs[n].t0 <= t
  BY <1>3
<1>5. ASSUME NEW j \in 1..Len(segs), n < j PROVE segs[j].t0 > t
  <2>1. ASSUME segs[j].t0 <= t PROVE FALSE
    <3>1. Len(segs) - j \in S
      BY <2>1
    <3>2. m <= Len(segs) - j
      BY <1>3, <3>1
    <3>. QED BY <1>1, <1>4, <1>5, <3>2
  <2>. QED BY <1>1, <2>1
<1>. QED BY <1>4, <1>5 DEF Within

LEMMA ValueType ==
  ASSUME NEW segs \in Seq(Pieces), segs # <<>>, InOrder(segs), NEW t \in Int
  PROVE  PieceAt(segs, t) \in Pieces /\ Value(segs, t) \in Int
<1>1. Len(segs) \in Nat /\ Len(segs) >= 1 /\ \A i \in 1..Len(segs) : segs[i] \in Pieces /\ segs[i].t0 \in Int
  BY SomePieces
<1>2. PieceAt(segs, t) \in Pieces
  <2>1. CASE t < segs[1].t0
    BY <1>1, <2>1, PieceFacts
  <2>2. CASE ~(t < segs[1].t0)
    <3>1. segs[1].t0 <= t
      BY <1>1, <2>2
    <3>2. PICK n : Within(segs, t, n)
      BY <3>1, PieceFound
    <3>3. PieceAt(segs, t) = segs[n] /\ n \in 1..Len(segs)
      BY <3>2, PieceFacts DEF Within
    <3>. QED BY <1>1, <3>3
  <2>. QED BY <2>1, <2>2
<1>. QED BY <1>2, LineType DEF Value

\* The ticks whose UTC is still what it was made: once there are MaxSegs
\* pieces older ones may have gone, and the mapping before the first is lost.
Known(segs) == {t \in Int : Len(segs) < MaxSegs \/ segs[1].t0 <= t}

Rising(segs) ==
  segs # <<>> => \A t \in Known(segs) : \A v \in Known(segs) : t <= v => Value(segs, t) <= Value(segs, v)

\* One more piece, or two, from a tick on.
IsEnd(tail, top) ==
  /\ tail \in Seq(Pieces) /\ Len(tail) \in 1..2 /\ tail[1].t0 = top
  /\ Len(tail) = 2 => top <= tail[2].t0

\* The first n pieces of a mapping and a new end.
Joins(r, segs, n, tail, top) ==
  /\ r \in Seq(Pieces) /\ InOrder(r) /\ Len(r) = n + Len(tail) /\ n >= 1 /\ n >= Len(segs) - 1
  /\ r[1] = segs[1] /\ r[n + 1].t0 = top
  /\ \A i \in 1..Len(r) : i < Len(r) => r[i].t0 <= top
  /\ \A t \in Int : t < top => Value(r, t) = Value(segs, t)
  /\ \A t \in Int : t >= top => Value(r, t) = Value(tail, t)

LEMMA JoinFacts ==
  ASSUME NEW segs, NEW top \in Int, IsMap(segs, top), segs # <<>>, NEW tail, IsEnd(tail, top),
         NEW n \in 0..Len(segs), NEW kept \in Seq(Pieces), Len(kept) = n, \A i \in 1..n : kept[i] = segs[i],
         \A i \in 1..Len(segs) : segs[i].t0 <= top <=> i <= n
  PROVE  Joins(kept \o tail, segs, n, tail, top)
<1> DEFINE r == kept \o tail
           L == Len(segs)
           e == Len(tail)
<1>1. /\ segs \in Seq(Pieces) /\ L \in Nat /\ L >= 1 /\ InOrder(segs)
      /\ \A i \in 1..L : segs[i].t0 \in Int /\ (i = 1 \/ i < L => segs[i].t0 <= top)
  BY SomePieces DEF IsMap
<1>2. /\ tail \in Seq(Pieces) /\ e \in 1..2 /\ tail[1].t0 = top /\ (e = 2 => top <= tail[2].t0)
      /\ \A i \in 1..e : tail[i].t0 \in Int /\ top <= tail[i].t0
  <2>1. \A i \in 1..e : tail[i].t0 \in Int
    BY SomePieces DEF IsEnd
  <2>2. \A i \in 1..e : i = 1 \/ (i = 2 /\ e = 2)
    <3>1. e \in 1..2
      BY DEF IsEnd
    <3> HIDE DEF e
    <3>. QED BY <3>1
  <2>. QED BY <2>1, <2>2 DEF IsEnd
<1>3. n >= 1 /\ n >= L - 1 /\ n \in Nat /\ n <= L
  <2>1. 1 <= n
    BY <1>1
  <2>2. L > 1 => L - 1 <= n
    BY <1>1
  <2>. QED BY <1>1, <2>1, <2>2
<1>4. /\ r \in Seq(Pieces) /\ Len(r) = n + e
      /\ \A i \in 1..n : r[i] = segs[i]
      /\ \A i \in 1..e : r[n + i] = tail[i]
  <2>1. /\ r \in Seq(Pieces) /\ Len(r) = Len(kept) + Len(tail)
        /\ \A i \in 1..Len(r) : r[i] = IF i <= Len(kept) THEN kept[i] ELSE tail[i - Len(kept)]
    <3>1. kept \in Seq(Pieces) /\ tail \in Seq(Pieces)
      BY <1>2
    <3>2. /\ kept \o tail \in Seq(Pieces) /\ Len(kept \o tail) = Len(kept) + Len(tail)
          /\ \A i \in 1..(Len(kept) + Len(tail)) :
               (kept \o tail)[i] = IF i <= Len(kept) THEN kept[i] ELSE tail[i - Len(kept)]
      BY <3>1, ConcatProperties, Zenon
    <3>. QED BY <3>2
  <2>2. ASSUME NEW i \in 1..n PROVE r[i] = segs[i]
    BY <1>2, <1>3, <2>1
  <2>3. ASSUME NEW i \in 1..e PROVE r[n + i] = tail[i]
    <3>1. n + i \in 1..Len(r) /\ ~(n + i <= n) /\ (n + i) - n = i
      BY <1>2, <1>3, <2>1
    <3>. QED BY <2>1, <3>1
  <2> HIDE DEF r
  <2>. QED BY <2>1, <2>2, <2>3
<1> HIDE DEF r, e, L
<1>5. \A i \in 1..Len(r) : i \in 1..n \/ \E j \in 1..e : i = n + j /\ r[i] = tail[j]
  <2> SUFFICES ASSUME NEW i \in 1..Len(r), i \notin 1..n PROVE \E j \in 1..e : i = n + j /\ r[i] = tail[j]
    OBVIOUS
  <2>1. i - n \in 1..e /\ i = n + (i - n)
    BY <1>2, <1>3, <1>4
  <2>. QED BY <1>4, <2>1
<1>6. \A i \in 1..n : i \in 1..L /\ r[i] = segs[i] /\ r[i].t0 <= top /\ r[i].t0 \in Int
  BY <1>1, <1>3, <1>4 DEF L
<1>7. \A i \in 1..Len(r) : i > n => r[i].t0 >= top /\ r[i].t0 \in Int
  <2> SUFFICES ASSUME NEW i \in 1..Len(r), i > n PROVE r[i].t0 >= top /\ r[i].t0 \in Int
    OBVIOUS
  <2>1. PICK j \in 1..e : i = n + j /\ r[i] = tail[j]
    BY <1>3, <1>5
  <2>. QED BY <1>2, <2>1
<1>8. InOrder(r)
  <2> SUFFICES ASSUME NEW i \in 1..Len(r), NEW j \in 1..Len(r), i <= j PROVE r[i].t0 <= r[j].t0
    BY DEF InOrder
  <2>1. CASE j \in 1..n
    <3>1. i \in 1..n
      BY <1>3, <2>1
    <3>. QED BY <1>1, <1>6, <2>1, <3>1 DEF InOrder, L
  <2>2. CASE j > n /\ i \in 1..n
    BY <1>6, <1>7, <2>2, SMTT(20)
  <2>3. CASE j > n /\ i > n
    <3>1. PICK x \in 1..e : i = n + x /\ r[i] = tail[x]
      BY <1>3, <1>5, <2>3, SMTT(20)
    <3>2. PICK y \in 1..e : j = n + y /\ r[j] = tail[y]
      BY <1>3, <1>5, <2>3, SMTT(20)
    <3>3. x <= y
      BY <1>3, <3>1, <3>2
    <3>4. x = y \/ (x = 1 /\ y = 2 /\ e = 2)
      BY <1>2, <3>3
    <3>. QED BY <1>2, <3>1, <3>2, <3>4
  <2>. QED BY <1>3, <1>4, <2>1, <2>2, <2>3
<1>9. r[1] = segs[1] /\ r[n + 1].t0 = top /\ n + 1 \in 1..Len(r)
  <2>1. 1 \in 1..n /\ 1 \in 1..e
    BY <1>2, <1>3
  <2>. QED BY <1>2, <1>3, <1>4, <2>1
<1>10. ASSUME NEW i \in 1..Len(r), i < Len(r) PROVE r[i].t0 <= top
  <2>1. CASE i \in 1..n
    BY <1>6, <2>1
  <2>2. CASE i \notin 1..n
    <3>1. i = n + 1
      BY <1>2, <1>3, <1>4, <1>10, <2>2
    <3>. QED BY <1>9, <3>1
  <2>. QED BY <2>1, <2>2
<1>11. ASSUME NEW t \in Int, t < top PROVE Value(r, t) = Value(segs, t)
  <2>1. CASE t < segs[1].t0
    <3>1. r # <<>> /\ t < r[1].t0
      BY <1>3, <1>4, <1>9, <2>1
    <3>2. PieceAt(r, t) = r[1]
      BY <1>4, <1>8, <3>1, PieceFacts
    <3>3. PieceAt(segs, t) = segs[1]
      BY <1>1, <2>1, PieceFacts
    <3>. QED BY <1>9, <3>2, <3>3 DEF Value
  <2>2. CASE ~(t < segs[1].t0)
    <3>1. segs[1].t0 <= t
      BY <1>1, <2>2
    <3>2. PICK m : Within(segs, t, m)
      BY <1>1, <3>1, PieceFound
    <3>3. m \in 1..n /\ segs[m].t0 <= t
      <4>1. m \in 1..L /\ segs[m].t0 <= t /\ segs[m].t0 \in Int
        BY <1>1, <3>2 DEF Within, L
      <4>2. segs[m].t0 <= top
        BY <1>11, <4>1
      <4>. QED BY <1>3, <4>1, <4>2 DEF L
    <3>4. ASSUME NEW j \in 1..Len(r), m < j PROVE r[j].t0 > t
      <4>1. CASE j \in 1..n
        <5>1. j \in 1..Len(segs) /\ r[j] = segs[j]
          BY <1>6, <4>1 DEF L
        <5>. QED BY <3>2, <3>4, <5>1 DEF Within
      <4>2. CASE j \notin 1..n
        <5>1. r[j].t0 >= top /\ r[j].t0 \in Int
          BY <1>3, <1>7, <4>2
        <5>. QED BY <1>11, <5>1
      <4>. QED BY <4>1, <4>2
    <3>5. Within(r, t, m)
      <4>1. m \in 1..Len(r) /\ r[m].t0 <= t
        BY <1>2, <1>3, <1>4, <3>3
      <4>. QED BY <3>4, <4>1 DEF Within
    <3>6. PieceAt(r, t) = r[m] /\ PieceAt(segs, t) = segs[m] /\ r[m] = segs[m]
      BY <1>1, <1>4, <3>2, <3>3, <3>5, PieceFacts
    <3>. QED BY <3>6 DEF Value
  <2>. QED BY <2>1, <2>2
<1>12. ASSUME NEW t \in Int, t >= top PROVE Value(r, t) = Value(tail, t)
  <2>1. tail # <<>> /\ tail[1].t0 <= t
    BY <1>2, <1>12 DEF e
  <2>2. PICK m : Within(tail, t, m)
    BY <1>2, <2>1, PieceFound
  <2>3. m \in 1..e /\ tail[m].t0 <= t
    BY <2>2 DEF Within, e
  <2>4. ASSUME NEW j \in 1..Len(r), n + m < j PROVE r[j].t0 > t
    <3>1. PICK x \in 1..e : j = n + x /\ r[j] = tail[x]
      BY <1>3, <1>5, <2>3, <2>4
    <3>2. m < x /\ x \in 1..Len(tail)
      BY <1>3, <2>3, <2>4, <3>1 DEF e
    <3>. QED BY <2>2, <3>1, <3>2 DEF Within
  <2>5. Within(r, t, n + m)
    <3>1. n + m \in 1..Len(r) /\ r[n + m].t0 <= t
      BY <1>2, <1>3, <1>4, <2>3
    <3>. QED BY <2>4, <3>1 DEF Within
  <2>6. PieceAt(r, t) = r[n + m] /\ PieceAt(tail, t) = tail[m] /\ r[n + m] = tail[m]
    BY <1>2, <1>4, <2>2, <2>3, <2>5, PieceFacts, SMTT(30)
  <2>. QED BY <2>6 DEF Value
<1>13. Joins(r, segs, n, tail, top)
  BY <1>3, <1>4, <1>8, <1>9, <1>10, <1>11, <1>12 DEF e, L, Joins
<1>. QED BY <1>13 DEF r

LEMMA NewestFacts ==
  ASSUME NEW segs \in Seq(Pieces), NEW m \in Nat, m > 0
  PROVE  \E k \in 0..Len(segs) :
           /\ Newest(segs, m) = SubSeq(segs, k + 1, Len(segs))
           /\ Len(segs) > m => k = Len(segs) - m
           /\ Len(segs) <= m => k = 0
<1> DEFINE k == IF Len(segs) > m THEN Len(segs) - m ELSE 0
<1>1. Len(segs) \in Nat
  OBVIOUS
<1>2. k \in 0..Len(segs) /\ k + 1 = IF Len(segs) > m THEN Len(segs) - m + 1 ELSE 1
  BY <1>1
<1>3. (Len(segs) > m => k = Len(segs) - m) /\ (Len(segs) <= m => k = 0)
  BY <1>1
<1> HIDE DEF k
<1>4. Newest(segs, m) = SubSeq(segs, k + 1, Len(segs))
  BY <1>2 DEF Newest
<1>. QED BY <1>2, <1>3, <1>4

\* The newest pieces: what is left of the mapping is as it was.
LEMMA CutFacts ==
  ASSUME NEW segs \in Seq(Pieces), InOrder(segs), Len(segs) >= 2, NEW r, r = Newest(segs, MaxSegs)
  PROVE  /\ r \in Seq(Pieces) /\ InOrder(r) /\ Len(r) <= MaxSegs /\ Len(r) <= Len(segs) /\ Len(r) >= 2
         /\ Len(r) < MaxSegs => r = segs
         /\ segs[1].t0 <= r[1].t0 /\ r[Len(r) - 1] = segs[Len(segs) - 1]
         /\ \A i \in 1..Len(r) : i < Len(r) => \E j \in 1..Len(segs) : j < Len(segs) /\ r[i] = segs[j]
         /\ \A t \in Known(r) : Value(r, t) = Value(segs, t)
<1>0. MaxSegs \in Nat /\ MaxSegs > 0 /\ MaxSegs > 1 /\ Len(segs) \in Nat /\ \A i \in 1..Len(segs) : segs[i].t0 \in Int
  BY RateFacts, SomePieces
<1>1. PICK k \in 0..Len(segs) : /\ r = SubSeq(segs, k + 1, Len(segs))
                                /\ Len(segs) > MaxSegs => k = Len(segs) - MaxSegs
                                /\ Len(segs) <= MaxSegs => k = 0
  BY <1>0, NewestFacts
<1>2. /\ r \in Seq(Pieces) /\ Len(r) = Len(segs) - k
      /\ \A i \in 1..Len(r) : r[i] = segs[i + k] /\ i + k \in 1..Len(segs)
  <2>1. LET q == SubSeq(segs, k + 1, Len(segs)) IN
        /\ q \in Seq(Pieces) /\ Len(q) = Len(segs) - k
        /\ \A i \in 1..Len(q) : q[i] = segs[i + k] /\ i + k \in 1..Len(segs)
    BY SuffixFacts
  <2>. QED BY <1>1, <2>1
<1>3. Len(r) \in Nat /\ Len(r) >= 2 /\ Len(r) <= MaxSegs /\ k \in Nat /\ Len(r) <= Len(segs)
  BY <1>0, <1>1, <1>2
<1>4. ASSUME k = 0 PROVE r = segs
  <2>1. Len(r) = Len(segs) /\ \A i \in 1..Len(segs) : r[i] = segs[i]
    BY <1>0, <1>2, <1>4
  <2>. QED BY <1>2, <2>1, SeqEqual
<1>5. Len(r) < MaxSegs => k = 0
  BY <1>0, <1>1, <1>2
<1>6. InOrder(r)
  <2> SUFFICES ASSUME NEW i \in 1..Len(r), NEW j \in 1..Len(r), i <= j PROVE r[i].t0 <= r[j].t0
    BY DEF InOrder
  <2>1. i + k <= j + k /\ i + k \in 1..Len(segs) /\ j + k \in 1..Len(segs)
    BY <1>2, <1>3
  <2>. QED BY <1>2, <2>1 DEF InOrder
<1>7. segs[1].t0 <= r[1].t0
  <2>1. 1 \in 1..Len(r) /\ 1 \in 1..Len(segs)
    BY <1>0, <1>3
  <2>2. r[1] = segs[1 + k] /\ 1 + k \in 1..Len(segs) /\ 1 <= 1 + k
    BY <1>2, <1>3, <2>1
  <2>. QED BY <2>1, <2>2 DEF InOrder
<1>8. r[Len(r) - 1] = segs[Len(segs) - 1]
  <2>1. Len(r) - 1 \in 1..Len(r) /\ (Len(r) - 1) + k = Len(segs) - 1
    BY <1>0, <1>2, <1>3
  <2>. QED BY <1>2, <2>1
<1>9. ASSUME NEW i \in 1..Len(r), i < Len(r)
      PROVE  \E j \in 1..Len(segs) : j < Len(segs) /\ r[i] = segs[j]
  <2>1. i + k \in 1..Len(segs) /\ i + k < Len(segs)
    BY <1>0, <1>2, <1>3, <1>9
  <2>. QED BY <1>2, <2>1
<1>10. ASSUME NEW t \in Known(r) PROVE Value(r, t) = Value(segs, t)
  <2>1. t \in Int /\ (k = 0 \/ r[1].t0 <= t)
    BY <1>5 DEF Known
  <2>2. CASE k = 0
    BY <1>4, <2>2
  <2>3. CASE r[1].t0 <= t
    <3>1. r # <<>>
      BY <1>3
    <3>2. PICK m : Within(r, t, m)
      BY <1>2, <2>1, <2>3, <3>1, PieceFound
    <3>3. m \in 1..Len(r) /\ r[m].t0 <= t /\ \A j \in 1..Len(r) : m < j => r[j].t0 > t
      BY <3>2 DEF Within
    <3>4. m + k \in 1..Len(segs) /\ r[m] = segs[m + k]
      BY <1>2, <3>3
    <3>5. ASSUME NEW j \in 1..Len(segs), m + k < j PROVE segs[j].t0 > t
      <4>1. j - k \in 1..Len(r) /\ m < j - k /\ (j - k) + k = j
        BY <1>0, <1>2, <1>3, <3>3, <3>5
      <4>2. r[j - k] = segs[j]
        BY <1>2, <4>1
      <4>. QED BY <3>3, <4>1, <4>2
    <3>6. Within(segs, t, m + k)
      BY <3>3, <3>4, <3>5 DEF Within
    <3>7. PieceAt(segs, t) = segs[m + k] /\ PieceAt(r, t) = r[m]
      BY <1>2, <2>1, <3>2, <3>6, PieceFacts
    <3>. QED BY <3>4, <3>7 DEF Value
  <2>. QED BY <2>1, <2>2, <2>3
<1>. QED BY <1>2, <1>3, <1>4, <1>5, <1>6, <1>7, <1>8, <1>9, <1>10

\* A mapping is continued: before now it stays what it was, from now on it is
\* the new end.
LEMMA ContinuedFacts ==
  ASSUME NEW s, NEW top \in Int, IsMap(s.segs, top), s.segs # <<>>, NEW tail, IsEnd(tail, top),
         NEW r, r = Continued(s, top, tail)
  PROVE  /\ IsMap(r, top) /\ r # <<>> /\ Known(r) \subseteq Known(s.segs)
         /\ \A t \in Known(r) : t < top => Value(r, t) = Value(s.segs, t)
         /\ \A t \in Int : t >= top => t \in Known(r) /\ t \in Known(s.segs) /\ Value(r, t) = Value(tail, t)
<1> DEFINE segs == s.segs
           past == {p \in {segs[i] : i \in DOMAIN segs} : p.t0 <= top}
           kept == Keeping(segs, past)
           joined == kept \o tail
           L == Len(segs)
<1>0. MaxSegs \in Nat /\ MaxSegs > 1
  BY RateFacts
<1>1. /\ segs \in Seq(Pieces) /\ L \in Nat /\ L >= 1 /\ L <= MaxSegs /\ InOrder(segs) /\ DOMAIN segs = 1..L
      /\ \A i \in 1..L : segs[i].t0 \in Int /\ (i = 1 \/ i < L => segs[i].t0 <= top)
  BY SomePieces DEF IsMap
<1>2. r = Newest(joined, MaxSegs)
  BY DEF Continued
<1>3. \A i \in 1..L : segs[i] \in past <=> segs[i].t0 <= top
  BY <1>1
<1> DEFINE n == IF segs[L].t0 <= top THEN L ELSE L - 1
<1>4. n \in 0..L /\ \A i \in 1..L : segs[i].t0 <= top <=> i <= n
  <2> HIDE DEF segs, L
  <2>. QED BY <1>1
<1> HIDE DEF past, n
<1>5. kept \in Seq(Pieces) /\ Len(kept) = n /\ \A i \in 1..n : kept[i] = segs[i]
  <2>1. \A i \in 1..L : segs[i] \in past <=> i <= n
    BY <1>3, <1>4
  <2> HIDE DEF segs
  <2>. QED BY <1>1, <1>4, <2>1, KeepingFront
<1> HIDE DEF kept
<1>6. /\ joined \in Seq(Pieces) /\ InOrder(joined) /\ Len(joined) = n + Len(tail) /\ n >= 1 /\ n >= L - 1
      /\ joined[1] = segs[1] /\ joined[n + 1].t0 = top
      /\ \A i \in 1..Len(joined) : i < Len(joined) => joined[i].t0 <= top
      /\ \A t \in Int : t < top => Value(joined, t) = Value(segs, t)
      /\ \A t \in Int : t >= top => Value(joined, t) = Value(tail, t)
  <2>1. IsMap(segs, top) /\ segs # <<>>
    OBVIOUS
  <2>2. /\ n \in 0..Len(segs) /\ \A i \in 1..Len(segs) : segs[i].t0 <= top <=> i <= n
        /\ kept \in Seq(Pieces) /\ Len(kept) = n /\ \A i \in 1..n : kept[i] = segs[i]
    BY <1>4, <1>5
  <2>3. Joins(kept \o tail, segs, n, tail, top)
    <3> HIDE DEF segs
    <3>. QED BY <2>1, <2>2, JoinFacts
  <2>. QED BY <2>3 DEF Joins
<1> HIDE DEF joined
<1>7. Len(tail) \in 1..2
  BY DEF IsEnd
<1>8. Len(joined) >= 2 /\ Len(joined) >= L /\ Len(joined) \in Nat /\ n \in Nat
  <2> DEFINE e == Len(tail)
             j == Len(joined)
  <2>1. e \in 1..2 /\ j = n + e /\ n >= 1 /\ n >= L - 1 /\ n \in 0..L /\ L \in Nat
    BY <1>1, <1>4, <1>6, <1>7
  <2> HIDE DEF e, j, L
  <2>2. j >= 2 /\ j >= L /\ j \in Nat /\ n \in Nat
    BY <2>1
  <2>. QED BY <2>2 DEF j
<1>9. /\ r \in Seq(Pieces) /\ InOrder(r) /\ Len(r) <= MaxSegs /\ Len(r) <= Len(joined) /\ Len(r) >= 2
      /\ Len(r) < MaxSegs => r = joined
      /\ joined[1].t0 <= r[1].t0 /\ r[Len(r) - 1] = joined[Len(joined) - 1]
      /\ \A i \in 1..Len(r) : i < Len(r) => \E j \in 1..Len(joined) : j < Len(joined) /\ r[i] = joined[j]
      /\ \A t \in Known(r) : Value(r, t) = Value(joined, t)
  <2>1. joined \in Seq(Pieces) /\ InOrder(joined) /\ Len(joined) >= 2
    BY <1>6, <1>8
  <2>. QED BY <1>2, <2>1, CutFacts
<1>10. Len(r) \in Nat /\ r # <<>> /\ \A i \in 1..Len(r) : r[i].t0 \in Int
  BY <1>9, SomePieces
<1>11. ASSUME NEW i \in 1..Len(r), i = 1 \/ i < Len(r) PROVE r[i].t0 <= top
  <2>1. i < Len(r)
    BY <1>9, <1>10, <1>11
  <2>. QED BY <1>6, <1>9, <2>1
<1>12. IsMap(r, top)
  BY <1>9, <1>11 DEF IsMap
<1>13. Known(r) \subseteq Known(segs)
  <2> SUFFICES ASSUME NEW t \in Known(r) PROVE t \in Known(segs)
    OBVIOUS
  <2>1. t \in Int /\ (Len(r) < MaxSegs \/ r[1].t0 <= t)
    BY DEF Known
  <2>2. CASE Len(r) < MaxSegs
    <3>1. L < MaxSegs
      BY <1>0, <1>1, <1>8, <1>9, <2>2
    <3>. QED BY <2>1, <3>1 DEF Known
  <2>3. CASE r[1].t0 <= t
    <3>1. segs[1].t0 <= t
      <4>1. segs[1].t0 <= r[1].t0
        BY <1>6, <1>9
      <4>2. segs[1].t0 \in Int /\ r[1].t0 \in Int
        BY <1>1, <1>9, <1>10
      <4>. QED BY <2>1, <2>3, <4>1, <4>2
    <3>. QED BY <2>1, <3>1 DEF Known
  <2>. QED BY <2>1, <2>2, <2>3
<1>14. ASSUME NEW t \in Known(r), t < top PROVE Value(r, t) = Value(segs, t)
  <2>1. t \in Int
    BY DEF Known
  <2>. QED BY <1>6, <1>9, <1>14, <2>1
<1>15. ASSUME NEW t \in Int, t >= top
       PROVE  t \in Known(r) /\ t \in Known(segs) /\ Value(r, t) = Value(tail, t)
  <2>1. 1 \in 1..Len(r)
    BY <1>9, <1>10
  <2>2. r[1].t0 <= top /\ r[1].t0 \in Int
    BY <1>10, <1>11, <2>1
  <2>3. t \in Known(r)
    BY <1>15, <2>2 DEF Known
  <2>. QED BY <1>6, <1>9, <1>13, <1>15, <2>3
<1>. QED BY <1>10, <1>12, <1>13, <1>14, <1>15

\* Of what was issued for a tick, nothing is taken back for a later one.
IssueKept(segs, issue, top) ==
  /\ issue \in [tick : Int, utc : Int]
  /\ issue.tick # None =>
       segs # <<>> /\ issue.tick <= top /\ \A t \in Known(segs) : issue.tick <= t => issue.utc <= Value(segs, t)

\* An end that rises, from where the mapping is.
EndRises(tail, top) == \A t \in Int : \A v \in Int : top <= t /\ t <= v => Value(tail, t) <= Value(tail, v)

LEMMA EndType ==
  ASSUME NEW tail, NEW top \in Int, IsEnd(tail, top), NEW t \in Int
  PROVE  tail # <<>> /\ InOrder(tail) /\ tail \in Seq(Pieces) /\ Value(tail, t) \in Int
<1>1. /\ tail \in Seq(Pieces) /\ Len(tail) \in 1..2 /\ tail[1].t0 = top
      /\ Len(tail) = 2 => top <= tail[2].t0
  BY DEF IsEnd
<1>2. \A i \in 1..Len(tail) : tail[i].t0 \in Int
  BY <1>1, SomePieces
<1>3. tail # <<>>
  BY <1>1
<1>4. InOrder(tail)
  <2> SUFFICES ASSUME NEW i \in 1..Len(tail), NEW j \in 1..Len(tail), i <= j PROVE tail[i].t0 <= tail[j].t0
    BY DEF InOrder
  <2>1. i = j \/ (i = 1 /\ j = 2 /\ Len(tail) = 2)
    <3> DEFINE e == Len(tail)
    <3>1. e \in 1..2 /\ i \in 1..e /\ j \in 1..e
      BY <1>1
    <3> HIDE DEF e
    <3>2. i = j \/ (i = 1 /\ j = 2 /\ e = 2)
      BY <3>1
    <3>. QED BY <3>2 DEF e
  <2>. QED BY <1>1, <1>2, <2>1
<1>. QED BY <1>1, <1>3, <1>4, ValueType

\* Such an end keeps the mapping from going back.
LEMMA RenewedFacts ==
  ASSUME NEW s, NEW top \in Int, IsMap(s.segs, top), s.segs # <<>>, Rising(s.segs),
         NEW issue, IssueKept(s.segs, issue, top),
         NEW tail, IsEnd(tail, top), EndRises(tail, top), Value(s.segs, top) <= Value(tail, top),
         NEW r, r = Continued(s, top, tail)
  PROVE  IsMap(r, top) /\ r # <<>> /\ Rising(r) /\ IssueKept(r, issue, top)
<1> DEFINE segs == s.segs
<1>1. /\ IsMap(r, top) /\ r # <<>> /\ Known(r) \subseteq Known(segs)
      /\ \A t \in Known(r) : t < top => Value(r, t) = Value(segs, t)
      /\ \A t \in Int : t >= top => t \in Known(r) /\ t \in Known(segs) /\ Value(r, t) = Value(tail, t)
  BY ContinuedFacts
<1>2. segs \in Seq(Pieces) /\ segs # <<>> /\ InOrder(segs)
  BY DEF IsMap
<1>3. \A t \in Int : Value(segs, t) \in Int
  <2> HIDE DEF segs
  <2>. QED BY <1>2, ValueType
<1>4. \A t \in Int : Value(tail, t) \in Int
  BY EndType
<1>5. \A t \in Known(segs) : \A v \in Known(segs) : t <= v => Value(segs, t) <= Value(segs, v)
  BY <1>2 DEF Rising
<1>6. \A t \in Known(r) : t \in Int /\ t \in Known(segs)
  BY <1>1 DEF Known
<1>7. Value(segs, top) <= Value(tail, top)
  OBVIOUS
<1>8. top \in Known(segs)
  BY <1>1
<1> HIDE DEF segs
<1>9. ASSUME NEW t \in Known(r), NEW v \in Known(r), t <= v PROVE Value(r, t) <= Value(r, v)
  <2>1. t \in Int /\ v \in Int
    BY <1>6
  <2>2. CASE v < top
    <3>1. t < top
      BY <1>9, <2>1, <2>2
    <3>. QED BY <1>1, <1>5, <1>6, <1>9, <2>2, <3>1
  <2>3. CASE t < top /\ v >= top
    <3>1. Value(segs, t) <= Value(segs, top)
      BY <1>5, <1>6, <1>8, <2>1, <2>3
    <3>2. Value(tail, top) <= Value(tail, v)
      BY <2>1, <2>3 DEF EndRises
    <3>3. Value(r, t) = Value(segs, t) /\ Value(r, v) = Value(tail, v)
      BY <1>1, <2>1, <2>3
    <3>4. Value(segs, t) \in Int /\ Value(segs, top) \in Int /\ Value(tail, top) \in Int /\ Value(tail, v) \in Int
      BY <1>3, <1>4, <2>1
    <3>. QED BY <1>7, <3>1, <3>2, <3>3, <3>4
  <2>4. CASE t >= top
    <3>1. v >= top
      BY <1>9, <2>1, <2>4
    <3>2. Value(tail, t) <= Value(tail, v)
      BY <1>9, <2>1, <2>4 DEF EndRises
    <3>. QED BY <1>1, <2>1, <2>4, <3>1, <3>2
  <2>. QED BY <2>1, <2>2, <2>3, <2>4
<1>10. Rising(r)
  BY <1>9 DEF Rising
<1>11. ASSUME issue.tick # None
       PROVE  issue.tick <= top /\ \A t \in Known(r) : issue.tick <= t => issue.utc <= Value(r, t)
  <2>1. /\ issue.tick <= top /\ issue.tick \in Int /\ issue.utc \in Int
        /\ \A t \in Known(segs) : issue.tick <= t => issue.utc <= Value(segs, t)
    BY <1>11 DEF IssueKept, segs
  <2>2. ASSUME NEW t \in Known(r), issue.tick <= t PROVE issue.utc <= Value(r, t)
    <3>1. t \in Int
      BY <1>6
    <3>2. CASE t < top
      BY <1>1, <1>6, <2>1, <2>2, <3>2
    <3>3. CASE t >= top
      <4>1. issue.utc <= Value(segs, top)
        BY <1>8, <2>1
      <4>2. Value(tail, top) <= Value(tail, t)
        BY <3>1, <3>3 DEF EndRises
      <4>3. Value(r, t) = Value(tail, t)
        BY <1>1, <3>1, <3>3
      <4>4. Value(segs, top) \in Int /\ Value(tail, top) \in Int /\ Value(tail, t) \in Int
        BY <1>3, <1>4, <3>1
      <4>. QED BY <1>7, <2>1, <4>1, <4>2, <4>3, <4>4
    <3>. QED BY <3>1, <3>2, <3>3
  <2>. QED BY <2>1, <2>2
<1>12. IssueKept(r, issue, top)
  BY <1>1, <1>11 DEF IssueKept
<1>. QED BY <1>1, <1>10, <1>12

LEMMA PieceType ==
  ASSUME NEW t \in Int, NEW u \in Int, NEW dr \in Int, dr > -Rate, NEW p, p = Piece(t, u, dr)
  PROVE  p \in Pieces /\ p.t0 = t /\ p.u0 = u /\ p.dr = dr
BY DEF Piece, Pieces

\* One line from here on.
LEMMA OneLine ==
  ASSUME NEW top \in Int, NEW p \in Pieces, p.t0 = top, NEW tail, tail = <<p>>
  PROVE  /\ IsEnd(tail, top) /\ EndRises(tail, top) /\ Value(tail, top) = p.u0
         /\ \A t \in Int : Value(tail, t) = Line(p, t)
<1>1. tail \in Seq(Pieces) /\ Len(tail) = 1 /\ tail[1] = p
  OBVIOUS
<1>2. IsEnd(tail, top)
  BY <1>1 DEF IsEnd
<1>3. tail # <<>> /\ InOrder(tail)
  BY <1>1, <1>2, EndType
<1>4. ASSUME NEW t \in Int PROVE Value(tail, t) = Line(p, t)
  <2>1. CASE t < top
    <3>1. t < tail[1].t0
      BY <1>1, <2>1
    <3>2. PieceAt(tail, t) = tail[1]
      BY <1>1, <1>3, <3>1, PieceFacts
    <3>. QED BY <1>1, <3>2 DEF Value
  <2>2. CASE t >= top
    <3>1. Within(tail, t, 1)
      BY <1>1, <2>2 DEF Within
    <3>2. PieceAt(tail, t) = tail[1]
      BY <1>1, <3>1, PieceFacts
    <3>. QED BY <1>1, <3>2 DEF Value
  <2>. QED BY <2>1, <2>2
<1>5. EndRises(tail, top)
  BY <1>4, LineRises DEF EndRises
<1>. QED BY <1>2, <1>4, <1>5, LineType

\* A slew goes over into the estimate's rate where it ends.
LEMMA SlewIsEnd ==
  ASSUME NEW top \in Int, NEW u \in Int, NEW c \in Int, NEW dr \in Drifts, NEW tail, tail = SlewTo(top, u, c, dr)
  PROVE  IsEnd(tail, top) /\ EndRises(tail, top) /\ Value(tail, top) = u
<1> DEFINE sdr == dr + (IF c > 0 THEN Slew ELSE -Slew)
           long == Rounded(Magnitude(c) * Rate, Slew)
           p == Piece(top, u, sdr)
           w == u + long + Rounded(long * sdr, Rate)
           q == Piece(top + long, w, dr)
<1>1. tail = <<p, q>>
  BY DEF SlewTo
<1>2. sdr \in Int /\ sdr > -Rate /\ dr \in Int /\ dr > -Rate /\ Rate \in Nat /\ Rate > 0
  BY RateFacts
<1>3. long \in Int /\ long >= 0
  <2>1. Magnitude(c) \in Nat
    BY DEF Magnitude
  <2> DEFINE x == Magnitude(c) * Rate
  <2>2. x \in Int /\ 0 <= x
    BY <1>2, <2>1
  <2> HIDE DEF x
  <2>3. Rounded(x, Slew) \in Int /\ Rounded(0, Slew) <= Rounded(x, Slew)
    BY <2>2, RateFacts, RoundedType, RoundedRises
  <2>4. 0 <= Rounded(0, Slew) /\ Rounded(0, Slew) \in Int
    <3>1. 0 = Slew * 0 + 0 /\ 0 \in 0..(Slew - 1)
      BY RateFacts
    <3>. QED BY <3>1, RateFacts, RoundedIs
  <2>. QED BY <2>3, <2>4 DEF x
<1> HIDE DEF sdr, long
<1>4. w \in Int
  <2> DEFINE x == long * sdr
  <2>1. x \in Int
    BY <1>2, <1>3
  <2> HIDE DEF x
  <2>2. Rounded(x, Rate) \in Int
    BY <1>2, <2>1, RoundedType
  <2>. QED BY <1>3, <2>2 DEF x
<1>5. p \in Pieces /\ p.t0 = top /\ p.u0 = u /\ p.dr = sdr
  BY <1>2, PieceType
<1>6. q \in Pieces /\ q.t0 = top + long /\ q.u0 = w
  <2>1. top + long \in Int
    BY <1>3
  <2> HIDE DEF w
  <2>. QED BY <1>2, <1>4, <2>1, PieceType
<1>7. Line(p, top + long) = w
  <2>1. (top + long) - top = long
    BY <1>3
  <2>. QED BY <1>3, <1>5, <2>1 DEF Line
<1> HIDE DEF p, q, w
<1>8. tail \in Seq(Pieces) /\ Len(tail) = 2 /\ tail[1] = p /\ tail[2] = q
  BY <1>1, <1>5, <1>6
<1>9. IsEnd(tail, top)
  BY <1>3, <1>5, <1>6, <1>8 DEF IsEnd
<1>10. ASSUME NEW t \in Int, t >= top
       PROVE  Value(tail, t) = IF t < top + long THEN Line(p, t) ELSE Line(q, t)
  <2>1. CASE t < top + long
    <3>1. Within(tail, t, 1)
      <4>1. 1 \in 1..2 /\ \A j \in 1..2 : 1 < j => j = 2
        OBVIOUS
      <4>. QED BY <1>3, <1>5, <1>6, <1>8, <1>10, <2>1, <4>1 DEF Within
    <3>2. PieceAt(tail, t) = p
      BY <1>8, <3>1, PieceFacts
    <3>. QED BY <2>1, <3>2 DEF Value
  <2>2. CASE ~(t < top + long)
    <3>1. Within(tail, t, 2)
      <4>1. 2 \in 1..2 /\ \A j \in 1..2 : ~(2 < j)
        OBVIOUS
      <4>. QED BY <1>3, <1>5, <1>6, <1>8, <1>10, <2>2, <4>1 DEF Within
    <3>2. PieceAt(tail, t) = q
      BY <1>8, <3>1, PieceFacts
    <3>. QED BY <2>2, <3>2 DEF Value
  <2>. QED BY <2>1, <2>2
<1>11. ASSUME NEW t \in Int, NEW v \in Int, top <= t, t <= v PROVE Value(tail, t) <= Value(tail, v)
  <2>0. top <= v /\ top + long \in Int
    BY <1>3, <1>11
  <2>1. CASE v < top + long
    <3>1. t < top + long
      BY <1>11, <2>0, <2>1
    <3>. QED BY <1>5, <1>10, <1>11, <2>0, <2>1, <3>1, LineRises
  <2>2. CASE t < top + long /\ ~(v < top + long)
    <3>1. Value(tail, t) = Line(p, t) /\ Value(tail, v) = Line(q, v)
      BY <1>10, <1>11, <2>0, <2>2
    <3>2. Line(p, t) <= w
      <4>1. t <= top + long
        BY <2>0, <2>2
      <4>. QED BY <1>5, <1>7, <2>0, <4>1, LineRises
    <3>3. w <= Line(q, v)
      <4>1. top + long <= v
        BY <2>0, <2>2
      <4>2. Line(q, top + long) = w
        BY <1>6, <2>0, LineType
      <4>. QED BY <1>6, <2>0, <4>1, <4>2, LineRises
    <3>4. Line(p, t) \in Int /\ Line(q, v) \in Int
      BY <1>5, <1>6, LineType
    <3>. QED BY <1>4, <3>1, <3>2, <3>3, <3>4
  <2>3. CASE ~(t < top + long)
    <3>1. ~(v < top + long)
      BY <1>11, <2>0, <2>3
    <3>. QED BY <1>6, <1>10, <1>11, <2>0, <2>3, <3>1, LineRises
  <2>. QED BY <2>0, <2>1, <2>2, <2>3
<1>12. Value(tail, top) = u
  <2>1. CASE long = 0
    <3>1. Value(tail, top) = Line(q, top)
      BY <1>10, <2>1
    <3>2. q.t0 = top /\ Line(p, top) = w
      BY <1>6, <1>7, <2>1
    <3>3. Line(q, q.t0) = q.u0 /\ Line(p, p.t0) = p.u0
      BY <1>5, <1>6, LineType
    <3>. QED BY <1>5, <1>6, <3>1, <3>2, <3>3
  <2>2. CASE long # 0
    <3>1. Value(tail, top) = Line(p, top)
      BY <1>3, <1>10, <2>2
    <3>. QED BY <1>5, <3>1, LineType
  <2>. QED BY <2>1, <2>2
<1>. QED BY <1>9, <1>11, <1>12 DEF EndRises

-----------------------------------------------------------------------------
(* The client's mapping.                                                   *)

Ests == [known : BOOLEAN, a : Int, dr : Drifts, ref : Int]

\* What the client has learned and what it issues.
Issues(s, top) ==
  /\ IsClient(s) /\ s.est \in Ests
  /\ IsMap(s.segs, top) /\ Rising(s.segs) /\ IssueKept(s.segs, s.issue, top)

\* A step that stamps nothing.
Keeps(s, r) == r.issue = s.issue /\ r.hits = s.hits

LEMMA EstimateType ==
  ASSUME NEW s, s.est \in Ests, NEW t \in Int
  PROVE  Estimate(s, t) \in Int
<1>1. s.est.a \in Int /\ s.est.ref \in Int /\ s.est.dr \in Int
  BY RateFacts DEF Ests
<1> DEFINE x == s.est.dr * (t - s.est.ref)
<1>2. x \in Int
  BY <1>1
<1> HIDE DEF x
<1>3. Rounded(x, Rate) \in Int
  BY <1>2, RateFacts, RoundedType
<1>. QED BY <1>1, <1>3 DEF Estimate, x

LEMMA IssuedIs ==
  ASSUME NEW s, NEW top \in Int, IsMap(s.segs, top), s.segs # <<>>, NEW t \in Int
  PROVE  Issued(s, t) = Value(s.segs, t) /\ Issued(s, t) \in Int
<1>1. s.segs \in Seq(Pieces) /\ InOrder(s.segs)
  BY DEF IsMap
<1>2. Value(s.segs, t) \in Int
  BY <1>1, ValueType
<1>. QED BY <1>2 DEF Issued, Value

\* Whatever the correction is, it does not go back.
LEMMA CorrectionFacts ==
  ASSUME NEW s, NEW top \in Int, Issues(s, top), s.segs # <<>>, NEW c \in Int,
         NEW tail, tail = Correction(s, top, c)
  PROVE  IsEnd(tail, top) /\ EndRises(tail, top) /\ Value(s.segs, top) <= Value(tail, top)
<1> DEFINE m == Issued(s, top)
           dr == s.est.dr
<1>1. m \in Int /\ m = Value(s.segs, top) /\ dr \in Drifts /\ dr \in Int /\ dr > -Rate /\ StepMs \in Nat
  BY IssuedIs, RateFacts DEF Issues, Ests
<1>2. tail = IF c > StepMs THEN <<Piece(top, m + c, dr)>>
             ELSE IF c = 0 THEN <<Piece(top, m, dr)>> ELSE SlewTo(top, m, c, dr)
  BY DEF Correction
<1> HIDE DEF m, dr
<1>3. ASSUME NEW u \in Int, m <= u, tail = <<Piece(top, u, dr)>>
      PROVE  IsEnd(tail, top) /\ EndRises(tail, top) /\ Value(s.segs, top) <= Value(tail, top)
  <2> DEFINE p == Piece(top, u, dr)
  <2>1. p \in Pieces /\ p.t0 = top /\ p.u0 = u /\ tail = <<p>>
    BY <1>1, <1>3, PieceType
  <2> HIDE DEF p
  <2>2. IsEnd(tail, top) /\ EndRises(tail, top) /\ Value(tail, top) = p.u0
    BY <2>1, OneLine
  <2>. QED BY <1>1, <1>3, <2>1, <2>2
<1>4. CASE c > StepMs
  <2>1. m + c \in Int /\ m <= m + c
    BY <1>1, <1>4
  <2>2. tail = <<Piece(top, m + c, dr)>>
    BY <1>2, <1>4
  <2>. QED BY <1>3, <2>1, <2>2
<1>5. CASE ~(c > StepMs) /\ c = 0
  BY <1>1, <1>2, <1>3, <1>5
<1>6. CASE ~(c > StepMs) /\ c # 0
  <2>1. tail = SlewTo(top, m, c, dr)
    BY <1>2, <1>6
  <2>2. IsEnd(tail, top) /\ EndRises(tail, top) /\ Value(tail, top) = m
    BY <1>1, <2>1, SlewIsEnd
  <2>. QED BY <1>1, <2>2
<1>. QED BY <1>4, <1>5, <1>6

\* Another mapping for the client.
LEMMA RemapFacts ==
  ASSUME NEW s, IsClient(s), NEW e, NEW r, r = [s EXCEPT !.segs = e]
  PROVE  IsClient(r) /\ r.segs = e /\ r.est = s.est /\ Keeps(s, r)
BY DEF IsClient, Keeps

\* _apply: step or slew, the mapping rises.
LEMMA AppliedIssues ==
  ASSUME NEW s, NEW top \in Int, Issues(s, top), NEW r, r = Applied(s, top)
  PROVE  Issues(r, top) /\ Keeps(s, r)
<1> DEFINE tail == Correction(s, top, Estimate(s, top) - Issued(s, top))
           fresh == <<Piece(top, Estimate(s, top), s.est.dr)>>
           cont == Continued(s, top, tail)
<1>1. /\ s.est.known \in BOOLEAN
      /\ r = IF ~s.est.known THEN s
             ELSE IF s.segs = <<>> THEN [s EXCEPT !.segs = fresh] ELSE [s EXCEPT !.segs = cont]
  BY DEF Applied, Issues, Ests
<1>2. Estimate(s, top) \in Int /\ s.est \in Ests /\ s.est.dr \in Int /\ s.est.dr > -Rate /\ IsClient(s)
  BY EstimateType, RateFacts DEF Issues, Ests
<1>3. CASE ~s.est.known
  BY <1>1, <1>3 DEF Keeps
<1>4. CASE s.est.known /\ s.segs = <<>>
  <2> DEFINE p == Piece(top, Estimate(s, top), s.est.dr)
  <2>1. p \in Pieces /\ p.t0 = top /\ fresh = <<p>>
    BY <1>2, PieceType
  <2> HIDE DEF p, fresh
  <2>2. EndRises(fresh, top) /\ fresh # <<>> /\ \A t \in Int : Value(fresh, t) = Line(p, t)
    BY <2>1, OneLine
  <2>3. IsMap(fresh, top)
    <3>1. fresh \in Seq(Pieces) /\ Len(fresh) = 1 /\ fresh[1] = p
      BY <2>1
    <3>. QED BY <2>1, <3>1, RateFacts DEF IsMap, InOrder, Pieces
  <2>4. Rising(fresh)
    BY <2>1, <2>2, LineRises DEF Rising, Known
  <2>5. r = [s EXCEPT !.segs = fresh]
    BY <1>1, <1>4
  <2>6. IsClient(r) /\ r.segs = fresh /\ r.est = s.est /\ Keeps(s, r)
    BY <1>2, <2>5, RemapFacts
  <2>7. IssueKept(fresh, s.issue, top)
    BY <1>4 DEF Issues, IssueKept
  <2>. QED BY <1>2, <2>3, <2>4, <2>6, <2>7 DEF Issues, Keeps
<1>5. CASE s.est.known /\ s.segs # <<>>
  <2>1. Estimate(s, top) - Issued(s, top) \in Int
    BY <1>2, <1>5, IssuedIs DEF Issues
  <2>2. IsEnd(tail, top) /\ EndRises(tail, top) /\ Value(s.segs, top) <= Value(tail, top)
    BY <1>5, <2>1, CorrectionFacts
  <2> HIDE DEF tail
  <2>3. IsMap(cont, top) /\ cont # <<>> /\ Rising(cont) /\ IssueKept(cont, s.issue, top)
    BY <1>5, <2>2, RenewedFacts DEF Issues
  <2>4. r = [s EXCEPT !.segs = cont]
    BY <1>1, <1>5
  <2> HIDE DEF cont
  <2>5. IsClient(r) /\ r.segs = cont /\ r.est = s.est /\ Keeps(s, r)
    BY <1>2, <2>4, RemapFacts
  <2>. QED BY <1>2, <2>3, <2>5 DEF Issues, Keeps
<1>. QED BY <1>1, <1>3, <1>4, <1>5

\* The beginning of a session: the mapping becomes one line.
LEMMA FrozenIssues ==
  ASSUME NEW s, NEW top \in Int, Issues(s, top), NEW r, r = Frozen(s, top)
  PROVE  Issues(r, top) /\ Keeps(s, r)
<1> DEFINE q == [s EXCEPT !.session = @ + 1, !.ringing = TRUE, !.since = top, !.null = s.segs = <<>>]
           dr == IF s.est.known THEN s.est.dr ELSE PieceAt(s.segs, top).dr
           p == Piece(top, Issued(s, top), dr)
           e == Continued(s, top, <<p>>)
<1>0. IsClient(s) /\ s.est \in Ests
  BY DEF Issues
<1>1. IsClient(q) /\ q.segs = s.segs /\ q.est = s.est /\ Keeps(s, q)
  BY <1>0 DEF IsClient, Keeps
<1>2. r = IF s.segs = <<>> THEN q ELSE [q EXCEPT !.segs = e]
  BY DEF Frozen
<1> HIDE DEF q
<1>3. CASE s.segs = <<>>
  BY <1>1, <1>2, <1>3 DEF Issues, Keeps
<1>4. CASE s.segs # <<>>
  <2>1. IsMap(s.segs, top) /\ s.segs \in Seq(Pieces) /\ InOrder(s.segs) /\ Rising(s.segs)
        /\ IssueKept(s.segs, s.issue, top)
    BY DEF Issues, IsMap
  <2>2. dr \in Int /\ dr > -Rate
    <3>1. PieceAt(s.segs, top) \in Pieces
      BY <1>4, <2>1, ValueType
    <3>2. PieceAt(s.segs, top).dr \in Int /\ PieceAt(s.segs, top).dr > -Rate
      BY <3>1 DEF Pieces
    <3>3. s.est.dr \in Int /\ s.est.dr > -Rate
      BY <1>0, RateFacts DEF Ests
    <3>. QED BY <3>2, <3>3
  <2> HIDE DEF dr
  <2>3. Issued(s, top) \in Int /\ Issued(s, top) = Value(s.segs, top)
    BY <1>4, <2>1, IssuedIs
  <2>4. p \in Pieces /\ p.t0 = top /\ p.u0 = Value(s.segs, top)
    BY <2>2, <2>3, PieceType
  <2> HIDE DEF p
  <2> DEFINE tail == <<p>>
  <2>5. IsEnd(tail, top) /\ EndRises(tail, top) /\ Value(tail, top) = p.u0
    BY <2>4, OneLine
  <2>6. e = Continued(s, top, tail)
    OBVIOUS
  <2> HIDE DEF tail, e
  <2>7. IsMap(e, top) /\ Rising(e) /\ IssueKept(e, s.issue, top)
    <3>1. Value(s.segs, top) <= Value(tail, top)
      BY <2>3, <2>4, <2>5
    <3>. QED BY <1>4, <2>1, <2>5, <2>6, <3>1, RenewedFacts
  <2>8. IsClient(r) /\ r.segs = e /\ r.est = q.est /\ Keeps(q, r)
    BY <1>1, <1>2, <1>4, RemapFacts
  <2>. QED BY <1>0, <1>1, <2>7, <2>8 DEF Issues, Keeps
<1>. QED BY <1>3, <1>4

\* The end of a session: back to the estimate.
LEMMA ReleasedIssues ==
  ASSUME NEW s, NEW top \in Int, Issues(s, top), NEW r, r = Released(s, top)
  PROVE  Issues(r, top) /\ Keeps(s, r)
<1> DEFINE q == [s EXCEPT !.ringing = FALSE, !.null = FALSE]
           x == Applied(q, top)
<1>1. Issues(q, top) /\ Keeps(s, q)
  <2>1. IsClient(q) /\ q.segs = s.segs /\ q.est = s.est /\ Keeps(s, q)
    BY DEF Issues, IsClient, Keeps
  <2> HIDE DEF q
  <2>. QED BY <2>1 DEF Issues, Keeps
<1>2. r = [x EXCEPT !.kick = TRUE]
  BY DEF Released
<1> HIDE DEF q
<1>3. Issues(x, top) /\ Keeps(q, x)
  BY <1>1, AppliedIssues
<1> HIDE DEF x
<1>4. IsClient(r) /\ r.segs = x.segs /\ r.est = x.est /\ Keeps(x, r)
  BY <1>2, <1>3 DEF Issues, IsClient, Keeps
<1>. QED BY <1>1, <1>3, <1>4 DEF Issues, Keeps

\* set_ringing, either way.
LEMMA SetRingingIssues ==
  ASSUME NEW s, NEW top \in Int, Issues(s, top), NEW rings, NEW raw, Extended(s.ticks, raw) = top,
         NEW r, r = SetRinging(s, rings, raw)
  PROVE  Issues(r, top) /\ Keeps(s, r)
<1> DEFINE c == [s EXCEPT !.ticks = Extend(s.ticks, raw)]
<1>1. Issues(c, top) /\ Keeps(s, c)
  <2>1. IsClient(c) /\ c.segs = s.segs /\ c.est = s.est /\ Keeps(s, c)
    BY DEF Issues, IsClient, Keeps
  <2> HIDE DEF c
  <2>. QED BY <2>1 DEF Issues, Keeps
<1>2. r \in {s, Frozen(c, top), Released(c, top)}
  BY DEF SetRinging
<1> HIDE DEF c
<1>3. CASE r = s
  BY <1>3 DEF Keeps
<1>4. CASE r = Frozen(c, top)
  BY <1>1, <1>4, FrozenIssues DEF Keeps
<1>5. CASE r = Released(c, top)
  BY <1>1, <1>5, ReleasedIssues DEF Keeps
<1>. QED BY <1>2, <1>3, <1>4, <1>5

\* A stamp for a tick the mapping still knows: the guard has nothing to do.
LEMMA StampedIssues ==
  ASSUME NEW s, NEW top \in Int, Issues(s, top), NEW raw, NEW t \in Int, t = Extended(s.ticks, raw), t <= top,
         s.segs # <<>> => t \in Known(s.segs), NEW r, r = Stamped(s, raw)
  PROVE  Issues(r, top) /\ r.segs = s.segs /\ r.hits = s.hits
<1> DEFINE u == Utc(s, t)
           later == s.issue.tick = None \/ t >= s.issue.tick
           back == u # None /\ s.issue.tick # None /\ later /\ u < s.issue.utc
           next == IF u = None \/ ~later THEN s.issue ELSE [tick |-> t, utc |-> IF back THEN s.issue.utc ELSE u]
<1>1. r = [s EXCEPT !.ticks = Extend(@, raw), !.hits = IF back THEN @ + 1 ELSE @, !.issue = next]
  BY DEF Stamped
<1>2. /\ IsClient(s) /\ s.est \in Ests /\ IsMap(s.segs, top) /\ Rising(s.segs)
      /\ IssueKept(s.segs, s.issue, top)
  BY DEF Issues
<1>3. u = None \/ (s.segs # <<>> /\ u = Issued(s, t))
  BY DEF Utc, Issued
<1>4. u # None => s.segs # <<>> /\ u = Value(s.segs, t) /\ u \in Int /\ t \in Known(s.segs)
  <2> HIDE DEF u
  <2>. QED BY <1>2, <1>3, IssuedIs
<1> HIDE DEF u
<1>5. s.issue.tick \in Int /\ s.issue.utc \in Int
  BY <1>2 DEF IssueKept
<1>6. ~back
  <2>1. ASSUME u # None, s.issue.tick # None, later PROVE s.issue.utc <= u
    <3>1. s.issue.tick <= t
      BY <1>5, <2>1
    <3>. QED BY <1>2, <1>4, <2>1, <3>1 DEF IssueKept
  <2>. QED BY <1>4, <1>5, <2>1
<1>7. IssueKept(s.segs, next, top)
  <2>1. CASE u = None \/ ~later
    <3>1. next = s.issue
      BY <2>1
    <3> HIDE DEF next
    <3>. QED BY <1>2, <3>1
  <2>2. CASE u # None /\ later
    <3>1. next = [tick |-> t, utc |-> u]
      BY <1>6, <2>2
    <3>2. ASSUME NEW v \in Known(s.segs), t <= v PROVE u <= Value(s.segs, v)
      BY <1>2, <1>4, <2>2, <3>2 DEF Rising
    <3> HIDE DEF next, later, back
    <3>3. next \in [tick : Int, utc : Int] /\ next.tick = t /\ next.utc = u
      BY <1>4, <2>2, <3>1
    <3>. QED BY <1>4, <2>2, <3>2, <3>3 DEF IssueKept
  <2>. QED BY <2>1, <2>2
<1>8. r = [s EXCEPT !.ticks = Extend(s.ticks, raw), !.hits = s.hits, !.issue = next]
  <2> HIDE DEF back, next
  <2>. QED BY <1>1, <1>6
<1> HIDE DEF next, back, later
<1>9. IsClient(r) /\ r.segs = s.segs /\ r.est = s.est /\ r.issue = next /\ r.hits = s.hits
  BY <1>2, <1>8 DEF IsClient
<1>. QED BY <1>2, <1>7, <1>9 DEF Issues

\* What a burst may bring.
IsReply(b) == b.off \in Int /\ b.tick \in Int

\* A burst: whatever it measured, the mapping goes on from where it is (_finish).
LEMMA FinishedIssues ==
  ASSUME NEW s, NEW top \in Int, Issues(s, top), NEW best, IsReply(best), NEW dr \in Drifts, NEW began,
         NEW r, r = Finished(s, best, dr, top, began)
  PROVE  Issues(r, top) /\ Keeps(s, r)
<1>1. PICK e : r \in {s, [s EXCEPT !.rejects = @ + 1], Followed(Taken(s, best, dr, e), top, began)}
  BY DEF Finished, Taken
<1>2. CASE r = s
  BY <1>2 DEF Keeps
<1>3. CASE r = [s EXCEPT !.rejects = @ + 1]
  <2>1. IsClient(r) /\ r.segs = s.segs /\ r.est = s.est /\ Keeps(s, r)
    BY <1>3 DEF Issues, IsClient, Keeps
  <2>. QED BY <2>1 DEF Issues, Keeps
<1>4. CASE r = Followed(Taken(s, best, dr, e), top, began)
  <2> DEFINE q == Taken(s, best, dr, e)
  <2>1. Issues(q, top) /\ Keeps(s, q)
    <3> DEFINE est == [known |-> TRUE, a |-> best.off, dr |-> dr, ref |-> best.tick]
    <3>1. est \in Ests
      BY DEF Ests, IsReply
    <3>2. IsClient(q) /\ q.segs = s.segs /\ q.est = est /\ Keeps(s, q)
      BY DEF Taken, Fitted, Issues, IsClient, Keeps
    <3> HIDE DEF est, q
    <3>. QED BY <3>1, <3>2 DEF Issues, Keeps
  <2> HIDE DEF q
  <2>2. r = q \/ r = Applied(q, top)
    BY <1>4 DEF Followed, q
  <2>3. Issues(r, top) /\ Keeps(q, r)
    <3>1. CASE r = q
      BY <2>1, <3>1 DEF Keeps
    <3>2. CASE r = Applied(q, top)
      BY <2>1, <3>2, AppliedIssues
    <3>. QED BY <2>2, <3>1, <3>2
  <2>. QED BY <2>1, <2>3 DEF Keeps
<1>. QED BY <1>1, <1>2, <1>3, <1>4

\* Another server: the fit goes, the mapping stays (_use).
LEMMA UsedIssues ==
  ASSUME NEW s, NEW top \in Int, Issues(s, top), NEW server, NEW r, r = Used(s, server)
  PROVE  Issues(r, top) /\ Keeps(s, r)
<1>1. NoEst \in Ests
  BY RateFacts DEF NoEst, Ests
<1>2. CASE r = s
  BY <1>2 DEF Keeps
<1>3. CASE r = [s EXCEPT !.server = server]
  <2>1. IsClient(r) /\ r.segs = s.segs /\ r.est = s.est /\ Keeps(s, r)
    BY <1>3 DEF Issues, IsClient, Keeps
  <2>. QED BY <2>1 DEF Issues, Keeps
<1>4. CASE r = [s EXCEPT !.server = server, !.est = NoEst, !.rtts = <<>>]
  <2>1. IsClient(r) /\ r.segs = s.segs /\ r.est = NoEst /\ Keeps(s, r)
    BY <1>4 DEF Issues, IsClient, Keeps
  <2>. QED BY <1>1, <2>1 DEF Issues, Keeps
<1>. QED BY <1>2, <1>3, <1>4 DEF Used

\* A client that has learned nothing.
LEMMA NewIssues ==
  ASSUME NEW time, NEW top \in Int, NEW r, r = NewSntp(time)
  PROVE  Issues(r, top) /\ r.hits = 0
<1>1. /\ IsClient(r) /\ r.segs = <<>> /\ r.est = NoEst /\ r.hits = 0 /\ r.issue = [tick |-> None, utc |-> None]
  BY NewIsClient DEF NewSntp
<1>2. NoEst \in Ests
  BY RateFacts DEF NoEst, Ests
<1>3. IsMap(<<>>, top) /\ Rising(<<>>)
  BY RateFacts DEF IsMap, Rising, InOrder
<1>4. IssueKept(r.segs, r.issue, top)
  BY <1>1 DEF IssueKept, None
<1>. QED BY <1>1, <1>2, <1>3, <1>4 DEF Issues

\* The client TimeInit starts with.
LEMMA BootedIssues ==
  ASSUME NEW boot
  PROVE  LET r == Booted(boot) IN Issues(r, Raw(Start)) /\ r.hits = 0
<1> DEFINE top == Raw(Start)
           Fine(r) == Issues(r, top) /\ r.hits = 0
<1>0. RttHist \in Nat /\ top \in Int /\ 0 \in Drifts
  BY RateFacts, HalfFacts, SessionAssumption DEF Raw
<1>1. PICK f : Boots(f) /\ Booted(boot) \in {f[RttHist], NewSntp(Start)}
  BY BootedIs
<1>2. Fine(NewSntp(Start))
  <2> HIDE DEF top
  <2>. QED BY <1>0, NewIssues
<1>3. Fine(Used(NewSntp(Start), 1))
  <2> HIDE DEF top
  <2>. QED BY <1>0, <1>2, UsedIssues DEF Keeps
<1>4. ASSUME NEW r, Fine(r) PROVE Fine(Finished(r, Quick, 0, top, FALSE))
  <2> DEFINE no == FALSE
             zero == 0
             q == Finished(r, Quick, zero, top, no)
  <2>1. IsReply(Quick) /\ zero \in Drifts
    BY <1>0 DEF Quick, IsReply
  <2> HIDE DEF top, no, zero
  <2>2. Issues(r, top)
    BY <1>4
  <2>3. Issues(q, top) /\ Keeps(r, q)
    BY <1>0, <2>1, <2>2, FinishedIssues
  <2> HIDE DEF q
  <2>4. Fine(q)
    BY <1>4, <2>3 DEF Keeps
  <2>. QED BY <2>4 DEF q, zero, no
<1>5. Fine(f[RttHist])
  <2> DEFINE All == {n \in 0..RttHist : Fine(f[n])}
  <2> HIDE DEF Fine
  <2>1. 0 \in All
    <3>1. 0 \in 0..RttHist /\ f[0] = Used(NewSntp(Start), 1)
      BY <1>0, <1>1 DEF Boots
    <3>. QED BY <1>3, <3>1
  <2>2. ASSUME NEW n \in 1..RttHist, n - 1 \in All PROVE n \in All
    <3>1. n \in 0..RttHist /\ n # 0
      BY <1>0
    <3>2. f[n] = Finished(f[n - 1], Quick, 0, Raw(Start), FALSE)
      BY <1>1 DEF Boots
    <3>. QED BY <1>4, <2>2, <3>1, <3>2
  <2>3. \A n \in 1..RttHist : n - 1 \in All => n \in All
    BY <2>2
  <2>4. \A n \in 0..RttHist : n \in All
    <3> HIDE DEF All
    <3>. QED BY <1>0, <2>1, <2>3, Upwards
  <2>. QED BY <1>0, <2>4
<1>. QED BY <1>1, <1>2, <1>5

-----------------------------------------------------------------------------
(* UTC never decreases.                                                    *)

\* The pieces that are kept reach as far back as an edge is late: no stamp is
\* asked for a tick whose piece has gone.
KeptFarBack ==
  on /\ Len(sntp.segs) = MaxSegs => sntp.segs[1].t0 <= Extended(sntp.ticks, Raw(now)) - Lag

\* The client's clock counts the time and its mapping keeps what was issued.
UtcInv ==
  /\ sntp.hits = 0
  /\ task.at # "none" => on
  /\ IsReply(task.best)
  /\ on => \E base \in Int : Counts(sntp.ticks, base, now) /\ Issues(sntp, now - base)

\* A clock made now is behind the time by its wraps.
LEMMA WrapsNow == ASSUME NEW time \in Int PROVE Wraps(time) \in Int /\ time - Wraps(time) = Raw(time) /\ Raw(time) \in Int
BY HalfFacts DEF Wraps, Raw

\* The clock starts at the counter's reading, and the bursts of setup_sntp are there.
LEMMA UtcStart == TimeInit => UtcInv
<1> SUFFICES ASSUME TimeInit PROVE UtcInv
  OBVIOUS
<1>1. now = Start /\ Start \in Int /\ on \in BOOLEAN
  BY SessionAssumption DEF TimeInit
<1>2. Issues(sntp, Raw(Start)) /\ sntp.hits = 0 /\ sntp.ticks = NewTicks(Start)
  BY BootedIssues, BootedFacts DEF TimeInit
<1>3. Counts(sntp.ticks, Wraps(Start), now) /\ Issues(sntp, now - Wraps(Start)) /\ Wraps(Start) \in Int
  BY <1>1, <1>2, NewCounts, WrapsNow
<1>4. task.at # "none" => on
  BY DEF TimeInit, NoTask
<1>5. IsReply(task.best)
  BY DEF TimeInit, NoTask, Loop, NoReply, IsReply
<1>. QED BY <1>2, <1>3, <1>4, <1>5 DEF UtcInv

\* The task goes on.
LEMMA QueriedIssues ==
  ASSUME now \in Int, NEW base \in Int, NEW s, Counts(s.ticks, base, now), Issues(s, now - base),
         NEW ringing, NEW best, IsReply(best), NEW left, Queried(s, ringing, best, left)
  PROVE  Issues(sntp', now - base) /\ Keeps(s, sntp') /\ IsReply(task'.best)
<1> DEFINE c == [s EXCEPT !.ticks = Extend(@, Raw(now))]
           top == now - base
<1>1. Extended(s.ticks, Raw(now)) = top /\ Counts(Extend(s.ticks, Raw(now)), base, now) /\ now \in (now - Lag)..now
  <2>1. now \in (now - Lag)..now
    BY HalfFacts
  <2>. QED BY <2>1, Reading
<1>2. Issues(c, top) /\ Keeps(s, c) /\ c.ticks = Extend(s.ticks, Raw(now))
  <2>1. /\ IsClient(c) /\ c.segs = s.segs /\ c.est = s.est /\ Keeps(s, c)
        /\ c.ticks = Extend(s.ticks, Raw(now))
    BY DEF Issues, IsClient, Keeps
  <2> HIDE DEF c
  <2>. QED BY <2>1 DEF Issues, Keeps
<1>3. Extended(c.ticks, Raw(now)) = top
  BY <1>1, <1>2, Reading
<1>4. PICK r \in (IF s.server = 0 THEN {NoReply} ELSE Replies(Extended(s.ticks, Raw(now)))) :
        LET b == Better(best, r)
        IN  \/ sntp' = c /\ task' = [NoTask EXCEPT !.at = "query", !.ringing = ringing, !.best = b, !.left = left]
            \/ \E dr \in Drifts : /\ sntp' = Finished(c, b, dr, Extended(c.ticks, Raw(now)), ringing)
                                  /\ task' = Waiting(sntp', ringing)
  BY DEF Queried
<1> DEFINE b == Better(best, r)
<1>5. IsReply(r)
  <2>1. IsReply(NoReply)
    BY DEF NoReply, IsReply
  <2>2. \A q \in Replies(top) : IsReply(q)
    <3>1. Offsets \subseteq Int /\ top \in Int
      BY SntpAssumption
    <3> HIDE DEF top
    <3>. QED BY <2>1, <3>1 DEF Replies, IsReply
  <2>. QED BY <1>1, <1>4, <2>1, <2>2
<1>6. IsReply(b)
  BY <1>5 DEF Better
<1> HIDE DEF b, c
<1>7. CASE sntp' = c /\ task' = [NoTask EXCEPT !.at = "query", !.ringing = ringing, !.best = b, !.left = left]
  <2>1. task'.best = b
    BY <1>7 DEF NoTask
  <2>. QED BY <1>2, <1>6, <1>7, <2>1
<1>8. ASSUME NEW dr \in Drifts, sntp' = Finished(c, b, dr, Extended(c.ticks, Raw(now)), ringing),
             task' = Waiting(sntp', ringing)
      PROVE  Issues(sntp', now - base) /\ Keeps(s, sntp') /\ IsReply(task'.best)
  <2>1. sntp' = Finished(c, b, dr, top, ringing)
    BY <1>3, <1>8
  <2>2. Issues(sntp', top) /\ Keeps(c, sntp')
    <3>1. top \in Int
      OBVIOUS
    <3> HIDE DEF top
    <3>. QED BY <1>2, <1>6, <2>1, <3>1, FinishedIssues
  <2>3. task'.best = NoReply
    BY <1>8 DEF Waiting, Loop, NoTask
  <2>4. IsReply(task'.best)
    BY <2>3 DEF NoReply, IsReply
  <2>. QED BY <1>2, <2>2, <2>4 DEF Keeps
<1>. QED BY <1>4, <1>7, <1>8 DEF b

\* A probe reads the counter, and no more.
LEMMA ProbedIssues ==
  ASSUME NEW top \in Int, NEW s, Issues(s, top), NEW ranks, Probed(s, ranks)
  PROVE  Issues(sntp', top) /\ Keeps(s, sntp') /\ IsReply(task'.best)
<1>1. sntp' = [s EXCEPT !.ticks = Extend(s.ticks, Raw(now))] /\ task'.best = NoReply
  BY DEF Probed, NoTask
<1>2. IsClient(sntp') /\ sntp'.segs = s.segs /\ sntp'.est = s.est /\ Keeps(s, sntp')
  BY <1>1 DEF Issues, IsClient, Keeps
<1>. QED BY <1>1, <1>2 DEF Issues, Keeps, NoReply, IsReply

\* Nothing the time task does takes anything issued back (run, _burst, _finish).
LEMMA TaskIssues ==
  ASSUME now \in Int, NEW base \in Int, Counts(sntp.ticks, base, now), Issues(sntp, now - base),
         IsReply(task.best), Begin \/ Probe \/ Query
  PROVE  Issues(sntp', now - base) /\ Keeps(sntp, sntp') /\ IsReply(task'.best)
<1> DEFINE top == now - base
<1>0. IsReply(NoReply) /\ top \in Int
  BY DEF NoReply, IsReply
<1>1. CASE Begin
  <2> DEFINE s == [sntp EXCEPT !.kick = @ /\ now >= task.due]
             u == IF scene.servers = 1 /\ s.server = 0 THEN [s EXCEPT !.server = 1] ELSE s
             n == IF s.ringing THEN RingQueries ELSE scene.queries
  <2>1. Issues(s, top) /\ Keeps(sntp, s) /\ s.ticks = sntp.ticks
    <3>1. IsClient(s) /\ s.segs = sntp.segs /\ s.est = sntp.est /\ Keeps(sntp, s) /\ s.ticks = sntp.ticks
      BY DEF Issues, IsClient, Keeps
    <3> HIDE DEF s
    <3>. QED BY <3>1 DEF Issues, Keeps
  <2>2. \/ sntp' = s /\ task' = Waiting(s, TRUE)
        \/ Probed(s, <<>>)
        \/ Queried(u, s.ringing, NoReply, n - 1)
    BY <1>1 DEF Begin
  <2> HIDE DEF s
  <2>3. Issues(u, top) /\ Keeps(s, u) /\ u.ticks = s.ticks
    <3>1. CASE u = s
      BY <2>1, <3>1 DEF Keeps
    <3>2. CASE u = [s EXCEPT !.server = 1]
      <4>1. IsClient(u) /\ u.segs = s.segs /\ u.est = s.est /\ Keeps(s, u) /\ u.ticks = s.ticks
        BY <2>1, <3>2 DEF Issues, IsClient, Keeps
      <4> HIDE DEF u
      <4>. QED BY <2>1, <4>1 DEF Issues, Keeps
    <3>. QED BY <3>1, <3>2
  <2> HIDE DEF u, n
  <2>4. CASE sntp' = s /\ task' = Waiting(s, TRUE)
    <3>1. task'.best = NoReply
      BY <2>4 DEF Waiting, Loop, NoTask
    <3>. QED BY <1>0, <2>1, <2>4, <3>1
  <2>5. CASE Probed(s, <<>>)
    <3>1. Issues(sntp', top) /\ Keeps(s, sntp') /\ IsReply(task'.best)
      <4> HIDE DEF top
      <4>. QED BY <1>0, <2>1, <2>5, ProbedIssues
    <3>. QED BY <2>1, <3>1 DEF Keeps
  <2>6. CASE Queried(u, s.ringing, NoReply, n - 1)
    <3>1. Issues(sntp', top) /\ Keeps(u, sntp') /\ IsReply(task'.best)
      BY <1>0, <2>1, <2>3, <2>6, QueriedIssues
    <3>. QED BY <2>1, <2>3, <3>1 DEF Keeps
  <2>. QED BY <2>2, <2>4, <2>5, <2>6
<1>2. CASE Probe
  <2> DEFINE u == Used(sntp, Chosen(task.ranks))
  <2>1. Probed(sntp, task.ranks) \/ Queried(u, FALSE, NoReply, scene.queries - 1)
    BY <1>2 DEF Probe
  <2>2. Issues(u, top) /\ Keeps(sntp, u) /\ u.ticks = sntp.ticks
    <3>1. Issues(sntp, top) /\ IsClient(sntp)
      BY DEF Issues
    <3> HIDE DEF top
    <3>. QED BY <1>0, <3>1, UsedIssues, UsedFacts
  <2> HIDE DEF u
  <2>3. CASE Probed(sntp, task.ranks)
    BY <1>0, <2>3, ProbedIssues
  <2>4. CASE Queried(u, FALSE, NoReply, scene.queries - 1)
    <3>1. Issues(sntp', top) /\ Keeps(u, sntp') /\ IsReply(task'.best)
      BY <1>0, <2>2, <2>4, QueriedIssues
    <3>. QED BY <2>2, <3>1 DEF Keeps
  <2>. QED BY <2>1, <2>3, <2>4
<1>3. CASE Query
  BY <1>3, QueriedIssues DEF Query
<1>. QED BY <1>1, <1>2, <1>3

\* Nor does the beginning or the end of a session (_sync_ringing).
LEMMA SyncedIssues ==
  ASSUME now \in Int, NEW base \in Int, Counts(sntp.ticks, base, now), Issues(sntp, now - base), on,
         NEW w, NEW s, s = Synced(sntp, w)
  PROVE  Issues(s, now - base) /\ Keeps(sntp, s)
<1>1. now \in (now - Lag)..now
  BY HalfFacts
<1>2. Extended(sntp.ticks, Raw(now)) = now - base /\ now - base \in Int
  BY <1>1, Reading
<1>3. s = SetRinging(sntp, Rings(w), Raw(now))
  BY DEF Synced
<1>. QED BY <1>2, <1>3, SetRingingIssues

\* A stamp of an edge, or of now.
LEMMA StampKept ==
  ASSUME now \in Int, NEW base \in Int, NEW s, Counts(s.ticks, base, now), Issues(s, now - base),
         NEW at \in (now - Lag)..now, sntp' = Stamped(s, Raw(at)), now' = now, on', KeptFarBack'
  PROVE  /\ Counts(sntp'.ticks, base, now) /\ Issues(sntp', now - base) /\ sntp'.hits = s.hits
<1> DEFINE top == now - base
           t == at - base
<1>1. /\ Extended(s.ticks, Raw(at)) = t /\ Counts(Extend(s.ticks, Raw(at)), base, now)
      /\ t \in Int /\ top \in Int /\ t <= top /\ top - Lag <= t /\ Lag \in Nat
  BY Reading, HalfFacts
<1>2. IsClient(s) /\ IsMap(s.segs, top)
  BY DEF Issues
<1>3. Counts(sntp'.ticks, base, now) /\ sntp'.segs = s.segs
  <2>1. sntp'.ticks = Extend(s.ticks, Raw(at))
    BY <1>2, StampedFacts
  <2>2. sntp'.segs = s.segs
    BY <1>2 DEF Stamped, IsClient
  <2>. QED BY <1>1, <2>1, <2>2
<1>4. Extended(sntp'.ticks, Raw(now)) = top
  <2>1. now \in (now - Lag)..now
    BY HalfFacts
  <2>. QED BY <1>3, <2>1, Reading
<1>5. Len(s.segs) = MaxSegs => s.segs[1].t0 <= top - Lag
  BY <1>3, <1>4 DEF KeptFarBack, Raw
<1>6. s.segs # <<>> => t \in Known(s.segs)
  <2> SUFFICES ASSUME s.segs # <<>> PROVE t \in Known(s.segs)
    OBVIOUS
  <2>1. s.segs \in Seq(Pieces) /\ Len(s.segs) <= MaxSegs
    BY <1>2 DEF IsMap
  <2>2. Len(s.segs) \in Nat /\ s.segs[1].t0 \in Int
    <3>1. Len(s.segs) \in Nat /\ Len(s.segs) >= 1 /\ \A i \in 1..Len(s.segs) : s.segs[i].t0 \in Int
      BY <2>1, SomePieces
    <3>2. 1 \in 1..Len(s.segs)
      BY <3>1
    <3>. QED BY <3>1, <3>2
  <2>3. Len(s.segs) < MaxSegs \/ s.segs[1].t0 <= t
    <3> HIDE DEF top, t
    <3>. QED BY <1>1, <1>5, <2>1, <2>2, RateFacts, SMTT(30)
  <2>. QED BY <1>1, <2>3 DEF Known
<1> HIDE DEF top, t
<1>7. Issues(s, top)
  BY DEF top
<1>8. Issues(sntp', top) /\ sntp'.hits = s.hits
  BY <1>1, <1>6, <1>7, StampedIssues
<1>. QED BY <1>3, <1>8 DEF top

\* Time alone changes nothing.
LEMMA LaterIssues ==
  ASSUME NEW s, NEW top \in Int, Issues(s, top), NEW later \in Int, top <= later
  PROVE  Issues(s, later)
<1>1. /\ s.segs \in Seq(Pieces) /\ Len(s.segs) <= MaxSegs /\ InOrder(s.segs)
      /\ \A i \in 1..Len(s.segs) : i = 1 \/ i < Len(s.segs) => s.segs[i].t0 <= top
  BY DEF Issues, IsMap
<1>2. \A i \in 1..Len(s.segs) : s.segs[i].t0 \in Int
  BY <1>1, SomePieces
<1>3. \A i \in 1..Len(s.segs) : i = 1 \/ i < Len(s.segs) => s.segs[i].t0 <= later
  BY <1>1, <1>2
<1>4. IsMap(s.segs, later)
  BY <1>1, <1>3 DEF IsMap
<1>5. IssueKept(s.segs, s.issue, later)
  BY DEF Issues, IssueKept
<1>. QED BY <1>4, <1>5 DEF Issues

\* Every step keeps what was issued, while the pieces go far enough back.
LEMMA UtcStep == TimeInv /\ UtcInv /\ KeptFarBack' /\ [TimeNext]_timeVars => UtcInv'
<1> SUFFICES ASSUME TimeInv, UtcInv, KeptFarBack', [TimeNext]_timeVars PROVE UtcInv'
  OBVIOUS
<1>0. now \in Int /\ now \in Nat /\ on \in BOOLEAN /\ IsClient(sntp)
  BY NowFacts DEF TimeInv
<1>1. sntp.hits = 0 /\ (task.at # "none" => on) /\ IsReply(task.best)
  BY DEF UtcInv
<1>2. PICK base \in Int : on => Counts(sntp.ticks, base, now) /\ Issues(sntp, now - base)
  <2>1. CASE on
    BY <2>1 DEF UtcInv
  <2>2. CASE ~on
    BY <2>2
  <2>. QED BY <1>0, <2>1, <2>2
\* On a step that makes no client, the base stays.
<1> DEFINE Stays == on => Counts(sntp'.ticks, base, now') /\ Issues(sntp', now' - base)
<1>3. ASSUME on' = on, sntp'.hits = 0, task'.at # "none" => on', IsReply(task'.best), Stays
      PROVE  UtcInv'
  <2>1. UtcInv' <=> (/\ sntp'.hits = 0 /\ (task'.at # "none" => on') /\ IsReply(task'.best)
                     /\ on' => \E b \in Int : Counts(sntp'.ticks, b, now') /\ Issues(sntp', now' - b))
    BY DEF UtcInv, Counts, Reads, Raw, Issues, IsClient, IsReply
  <2>. QED BY <1>3, <2>1
<1>4. ASSUME on' = on, task' = task, sntp'.hits = 0, Stays PROVE UtcInv'
  BY <1>1, <1>3, <1>4
<1> HIDE DEF Stays
<1>5. ASSUME now' = now, NEW s, on, s.ticks \in {sntp.ticks, Extend(sntp.ticks, Raw(now))}
      PROVE  Counts(s.ticks, base, now)
  BY <1>0, <1>2, <1>5, ReadingNow
<1>6. CASE UNCHANGED timeVars
  <2>1. sntp' = sntp /\ now' = now /\ on' = on /\ task' = task
    BY <1>6 DEF timeVars
  <2>. QED BY <1>1, <1>2, <1>4, <2>1 DEF Stays
<1>7. CASE TimePasses
  <2>1. (on => StillNear(sntp.ticks, now + 1)) /\ now' = now + 1 /\ UNCHANGED <<on, sntp, task>>
    BY <1>7 DEF TimePasses
  <2>2. on => Counts(sntp.ticks, base, now + 1)
    BY <1>0, <1>2, <2>1, NearStays
  <2>3. on => Issues(sntp, (now + 1) - base)
    <3>1. now - base \in Int /\ (now + 1) - base \in Int /\ now - base <= (now + 1) - base
      BY <1>0
    <3>. QED BY <1>2, <3>1, LaterIssues
  <2>. QED BY <1>1, <1>4, <2>1, <2>2, <2>3 DEF Stays
<1>8. ASSUME NEW b \in scene.heads, NEW at \in (now - Lag)..now, NEW counted \in BOOLEAN, NEW note,
             Channel(b, counted, Raw(at), note)
      PROVE  UtcInv'
  <2>1. UNCHANGED <<now, on, task>> /\ watch' \in Watches
    BY <1>8, ChannelIs DEF Channel
  <2>2. CASE counted /\ on
    <3> DEFINE s == Synced(sntp, watch')
    <3>1. sntp' = Stamped(s, Raw(at))
      BY <1>8, <2>2 DEF Channel, NetStroke
    <3>2. s.ticks \in {sntp.ticks, Extend(sntp.ticks, Raw(now))}
      BY <2>1, SyncedFacts
    <3>3. Issues(s, now - base) /\ Keeps(sntp, s)
      BY <1>0, <1>2, <2>2, SyncedIssues
    <3> HIDE DEF s
    <3>4. Counts(s.ticks, base, now)
      BY <1>5, <2>1, <2>2, <3>2
    <3>5. Counts(sntp'.ticks, base, now) /\ Issues(sntp', now - base) /\ sntp'.hits = s.hits
      BY <1>0, <2>1, <2>2, <3>1, <3>3, <3>4, StampKept
    <3>. QED BY <1>1, <1>4, <2>1, <3>3, <3>5 DEF Stays, Keeps
  <2>3. CASE ~(counted /\ on)
    <3>1. sntp' = sntp
      BY <1>8, <2>3 DEF Channel, NetStroke
    <3>. QED BY <1>1, <1>2, <1>4, <2>1, <3>1 DEF Stays
  <2>. QED BY <2>2, <2>3
<1>9. CASE Looks
  <2>1. PICK w \in Watches : sntp' = Synced(sntp, w) /\ UNCHANGED <<now, on, task>>
    BY <1>9, LookIs
  <2>2. CASE on
    <3>1. sntp'.ticks \in {sntp.ticks, Extend(sntp.ticks, Raw(now))}
      BY <2>1, SyncedFacts
    <3>2. Issues(sntp', now - base) /\ Keeps(sntp, sntp')
      BY <1>0, <1>2, <2>1, <2>2, SyncedIssues
    <3>3. Counts(sntp'.ticks, base, now)
      BY <1>5, <2>1, <2>2, <3>1
    <3>. QED BY <1>1, <1>4, <2>1, <3>2, <3>3 DEF Stays, Keeps
  <2>3. CASE ~on
    <3>1. sntp' = sntp
      BY <2>1, <2>3 DEF Synced
    <3>. QED BY <1>1, <1>4, <2>1, <2>3, <3>1 DEF Stays
  <2>. QED BY <2>2, <2>3
<1>10. CASE Beat
  <2>1. UNCHANGED <<now, on, task>> /\ sntp' = (IF on THEN Stamped(sntp, Raw(now)) ELSE sntp)
    BY <1>10 DEF Beat
  <2>2. CASE on
    <3>1. now \in (now - Lag)..now
      BY <1>0, HalfFacts
    <3>2. Counts(sntp'.ticks, base, now) /\ Issues(sntp', now - base) /\ sntp'.hits = sntp.hits
      BY <1>0, <1>2, <2>1, <2>2, <3>1, StampKept
    <3>. QED BY <1>1, <1>4, <2>1, <3>2 DEF Stays
  <2>3. CASE ~on
    BY <1>1, <1>4, <2>1, <2>3 DEF Stays
  <2>. QED BY <2>2, <2>3
<1>11. CASE WifiUp
  <2>1. now' = now /\ on' = TRUE /\ sntp' = NewSntp(now) /\ task' = Loop
    BY <1>11 DEF WifiUp
  <2>2. IsReply(task'.best)
    BY <2>1 DEF Loop, NoTask, NoReply, IsReply
  <2>3. sntp'.ticks = NewTicks(now)
    BY <2>1 DEF NewSntp
  <2>4. PICK k \in Int : k = Wraps(now) /\ Counts(sntp'.ticks, k, now) /\ now - k \in Int
    <3>1. Wraps(now) \in Int
      BY <1>0, WrapsNow
    <3>. QED BY <1>0, <2>3, <3>1, NewCounts
  <2>5. Issues(sntp', now - k) /\ sntp'.hits = 0
    BY <2>1, <2>4, NewIssues
  <2>6. UtcInv' <=> (/\ sntp'.hits = 0 /\ (task'.at # "none" => on') /\ IsReply(task'.best)
                     /\ on' => \E c \in Int : Counts(sntp'.ticks, c, now') /\ Issues(sntp', now' - c))
    BY DEF UtcInv, Counts, Reads, Raw, Issues, IsClient, IsReply
  <2>. QED BY <2>1, <2>2, <2>4, <2>5, <2>6
<1>12. CASE Begin \/ Probe \/ Query
  <2>1. on /\ task.at # "none"
    BY <1>1, <1>12 DEF Begin, Probe, Query
  <2>2. TaskStep(sntp, sntp') /\ UNCHANGED <<now, on>>
    BY <1>0, <1>12, TaskFacts DEF TaskOnly
  <2>3. sntp'.ticks \in {sntp.ticks, Extend(sntp.ticks, Raw(now))}
    BY <2>2 DEF TaskStep
  <2>4. Counts(sntp'.ticks, base, now)
    BY <1>5, <2>1, <2>2, <2>3
  <2>5. Issues(sntp', now - base) /\ Keeps(sntp, sntp') /\ IsReply(task'.best)
    BY <1>0, <1>1, <1>2, <1>12, <2>1, TaskIssues
  <2>. QED BY <1>1, <1>3, <2>1, <2>2, <2>4, <2>5 DEF Stays, Keeps
<1>13. CASE Edges
  BY <1>8, <1>13, EdgeIs
<1>14. CASE Notes
  <2>1. UNCHANGED <<now, on, sntp, task>>
    BY <1>14 DEF Notes, Note
  <2>. QED BY <1>1, <1>2, <1>4, <2>1 DEF Stays
<1>. QED BY <1>6, <1>7, <1>9, <1>10, <1>11, <1>12, <1>13, <1>14 DEF TimeNext, Edges, Notes, Looks

\* Across bursts, steps, slews, changes of server and sessions no stamp's UTC
\* is below an earlier one's, for any counter, drifts, corrections and rounding:
\* the guard in SntpClock.stamp() never acts while the pieces go far enough back.
THEOREM UtcNeverFalls == TimeSpec /\ []KeptFarBack => []UtcNeverDecreases
<1>1. TimeInit => TimeInv /\ UtcInv
  BY TimeInitInv, UtcStart
<1>2. TimeInv /\ UtcInv /\ KeptFarBack' /\ [TimeNext]_timeVars => (TimeInv /\ UtcInv)'
  BY TimeStep, UtcStep
<1>3. UtcInv => UtcNeverDecreases
  BY DEF UtcInv, UtcNeverDecreases
<1>. QED BY <1>1, <1>2, <1>3, PTL DEF TimeSpec

-----------------------------------------------------------------------------
(* The send path.                                                          *)

USE LevelsAssumption

Events == {"starved", "answered", "nomem", "bad", "hold_over", "drained", "calm"}

\* A SendPath object as every call finds it and leaves it.
Sound(p) == p \in Paths /\ LevelFits(p) /\ OpenMeansNoHold(p)

-----------------------------------------------------------------------------
\* The clamp keeps a level inside SEND_LEVELS and moves it at most where asked.
LEMMA ClampType == ASSUME NEW l \in Int PROVE Clamp(l) \in Levels
BY DEF Clamp, Levels

\* Whatever the event, _fire leaves a well-typed object.
LEMMA FireType ==
  ASSUME NEW p \in Paths, NEW e \in Events
  PROVE  Fire(p, e) \in Paths
<1> DEFINE lev == Clamp(p.level + Rise(p.state, e))
<1>1. p.level \in Int /\ Rise(p.state, e) \in {-1, 0, 1}
  BY DEF Paths, Levels, Rise
<1>2. lev \in Levels
  BY <1>1, ClampType
<1>3. Target(p.state, e) \in States
  BY DEF Target, Paths, States
<1>4. HoldAfter(p, e, lev) \in Nat
  BY <1>2 DEF HoldAfter, Paths
<1>5. AgeAfter(p, e) \in 0..AgeCap
  BY DEF AgeAfter, Paths
<1> DEFINE q == [state |-> Target(p.state, e), level |-> lev,
                 hold |-> HoldAfter(p, e, lev), age |-> AgeAfter(p, e)]
<1>6. q \in Paths
  BY <1>2, <1>3, <1>4, <1>5 DEF Paths
<1>7. Settle(q) \in Paths
  BY <1>6 DEF Settle, Paths, States
<1>8. Fire(p, e) = Settle(q)
  BY DEF Fire
<1>. QED BY <1>7, <1>8

\* A stall drains from every state; only entering the drain sets its time, and
\* the level does not fall.
LEMMA FireStall ==
  ASSUME NEW p, Sound(p), NEW e \in {"starved", "answered", "nomem"}
  PROVE  /\ Sound(Fire(p, e))
         /\ Fire(p, e).state = "DRAIN"
         /\ Fire(p, e).hold = IF p.state = "DRAIN" THEN p.hold ELSE DrainS
         /\ Fire(p, e).level >= p.level
         /\ Fire(p, e).age <= p.age
         /\ Fire(p, e).level # p.level => Fire(p, e).age = 0
<1>1. Fire(p, e) \in Paths
  BY FireType DEF Sound, Events
<1>2. Target(p.state, e) = "DRAIN"
  BY DEF Target
<1>3. Rise(p.state, e) \in {0, 1} /\ p.level \in 0..MaxLevel /\ p.age \in Nat
  BY DEF Rise, Sound, Paths, Levels
<1>4. Clamp(p.level + Rise(p.state, e)) >= p.level
  BY <1>3 DEF Clamp
<1>5. Rise(p.state, e) = 0 => Clamp(p.level + Rise(p.state, e)) = p.level
  BY <1>3 DEF Clamp
<1>6. Fire(p, e) = [state |-> "DRAIN", level |-> Clamp(p.level + Rise(p.state, e)),
                    hold |-> IF p.state = "DRAIN" THEN p.hold ELSE DrainS,
                    age |-> AgeAfter(p, e)]
  BY <1>2 DEF Fire, Settle, HoldAfter, Enters
<1>7. AgeAfter(p, e) <= p.age /\ (Rise(p.state, e) # 0 => AgeAfter(p, e) = 0)
  BY <1>3 DEF AgeAfter
<1>. QED
  BY <1>1, <1>3, <1>4, <1>5, <1>6, <1>7 DEF Sound, LevelFits, OpenMeansNoHold, Accepts

\* A bad send refuses newcomers, unless the link drains already; a hold that is
\* running is neither lengthened nor cut.
LEMMA FireBad ==
  ASSUME NEW p, Sound(p)
  PROVE  /\ Sound(Fire(p, "bad"))
         /\ Fire(p, "bad").state = IF p.state = "DRAIN" THEN "DRAIN" ELSE "BACKOFF"
         /\ p.state \in {"DRAIN", "BACKOFF"} => Fire(p, "bad").hold = p.hold
         /\ p.state \in {"OK", "DEGRADED"} =>
               \E l \in Levels : Fire(p, "bad").hold = HoldS[l]
         /\ Fire(p, "bad").level >= p.level
         /\ Fire(p, "bad").age <= p.age
         /\ Fire(p, "bad").level # p.level => Fire(p, "bad").age = 0
<1> DEFINE lev == Clamp(p.level + Rise(p.state, "bad"))
<1>0. Fire(p, "bad") \in Paths
  BY FireType DEF Sound, Events
<1>1. p.state \in States /\ p.level \in 0..MaxLevel /\ p.age \in Nat /\ p.hold \in Nat
  BY DEF Sound, Paths, Levels
<1>2. CASE p.state = "DRAIN"
  <2>1. Target(p.state, "bad") = "DRAIN" /\ Rise(p.state, "bad") = 0
    BY <1>2 DEF Target, Rise
  <2>2. Fire(p, "bad") = [state |-> "DRAIN", level |-> p.level, hold |-> p.hold,
                          age |-> p.age]
    BY <1>1, <1>2, <2>1 DEF Fire, Settle, HoldAfter, Enters, AgeAfter, Clamp
  <2>. QED
    BY <1>0, <1>1, <1>2, <2>2 DEF Sound, LevelFits, OpenMeansNoHold, Accepts
<1>3. CASE p.state = "BACKOFF"
  <2>1. Target(p.state, "bad") = "BACKOFF" /\ Rise(p.state, "bad") = 0
    BY <1>3 DEF Target, Rise
  <2>2. Fire(p, "bad") = [state |-> "BACKOFF", level |-> p.level, hold |-> p.hold,
                          age |-> p.age]
    BY <1>1, <1>3, <2>1 DEF Fire, Settle, HoldAfter, Enters, AgeAfter, Clamp
  <2>. QED
    BY <1>0, <1>1, <1>3, <2>2 DEF Sound, LevelFits, OpenMeansNoHold, Accepts
<1>4. CASE p.state \in {"OK", "DEGRADED"}
  <2>1. Target(p.state, "bad") = "BACKOFF" /\ Rise(p.state, "bad") = 1
    BY <1>4 DEF Target, Rise
  <2>2. lev \in Levels /\ lev > 0 /\ lev >= p.level
    <3>1. lev = Clamp(p.level + 1)
      BY <2>1
    <3>2. \A l \in 0..MaxLevel :
            Clamp(l + 1) \in 0..MaxLevel /\ Clamp(l + 1) > 0 /\ Clamp(l + 1) >= l
      BY DEF Clamp
    <3>. QED BY <1>1, <3>1, <3>2 DEF Levels
  <2>3. Fire(p, "bad") = [state |-> "BACKOFF", level |-> lev, hold |-> HoldS[lev],
                          age |-> 0]
    BY <1>4, <2>1 DEF Fire, Settle, HoldAfter, Enters, AgeAfter
  <2>. QED
    BY <1>0, <1>1, <1>4, <2>2, <2>3 DEF Sound, LevelFits, OpenMeansNoHold, Accepts
<1>. QED BY <1>1, <1>2, <1>3, <1>4 DEF States

\* A hold that is over becomes DEGRADED, or OK at level 0; nothing else moves.
LEMMA HoldEnds ==
  ASSUME NEW p, Sound(p)
  PROVE  LET q == Drained(HoldOver(p)) IN
         /\ Sound(q)
         /\ q.level = p.level /\ q.age = p.age /\ q.hold = p.hold
         /\ q = p \/ (p.hold = 0 /\ ~Accepts(p) /\ Accepts(q))
<1>1. p.state \in States /\ p.level \in 0..MaxLevel /\ p.age \in Nat /\ p.hold \in Nat
  BY DEF Sound, Paths, Levels
<1>2. p = [state |-> p.state, level |-> p.level, hold |-> p.hold, age |-> p.age]
  BY DEF Sound, Paths
<1>3. CASE p.state = "BACKOFF" /\ p.hold = 0
  <2>1. Target(p.state, "hold_over") = "DEGRADED" /\ Rise(p.state, "hold_over") = 0
    BY <1>3 DEF Target, Rise
  <2>2. p.level > 0
    BY <1>3 DEF Sound, LevelFits
  <2>3. Fire(p, "hold_over") = [state |-> "DEGRADED", level |-> p.level,
                                hold |-> p.hold, age |-> p.age]
    BY <1>1, <1>3, <2>1, <2>2 DEF Fire, Settle, HoldAfter, Enters, AgeAfter, Clamp
  <2>4. Drained(HoldOver(p)) = Fire(p, "hold_over")
    BY <1>3, <2>3 DEF HoldOver, Drained
  <2>5. Fire(p, "hold_over") \in Paths
    BY FireType DEF Sound, Events
  <2>. QED BY <1>3, <2>2, <2>3, <2>4, <2>5 DEF Sound, LevelFits, OpenMeansNoHold, Accepts
<1>4. CASE p.state = "DRAIN" /\ p.hold = 0
  <2>1. Target(p.state, "drained") = "DEGRADED" /\ Rise(p.state, "drained") = 0
    BY <1>4 DEF Target, Rise
  <2>2. HoldAfter(p, "drained", p.level) = p.hold /\ AgeAfter(p, "drained") = p.age
    BY <2>1 DEF HoldAfter, Enters, AgeAfter
  <2>3. Clamp(p.level + 0) = p.level
    BY <1>1 DEF Clamp
  <2>4. Fire(p, "drained") = Settle([state |-> "DEGRADED", level |-> p.level,
                                     hold |-> p.hold, age |-> p.age])
    BY <2>1, <2>2, <2>3 DEF Fire
  <2>5. Fire(p, "drained") = [state |-> IF p.level = 0 THEN "OK" ELSE "DEGRADED",
                              level |-> p.level, hold |-> p.hold, age |-> p.age]
    BY <2>4 DEF Settle
  <2>6. Drained(HoldOver(p)) = Fire(p, "drained")
    BY <1>4 DEF HoldOver, Drained
  <2>7. Fire(p, "drained") \in Paths
    BY FireType DEF Sound, Events
  <2>. QED
    BY <1>1, <1>4, <2>5, <2>6, <2>7 DEF Sound, LevelFits, OpenMeansNoHold, Accepts
<1>5. CASE ~(p.state = "BACKOFF" /\ p.hold = 0) /\ ~(p.state = "DRAIN" /\ p.hold = 0)
  <2>1. Drained(HoldOver(p)) = p
    BY <1>5 DEF HoldOver, Drained
  <2>. QED BY <2>1
<1>. QED BY <1>3, <1>4, <1>5

\* The calm timer lowers the level by one, and only when it has run out.
LEMMA CalmLowers ==
  ASSUME NEW p, Sound(p)
  PROVE  LET q == Calm(p) IN
         /\ Sound(q)
         /\ q.hold = p.hold /\ q.age <= p.age /\ (Accepts(q) <=> Accepts(p))
         /\ q = p \/ (/\ q.level = p.level - 1 /\ p.age >= CalmS[p.level]
                      /\ q.age = 0 /\ Accepts(p))
<1>1. p.state \in States /\ p.level \in 0..MaxLevel /\ p.age \in Nat /\ p.hold \in Nat
  BY DEF Sound, Paths, Levels
<1>2. CASE p.state = "DEGRADED" /\ p.age >= CalmS[p.level]
  <2>1. Target(p.state, "calm") = "DEGRADED" /\ Rise(p.state, "calm") = -1
    BY <1>2 DEF Target, Rise
  <2>2. p.level > 0
    BY <1>2 DEF Sound, LevelFits
  <2>3. Clamp(p.level + (-1)) = p.level - 1
    BY <1>1, <2>2 DEF Clamp
  <2>4. HoldAfter(p, "calm", p.level - 1) = p.hold /\ AgeAfter(p, "calm") = 0
    BY <1>2, <2>1 DEF HoldAfter, Enters, AgeAfter
  <2>5. Fire(p, "calm") = Settle([state |-> "DEGRADED", level |-> p.level - 1,
                                  hold |-> p.hold, age |-> 0])
    BY <2>1, <2>3, <2>4 DEF Fire
  <2>6. Fire(p, "calm") = [state |-> IF p.level - 1 = 0 THEN "OK" ELSE "DEGRADED",
                           level |-> p.level - 1, hold |-> p.hold, age |-> 0]
    BY <2>5 DEF Settle
  <2>7. Calm(p) = Fire(p, "calm")
    BY <1>2 DEF Calm
  <2>8. Fire(p, "calm") \in Paths
    BY FireType DEF Sound, Events
  <2>9. p.hold = 0
    BY <1>2 DEF Sound, OpenMeansNoHold, Accepts
  <2>. QED
    BY <1>1, <1>2, <2>2, <2>6, <2>7, <2>8, <2>9 DEF Sound, LevelFits, OpenMeansNoHold, Accepts
<1>3. CASE ~(p.state = "DEGRADED" /\ p.age >= CalmS[p.level])
  <2>1. Calm(p) = p
    BY <1>3 DEF Calm
  <2>. QED BY <1>1, <2>1
<1>. QED BY <1>2, <1>3

\* _timed as a whole: the door opens only when its hold has run out.
LEMMA TimedMoves ==
  ASSUME NEW p, Sound(p)
  PROVE  /\ Sound(Timed(p))
         /\ Timed(p).hold = p.hold
         /\ Timed(p).age <= p.age
         /\ Timed(p).level # p.level => Timed(p).age = 0
         /\ Timed(p).level < p.level =>
               Timed(p).level = p.level - 1 /\ p.age >= CalmS[p.level]
         /\ Timed(p).level <= p.level
         /\ Accepts(p) => Accepts(Timed(p))
         /\ ~Accepts(p) => Timed(p) = p \/ (p.hold = 0 /\ Accepts(Timed(p)))
<1> DEFINE q == Drained(HoldOver(p))
<1>1. /\ Sound(q)
      /\ q.level = p.level /\ q.age = p.age /\ q.hold = p.hold
      /\ q = p \/ (p.hold = 0 /\ ~Accepts(p) /\ Accepts(q))
  BY HoldEnds
<1>2. /\ Sound(Calm(q))
      /\ Calm(q).hold = q.hold /\ Calm(q).age <= q.age /\ (Accepts(Calm(q)) <=> Accepts(q))
      /\ Calm(q) = q \/ (/\ Calm(q).level = q.level - 1 /\ q.age >= CalmS[q.level]
                         /\ Calm(q).age = 0 /\ Accepts(q))
  BY <1>1, CalmLowers
<1>3. Timed(p) = Calm(q)
  BY DEF Timed
<1>4. p.level \in Int /\ p.age \in Int
  BY DEF Sound, Paths, Levels
<1> HIDE DEF q
<1>. QED BY <1>1, <1>2, <1>3, <1>4

-----------------------------------------------------------------------------
\* A bad report is one of the events of the table.
LEMMA ReportEvent ==
  ASSUME NEW r \in Reports
  PROVE  EventOf(r) \in {"starved", "answered", "bad"}
BY DEF EventOf, Reports

\* observe() as a whole, in one place for the invariant and the refinement.
LEMMA ReportMoves ==
  ASSUME NEW p, Sound(p), NEW r \in Reports
  PROVE  LET q == AfterReport(p, r) IN
         /\ Sound(q)
         /\ q.age <= p.age /\ q.level >= p.level
         /\ IsBad(r) \/ q = p
         /\ IsBad(r) => q.age = 0
         /\ \/ q = p
            \/ q.state = p.state /\ q.hold = p.hold /\ ~Accepts(p)
            \/ q.state = "DRAIN" /\ q.hold = DrainS /\ p.state # "DRAIN"
            \/ /\ q.state = "BACKOFF" /\ Accepts(p)
               /\ \E l \in Levels : q.hold = HoldS[l]
<1>1. CASE ~IsBad(r)
  <2>1. AfterReport(p, r) = p /\ p.age \in Int /\ p.level \in Int
    BY <1>1 DEF AfterReport, Sound, Paths, Levels
  <2>. QED BY <1>1, <2>1
<1>2. CASE IsBad(r)
  <2> DEFINE z == [p EXCEPT !.age = 0]
  <2>1. /\ z = [state |-> p.state, level |-> p.level, hold |-> p.hold, age |-> 0]
        /\ p.state \in States /\ p.level \in Levels /\ p.hold \in Nat /\ p.age \in Nat
    BY DEF Sound, Paths
  <2>2. Sound(z)
    BY <2>1 DEF Sound, Paths, LevelFits, OpenMeansNoHold, Accepts
  <2>3. AfterReport(p, r) = Fire(z, EventOf(r))
    BY <1>2 DEF AfterReport
  <2>4. z.state = p.state /\ z.level = p.level /\ z.hold = p.hold /\ z.age = 0
    BY <2>1
  <2> HIDE DEF z
  <2>5. CASE EventOf(r) = "bad"
    <3>1. /\ Sound(Fire(z, "bad"))
          /\ Fire(z, "bad").state = IF z.state = "DRAIN" THEN "DRAIN" ELSE "BACKOFF"
          /\ z.state \in {"DRAIN", "BACKOFF"} => Fire(z, "bad").hold = z.hold
          /\ z.state \in {"OK", "DEGRADED"} =>
                \E l \in Levels : Fire(z, "bad").hold = HoldS[l]
          /\ Fire(z, "bad").level >= z.level
          /\ Fire(z, "bad").age <= z.age
      BY <2>2, FireBad
    <3>2. Fire(z, "bad").age \in Nat
      BY <3>1 DEF Sound, Paths
    <3>. QED BY <1>2, <2>1, <2>3, <2>4, <2>5, <3>1, <3>2 DEF Accepts, States
  <2>6. CASE EventOf(r) \in {"starved", "answered"}
    <3> DEFINE e == EventOf(r)
    <3>1. /\ Sound(Fire(z, e))
          /\ Fire(z, e).state = "DRAIN"
          /\ Fire(z, e).hold = IF z.state = "DRAIN" THEN z.hold ELSE DrainS
          /\ Fire(z, e).level >= z.level
          /\ Fire(z, e).age <= z.age
      BY <2>2, <2>6, FireStall
    <3>2. Fire(z, e).age \in Nat
      BY <3>1 DEF Sound, Paths
    <3>. QED BY <1>2, <2>1, <2>3, <2>4, <3>1, <3>2 DEF Accepts, States
  <2>. QED BY <2>5, <2>6, ReportEvent
<1>. QED BY <1>1, <1>2

-----------------------------------------------------------------------------
\* The machine starts sound.
LEMMA InitInv == Init => SendInv
BY DEF Init, SendInv, TypeOK, Fresh, Paths, States, Levels, LevelFits,
       OpenMeansNoHold, Accepts, AgeIsEarned

\* SendInv is Sound with the history variable beside it.
LEMMA InvIsSound ==
  SendInv <=> /\ Sound(path) /\ AgeIsEarned
              /\ last \in {"time", "plan", "bad", "good", "nomem"} /\ steady \in 0..AgeCap
BY DEF SendInv, TypeOK, Sound

\* A step that takes no time keeps the calm timer behind the history variable.
LEMMA WatchKeepsAge ==
  ASSUME SendInv, Sound(path'), Watch,
         last' \in {"time", "plan", "bad", "good", "nomem"},
         path'.age <= path.age,
         path'.level # path.level => path'.age = 0,
         last' = "bad" => path'.age = 0
  PROVE  SendInv'
<1>1. path.age \in Nat /\ steady \in 0..AgeCap /\ path.age <= steady /\ path'.age \in Nat
  BY InvIsSound DEF Sound, Paths, AgeIsEarned
<1>2. steady' \in 0..AgeCap /\ path'.age <= steady'
  BY <1>1 DEF Watch
<1>. QED BY <1>2 DEF SendInv, TypeOK, AgeIsEarned, Sound

LEMMA NextInv == SendInv /\ [Next]_vars => SendInv'
<1> SUFFICES ASSUME SendInv, [Next]_vars PROVE SendInv'
  OBVIOUS
<1>0. Sound(path) /\ path.age \in Nat /\ path.level \in Int /\ path.hold \in Nat
  BY InvIsSound DEF Sound, Paths, Levels
<1> DEFINE t == Timed(path)
<1>1. /\ Sound(t) /\ t.age <= path.age /\ t.age \in Nat /\ t.level \in Int
      /\ t.level # path.level => t.age = 0
  BY <1>0, TimedMoves DEF Sound, Paths, Levels
<1>2. CASE Tick
  <2>1. /\ path' = Older(path) /\ last' = "time"
        /\ steady' = IF steady < AgeCap THEN steady + 1 ELSE steady
    BY <1>2 DEF Tick
  <2>2. path' = [state |-> path.state, level |-> path.level,
                 hold |-> IF path.hold > 0 THEN path.hold - 1 ELSE 0,
                 age |-> IF path.hold = 0 /\ path.age < AgeCap THEN path.age + 1 ELSE path.age]
    BY <1>0, <2>1 DEF Older, Sound, Paths
  <2>3. path.age \in 0..AgeCap /\ steady \in 0..AgeCap /\ path.age <= steady
    BY InvIsSound DEF Sound, Paths, AgeIsEarned
  <2>4. Sound(path')
    BY <1>0, <2>2, <2>3 DEF Sound, Paths, LevelFits, OpenMeansNoHold, Accepts
  <2>5. AgeIsEarned' /\ steady' \in 0..AgeCap
    BY <2>1, <2>2, <2>3 DEF AgeIsEarned
  <2>. QED BY <2>1, <2>4, <2>5 DEF SendInv, TypeOK, Sound
<1>3. CASE Plan
  BY <1>1, <1>3, WatchKeepsAge DEF Plan
<1>4. CASE MemoryLow
  <2> DEFINE q == Fire(t, "nomem")
  <2>1. Sound(q) /\ q.age <= t.age /\ (q.level # t.level => q.age = 0)
    BY <1>1, FireStall
  <2>2. q.age \in Nat /\ q.level \in Int
    BY <2>1 DEF Sound, Paths, Levels
  <2>3. path' = q /\ last' = "nomem" /\ Watch
    BY <1>4 DEF MemoryLow
  <2> HIDE DEF q, t
  <2>4. q.age <= path.age /\ (q.level # path.level => q.age = 0)
    BY <1>0, <1>1, <2>1, <2>2
  <2>. QED BY <2>1, <2>3, <2>4, WatchKeepsAge
<1>5. ASSUME NEW r \in Reports, Observe(r) PROVE SendInv'
  <2> DEFINE q == AfterReport(t, r)
  <2>1. /\ Sound(q) /\ q.age <= t.age
        /\ IsBad(r) \/ q = t
        /\ IsBad(r) => q.age = 0
    BY <1>1, ReportMoves
  <2>2. q.age \in Nat
    BY <2>1 DEF Sound, Paths
  <2>3. path' = q /\ Watch /\ last' = IF IsBad(r) THEN "bad" ELSE "good"
    BY <1>5 DEF Observe
  <2> HIDE DEF q, t
  <2>4. q.age <= path.age /\ (q.level # path.level => q.age = 0)
    BY <1>0, <1>1, <2>1, <2>2
  <2>. QED BY <2>1, <2>3, <2>4, WatchKeepsAge
<1>6. CASE UNCHANGED vars
  BY <1>6 DEF vars, SendInv, TypeOK, AgeIsEarned, LevelFits, OpenMeansNoHold, Accepts
<1>. QED BY <1>2, <1>3, <1>4, <1>5, <1>6 DEF Next

\* For every table of levels: the types, the agreement of state and level, and
\* no client accepted while a hold runs.
THEOREM Invariance == Spec => []SendInv
<1>. QED BY InitInv, NextInv, PTL DEF Spec

\* For every table of levels the machine's fields keep their types.
THEOREM TypeCorrect == Spec => []TypeOK
<1>1. SendInv => TypeOK
  BY DEF SendInv
<1>. QED BY <1>1, Invariance, PTL

-----------------------------------------------------------------------------
\* One step lowers the level by one, after a whole calm_s of steady good time.
LEMMA StepGivesUpSlowly ==
  ASSUME SendInv, [Next]_vars, path'.level < path.level
  PROVE  path'.level = path.level - 1 /\ steady >= CalmS[path.level]
<1>0. /\ Sound(path) /\ path.age <= steady /\ path.level \in Levels
      /\ path.age \in Nat /\ steady \in Nat
  BY InvIsSound DEF Sound, Paths, AgeIsEarned
<1>1. CalmS[path.level] \in Nat
  BY <1>0
<1> DEFINE t == Timed(path)
<1>2. /\ Sound(t) /\ t.level \in Int /\ path.level \in Int
      /\ t.level < path.level =>
            t.level = path.level - 1 /\ path.age >= CalmS[path.level]
      /\ t.level <= path.level
  BY <1>0, TimedMoves DEF Sound, Paths, Levels
<1>3. \/ path'.level = path.level
      \/ path'.level \in Int /\ path'.level >= t.level
  <2>1. CASE Tick \/ UNCHANGED vars
    BY <2>1, <1>0 DEF Tick, Older, vars, Sound, Paths
  <2>2. CASE Plan
    BY <2>2, <1>2 DEF Plan
  <2>3. CASE MemoryLow
    <3>1. Fire(t, "nomem").level >= t.level /\ Sound(Fire(t, "nomem"))
      BY <1>2, FireStall
    <3>. QED BY <2>3, <3>1 DEF MemoryLow, Sound, Paths, Levels
  <2>4. ASSUME NEW r \in Reports, Observe(r)
        PROVE  path'.level \in Int /\ path'.level >= t.level
    <3>1. AfterReport(t, r).level >= t.level /\ Sound(AfterReport(t, r))
      BY <1>2, ReportMoves
    <3>. QED BY <2>4, <3>1 DEF Observe, Sound, Paths, Levels
  <2>. QED BY <2>1, <2>2, <2>3, <2>4 DEF Next
<1> HIDE DEF t
<1>. QED BY <1>0, <1>1, <1>2, <1>3

\* A level that was needed is given up one step at a time, whatever the table.
THEOREM GivenUpSlowly == Spec => LevelIsGivenUpSlowly
<1>1. SendInv /\ [Next]_vars =>
        [path'.level < path.level =>
           path'.level = path.level - 1 /\ steady >= CalmS[path.level]]_vars
  BY StepGivesUpSlowly
<1>. QED BY <1>1, Invariance, PTL DEF Spec, LevelIsGivenUpSlowly

-----------------------------------------------------------------------------
(* The embargo.                                                            *)

\* The three permissions decide the door.
LEMMA DoorOf ==
  ASSUME Sound(path)
  PROVE  /\ Door = "open" <=> path.state \in {"OK", "DEGRADED"}
         /\ Door = "refusing" <=> path.state = "BACKOFF"
         /\ Door = "sealed" <=> path.state = "DRAIN"
BY DEF Door, Accepts, Writes, Sound, Paths, States

\* Every step of the machine is a step of the embargo, or leaves it alone.
LEMMA StepKeepsPromise ==
  ASSUME SendInv, SendInv', [Next]_vars
  PROVE  [Promise!Next]_(Promise!vars)
<1> DEFINE t == Timed(path)
<1>0. Sound(path) /\ Sound(path') /\ path.hold \in Nat
  BY InvIsSound, NextInv DEF SendInv, TypeOK, Sound, Paths
<1>1. /\ Sound(t) /\ t.hold = path.hold
      /\ Accepts(path) => Accepts(t)
      /\ ~Accepts(path) => t = path \/ (path.hold = 0 /\ Accepts(t))
  BY <1>0, TimedMoves
<1>2. /\ Door = "open" <=> Accepts(path)
      /\ Door = "refusing" <=> path.state = "BACKOFF"
      /\ Door = "sealed" <=> path.state = "DRAIN"
  BY <1>0, DoorOf DEF Accepts
<1>3. /\ Door' = "open" <=> path'.state \in {"OK", "DEGRADED"}
      /\ Door' = "refusing" <=> path'.state = "BACKOFF"
      /\ Door' = "sealed" <=> path'.state = "DRAIN"
  BY <1>0 DEF Door, Accepts, Writes, Sound, Paths, States
<1>4. /\ Accepts(path) => path.hold = 0
      /\ path'.state \in {"OK", "DEGRADED"} => path'.hold = 0
      /\ Accepts(t) => t.hold = 0
  BY <1>0, <1>1 DEF Sound, OpenMeansNoHold, Accepts
<1>5. Door \in {"open", "refusing", "sealed"}
  BY DEF Door
<1>6. path.state \in States /\ path'.state \in States /\ t.state \in States
  BY <1>0, <1>1 DEF Sound, Paths
<1>7. CASE Tick
  <2>1. path'.state = path.state
        /\ path'.hold = IF path.hold > 0 THEN path.hold - 1 ELSE 0
    BY <1>0, <1>7 DEF Tick, Older, Sound, Paths
  <2>2. Door' = Door
    BY <2>1, <1>2, <1>3, <1>5 DEF Accepts
  <2>. QED BY <1>0, <2>1, <2>2 DEF Promise!Next, Promise!Pass, Promise!vars
<1>9. ASSUME \/ path' = t
             \/ path'.state = t.state /\ path'.hold = t.hold /\ ~Accepts(t)
             \/ path'.state = "DRAIN" /\ path'.hold = DrainS /\ t.state # "DRAIN"
             \/ /\ path'.state = "BACKOFF" /\ Accepts(t)
                /\ \E l \in Levels : path'.hold = HoldS[l]
      PROVE  [Promise!Next]_(Promise!vars)
  <2>1. CASE path' = t
    <3>1. CASE path.hold = 0 /\ Door # "open" /\ Door' = "open"
      BY <1>4, <2>1, <3>1, <1>1 DEF Promise!Next, Promise!Reopen
    <3>2. CASE Door' = Door
      BY <1>1, <2>1, <3>2 DEF Promise!vars
    <3>. QED BY <1>1, <1>2, <1>3, <1>6, <2>1, <3>1, <3>2 DEF Accepts, States
  <2>2. CASE path'.state = t.state /\ path'.hold = t.hold /\ ~Accepts(t)
    <3>1. t = path
      BY <1>1, <2>2
    <3>2. Door' = Door /\ path'.hold = path.hold
      BY <1>2, <1>3, <1>5, <1>6, <2>2, <3>1 DEF Accepts, States
    <3>. QED BY <3>2 DEF Promise!vars
  <2>3. CASE path'.state = "DRAIN" /\ path'.hold = DrainS /\ t.state # "DRAIN"
    <3>1. Door # "sealed" \/ path.hold = 0
      BY <1>1, <1>2, <2>3 DEF Accepts
    <3>2. Door' = "sealed"
      BY <1>3, <2>3
    <3>. QED BY <2>3, <3>1, <3>2 DEF Promise!Next, Promise!Seal
  <2>4. CASE /\ path'.state = "BACKOFF" /\ Accepts(t)
             /\ \E l \in Levels : path'.hold = HoldS[l]
    <3>1. Door = "open" \/ path.hold = 0
      BY <1>1, <1>2, <2>4
    <3>2. Door' = "refusing"
      BY <1>3, <2>4
    <3>. QED BY <2>4, <3>1, <3>2 DEF Promise!Next, Promise!Refuse
  <2>. QED BY <1>9, <2>1, <2>2, <2>3, <2>4
<1>8. CASE Plan
  BY <1>8, <1>9 DEF Plan
<1>10. CASE MemoryLow
  <2>1. /\ Fire(t, "nomem").state = "DRAIN"
        /\ Fire(t, "nomem").hold = IF t.state = "DRAIN" THEN t.hold ELSE DrainS
    BY <1>1, FireStall
  <2>2. path' = Fire(t, "nomem")
    BY <1>10 DEF MemoryLow
  <2>. QED BY <1>9, <2>1, <2>2 DEF Accepts
<1>11. ASSUME NEW r \in Reports, Observe(r) PROVE [Promise!Next]_(Promise!vars)
  <2> DEFINE q == AfterReport(t, r)
  <2>1. \/ q = t
        \/ q.state = t.state /\ q.hold = t.hold /\ ~Accepts(t)
        \/ q.state = "DRAIN" /\ q.hold = DrainS /\ t.state # "DRAIN"
        \/ /\ q.state = "BACKOFF" /\ Accepts(t)
           /\ \E l \in Levels : q.hold = HoldS[l]
    BY <1>1, ReportMoves
  <2>2. path' = q
    BY <1>11 DEF Observe
  <2> HIDE DEF q
  <2>. QED BY <1>9, <2>1, <2>2
<1>12. CASE UNCHANGED vars
  BY <1>12 DEF vars, Door, Accepts, Writes, Promise!vars
<1>. QED BY <1>7, <1>8, <1>10, <1>11, <1>12 DEF Next

\* The send path implements the embargo: a drain lasts DRAIN_S whatever happens
\* in it, and a refused client waits exactly until the hold is over.
THEOREM Implements == Spec => KeepsPromise
<1>1. Init => Promise!Init
  BY DEF Init, Fresh, Promise!Init, Door, Accepts
<1>2. SendInv /\ SendInv' /\ [Next]_vars => [Promise!Next]_(Promise!vars)
  BY StepKeepsPromise
<1>. QED BY <1>1, <1>2, Invariance, PTL DEF Spec, KeepsPromise, Promise!Spec
=============================================================================
