-------------------------------- MODULE Sntp --------------------------------
(***************************************************************************)
(* The time client (sntp_pico.py, SntpClock; time_select.py): an estimate  *)
(* of the time, learned in bursts of queries, and the mapping from ticks   *)
(* to UTC that is issued.  The two part whenever the tower rings, and the  *)
(* mapping follows the estimate without ever going back.                   *)
(*                                                                         *)
(* The client is a record s.  Rates are whole parts of Rate: a line of     *)
(* rate dr gains dr ticks in Rate.  What a burst measures, and the drift   *)
(* the fit makes of the samples so far, are free choices.                  *)
(***************************************************************************)
EXTENDS TickClock, Queues, FiniteSets, TLC

CONSTANTS
  Rate,          \* what rates are parts of
  Slew,          \* max_slew_ppm, in parts of Rate
  Drifts,        \* bound: drifts a fit may find, in parts of Rate
  Offsets,       \* bound: offsets a query may measure
  StepMs,        \* step_ms
  RttK,          \* rtt_k
  RttHist,       \* rtt_hist
  RelearnAfter,  \* RTT_RELEARN_AFTER
  MaxSegs        \* how many pieces of the mapping are kept (16 in the code)

ASSUME SntpAssumption ==
  /\ {Rate, Slew, StepMs, RttK, RttHist, RelearnAfter, MaxSegs} \subseteq Nat \ {0} /\ MaxSegs > 1
  /\ Offsets \subseteq Nat
  /\ Drifts \subseteq Int /\ 0 \in Drifts /\ \A dr \in Drifts : dr - Slew > -Rate

None == -1
NoEst == [known |-> FALSE, a |-> 0, dr |-> 0, ref |-> 0]

\* est: the fit; segs: the issued mapping, oldest piece first; since: the tick
\* the session began at; issue: the latest stamp, for the guard.
NewSntp(time) ==
  [ticks |-> NewTicks(time), server |-> 0, est |-> NoEst, rtts |-> <<>>, rejects |-> 0,
   segs |-> <<>>, ringing |-> FALSE, null |-> FALSE, session |-> 0, since |-> 0,
   kick |-> FALSE, issue |-> [tick |-> None, utc |-> None], hits |-> 0]

Magnitude(x) == IF x < 0 THEN -x ELSE x
Newest(seq, n) == SubSeq(seq, IF Len(seq) > n THEN Len(seq) - n + 1 ELSE 1, Len(seq))

\* round(n / d): to the nearest, halves to the even one.
Rounded(n, d) ==
  LET q == n \div d
      r == 2 * (n % d)
  IN  IF r > d \/ (r = d /\ q % 2 = 1) THEN q + 1 ELSE q

-----------------------------------------------------------------------------
(* The estimate and the issued mapping.                                    *)

Estimate(s, tick) == tick + s.est.a + Rounded(s.est.dr * (tick - s.est.ref), Rate)

Piece(tick, utc, dr) == [t0 |-> tick, u0 |-> utc, dr |-> dr]

\* The piece a tick falls into: before the first, the first one is extended.
PieceAt(segs, tick) ==
  LET begun == {i \in DOMAIN segs : segs[i].t0 <= tick}
  IN  IF begun = {} THEN segs[1] ELSE segs[CHOOSE i \in begun : \A j \in begun : j <= i]

Line(p, tick) == p.u0 + (tick - p.t0) + Rounded((tick - p.t0) * p.dr, Rate)

Issued(s, tick) == IF s.segs = <<>> THEN None ELSE Line(PieceAt(s.segs, tick), tick)

\* The mapping up to now, and then a new end; pieces of the future go.
Continued(s, now, end) ==
  LET past == {p \in {s.segs[i] : i \in DOMAIN s.segs} : p.t0 <= now}
  IN  Newest(Keeping(s.segs, past) \o end, MaxSegs)

\* A correction spread over ticks: faster or slower, then the estimate's rate.
SlewTo(now, utc, c, dr) ==
  LET sdr  == dr + (IF c > 0 THEN Slew ELSE -Slew)
      last == Rounded(Magnitude(c) * Rate, Slew)
  IN  <<Piece(now, utc, sdr), Piece(now + last, utc + last + Rounded(last * sdr, Rate), dr)>>

\* Mutant: a large correction steps, backward too.
Correction_StepsBack(s, now, c) ==
  LET m == Issued(s, now)
  IN  IF Magnitude(c) > StepMs THEN <<Piece(now, m + c, s.est.dr)>>
      ELSE IF c = 0 THEN <<Piece(now, m, s.est.dr)>> ELSE SlewTo(now, m, c, s.est.dr)

\* Forward, a large correction steps; backward and small ones slew.
Correction(s, now, c) ==
  LET m == Issued(s, now)
  IN  IF c > StepMs THEN <<Piece(now, m + c, s.est.dr)>>
      ELSE IF c = 0 THEN <<Piece(now, m, s.est.dr)>> ELSE SlewTo(now, m, c, s.est.dr)

\* _apply: the issued mapping moves onto the estimate.
Applied(s, now) ==
  CASE ~s.est.known   -> s
    [] s.est.known /\ s.segs = <<>> -> [s EXCEPT !.segs = <<Piece(now, Estimate(s, now), s.est.dr)>>]
    [] OTHER -> [s EXCEPT !.segs = Continued(s, now, Correction(s, now, Estimate(s, now) - Issued(s, now)))]

-----------------------------------------------------------------------------
(* Ringing.                                                                *)

\* The mapping becomes one straight line; without one, the session has no UTC.
Frozen(s, now) ==
  LET dr == IF s.est.known THEN s.est.dr ELSE PieceAt(s.segs, now).dr
      r  == [s EXCEPT !.session = @ + 1, !.ringing = TRUE, !.since = now, !.null = s.segs = <<>>]
  IN  IF s.segs = <<>> THEN r
      ELSE [r EXCEPT !.segs = Continued(s, now, <<Piece(now, Issued(s, now), dr)>>)]

\* Back to the estimate, and a burst is due at once.
Released(s, now) == [Applied([s EXCEPT !.ringing = FALSE, !.null = FALSE], now) EXCEPT !.kick = TRUE]

\* set_ringing, at a reading of the counter.
SetRinging(s, ringing, raw) ==
  LET c == [s EXCEPT !.ticks = Extend(s.ticks, raw)]
      t == Extended(s.ticks, raw)
  IN  IF ringing = s.ringing THEN s ELSE IF ringing THEN Frozen(c, t) ELSE Released(c, t)

-----------------------------------------------------------------------------
(* Stamps.                                                                 *)

Utc(s, tick) == IF s.ringing /\ s.null THEN None ELSE Issued(s, tick)

SyncState(s) ==
  CASE ~s.est.known \/ s.segs = <<>>           -> "unsynced"
    [] s.est.known /\ s.segs # <<>> /\ s.ringing -> "held"
    [] OTHER                                   -> "synced"

\* What stamp() says of a reading.
Stamp(s, raw) ==
  LET t == Extended(s.ticks, raw)
  IN  [tick |-> t, utc |-> Utc(s, t), session |-> s.session, ringing |-> s.ringing, sync |-> SyncState(s)]

\* What it leaves behind: a UTC below the latest is raised to it and counted.
Stamped(s, raw) ==
  LET t     == Extended(s.ticks, raw)
      u     == Utc(s, t)
      later == s.issue.tick = None \/ t >= s.issue.tick
      back  == u # None /\ s.issue.tick # None /\ later /\ u < s.issue.utc
  IN  [s EXCEPT !.ticks = Extend(@, raw),
                !.hits = IF back THEN @ + 1 ELSE @,
                !.issue = IF u = None \/ ~later THEN @
                          ELSE [tick |-> t, utc |-> IF back THEN @.utc ELSE u]]

-----------------------------------------------------------------------------
(* Bursts.                                                                 *)

NoReply == [rtt |-> None, off |-> 0, tick |-> 0]

\* The best of a burst is the quickest.
Better(best, r) == IF r.rtt # None /\ (best.rtt = None \/ r.rtt < best.rtt) THEN r ELSE best

\* Twice the median of a sequence.
Median2(xs) ==
  LET up == SortSeq(xs, <)
      m  == Len(xs) \div 2
  IN  IF Len(xs) % 2 = 1 THEN 2 * up[m + 1] ELSE up[m] + up[m + 1]

\* The gate: median + k * max(MAD, 1) of the round trips learned so far.
TooSlow(s, rtt) ==
  LET med2 == Median2(s.rtts)
      mad4 == Median2([i \in DOMAIN s.rtts |-> Magnitude(2 * s.rtts[i] - med2)])
  IN  Len(s.rtts) >= 3 /\ 4 * rtt > 2 * med2 + RttK * (IF mad4 > 4 THEN mad4 ELSE 4)

\* A sample is taken: the fit, and in free mode the mapping, follow.
Fitted(s, best, dr) == [s EXCEPT !.est = [known |-> TRUE, a |-> best.off, dr |-> dr, ref |-> best.tick]]

\* Mutant: a burst that began before the ringing moves the mapping.
Followed_Begun(s, now, began) == IF ~began THEN Applied(s, now) ELSE s

\* Only while nobody rings does the mapping follow; whether somebody did when
\* the burst began does not matter.
Followed(s, now, began) == IF ~s.ringing THEN Applied(s, now) ELSE s

\* _finish: a burst far slower than those before is left out, but not for ever.
Finished(s, best, dr, now, began) ==
  LET slow    == TooSlow(s, best.rtt)
      relearn == slow /\ s.rejects + 1 >= RelearnAfter
      past    == IF relearn THEN <<>> ELSE s.rtts
  IN  IF best.rtt = None THEN s
      ELSE IF slow /\ ~relearn THEN [s EXCEPT !.rejects = @ + 1]
      ELSE Followed([Fitted(s, best, dr) EXCEPT !.rejects = 0, !.rtts = Newest(Append(past, best.rtt), RttHist)],
                    now, began)

\* choose: the lowest rank that answered, the first of several.  0 is no answer.
Chosen(ranks) ==
  LET ok == {i \in DOMAIN ranks : ranks[i] # 0}
  IN  IF ok = {} THEN 0
      ELSE CHOOSE i \in ok : \A j \in ok : ranks[i] < ranks[j] \/ (ranks[i] = ranks[j] /\ i <= j)

\* _use: two servers are never mixed in one fit.
Used(s, server) ==
  IF server \in {0, s.server} THEN s
  ELSE IF s.server = 0 THEN [s EXCEPT !.server = server]
  ELSE [s EXCEPT !.server = server, !.est = NoEst, !.rtts = <<>>]
=============================================================================
