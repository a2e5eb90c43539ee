---------------------------- MODULE UdpLinkProofs ----------------------------
(***************************************************************************)
(* The link over UDP, for every number of boots and command seqs and every *)
(* back-off: the Pico is off the air only when this boot was told to be,   *)
(* and radio cycles for a silent Sandbells come further apart.             *)
(***************************************************************************)
EXTENDS UdpLink, QueueFacts

\* The AckWatch: since is the silence it has seen, tries the rejoins it made.
Watches == [since : None..Longest, ackAt : None..OkS, tries : 0..Len(Backoff)]

UdpTypeOK ==
  /\ boot \in Nat
  /\ cmd \in [mode : {"udp", "off"}, last : Nat, pending : BOOLEAN, radioOff : BOOLEAN]
  /\ watch \in Watches
  /\ waited \in 0..Longest /\ cycles \in 0..Len(Backoff)
  /\ \A m \in commands : m.seq \in Nat

\* A command is accepted, and a turn later applied, only when it names this
\* boot; commands under way are never forgotten.
MeantInv ==
  cmd.pending \/ cmd.mode = "off" => \E m \in commands : m.boot = boot

\* AckWatch counts the rejoins as the history does, and no silence it has seen
\* is longer than the time since the last ack, radio cycle or boot.
BackoffInv ==
  /\ watch.tries = cycles
  /\ watch.since <= waited

UdpInv == UdpTypeOK /\ MeantInv /\ BackoffInv

-----------------------------------------------------------------------------
(* The longest wait exists, because a back-off is finite.                  *)

\* The waits are bounded: else take the shortest prefix of Backoff that is not.
LEMMA BackoffBounded ==
  \E u \in Nat : \A i \in DOMAIN Backoff : Backoff[i] <= u
<1> DEFINE Bounded(n) == \E u \in Nat : \A i \in 1..n : Backoff[i] <= u
<1> DEFINE Bad == {n \in 0..Len(Backoff) : ~Bounded(n)}
<1>1. Len(Backoff) \in Nat /\ DOMAIN Backoff = 1..Len(Backoff)
      /\ \A i \in 1..Len(Backoff) : Backoff[i] \in Nat
  BY UdpAssumption
<1>2. Bad \subseteq Nat /\ Bounded(0)
  BY <1>1
<1>3. ASSUME NEW n \in 1..Len(Backoff), Bounded(n - 1) PROVE Bounded(n)
  <2>1. PICK u \in Nat : \A i \in 1..(n - 1) : Backoff[i] <= u
    BY <1>3
  <2>2. Backoff[n] \in Nat /\ \A i \in 1..n : i = n \/ i \in 1..(n - 1)
    BY <1>1
  <2>3. CASE Backoff[n] <= u
    BY <2>1, <2>2, <2>3
  <2>4. CASE u < Backoff[n]
    <3>1. \A i \in 1..n : Backoff[i] \in Nat /\ Backoff[i] <= Backoff[n]
      BY <1>1, <2>1, <2>2, <2>4
    <3>. QED BY <2>2, <3>1
  <2>5. Backoff[n] <= u \/ u < Backoff[n]
    BY <2>1, <2>2
  <2> HIDE DEF Bounded
  <2>. QED BY <2>3, <2>4, <2>5
<1> HIDE DEF Bounded
<1>4. ASSUME Bad # {} PROVE FALSE
  <2>1. PICK n \in Bad : \A k \in Bad : n <= k
    BY <1>2, <1>4, LeastNatural
  <2>2. n \in 1..Len(Backoff)
    BY <1>1, <1>2, <2>1
  <2>3. n - 1 \in 0..Len(Backoff) /\ n - 1 \notin Bad
    BY <1>1, <2>1, <2>2
  <2>. QED BY <1>3, <2>1, <2>2, <2>3
<1>5. Bounded(Len(Backoff))
  BY <1>1, <1>4
<1>. QED BY <1>1, <1>5 DEF Bounded

LEMMA LongestType == Longest \in Nat \ {0} /\ Longest >= DeadS
<1> DEFINE Waits == {DeadS} \cup {Backoff[i] : i \in DOMAIN Backoff}
<1> DEFINE Tops == {u \in Nat : \A w \in Waits : w <= u}
<1>1. Waits \subseteq Nat /\ DeadS \in Nat \ {0}
  BY UdpAssumption
<1>2. Tops # {}
  <2>1. PICK u \in Nat : \A i \in DOMAIN Backoff : Backoff[i] <= u
    BY BackoffBounded
  <2> DEFINE v == IF u > DeadS THEN u ELSE DeadS
  <2>2. v \in Nat /\ \A w \in Waits : w <= v
    BY <1>1, <2>1
  <2>. QED BY <2>2
<1>3. PICK top \in Tops : \A u \in Tops : top <= u
  BY <1>2, LeastNatural
<1>4. \E m \in Waits : \A w \in Waits : w <= m
  <2>1. SUFFICES ASSUME \A m \in Waits : \E w \in Waits : ~(w <= m) PROVE FALSE
    OBVIOUS
  <2>2. top \notin Waits
    BY <1>3, <2>1
  <2>3. \A w \in Waits : w <= top - 1
    BY <1>1, <1>3, <2>2
  <2>4. top - 1 \in Tops
    BY <1>1, <1>3, <2>3
  <2>. QED BY <1>3, <2>4
<1>5. \E m \in Waits : \A i \in DOMAIN Backoff : m >= DeadS /\ m >= Backoff[i]
  BY <1>1, <1>4
<1>6. Longest \in Waits /\ Longest >= DeadS
  <2>1. Len(Backoff) \in Nat \ {0} /\ DOMAIN Backoff = 1..Len(Backoff)
    BY UdpAssumption, EmptySeq
  <2>2. 1 \in DOMAIN Backoff
    BY <2>1
  <2>. QED BY <1>5, <2>2 DEF Longest
<1>. QED BY <1>1, <1>6

LEMMA Lengths == Len(Backoff) \in Nat \ {0} /\ \A n \in 1..Len(Backoff) : Backoff[n] \in Nat
BY UdpAssumption, EmptySeq

LEMMA WaitType ==
  ASSUME NEW n \in 0..Len(Backoff)
  PROVE  WaitS(n) \in Nat /\ WaitS(n) > 0
<1>1. DeadS \in Nat \ {0}
  BY UdpAssumption
<1>2. n # 0 => Backoff[n] \in Nat
  BY Lengths
<1>. QED BY <1>1, <1>2 DEF WaitS

-----------------------------------------------------------------------------
(* What the methods of AckWatch do to a watch.                             *)

\* Ages grow together: the one that was not ahead does not get ahead.
LEMMA OlderType ==
  ASSUME NEW cap \in Nat, NEW age \in None..cap
  PROVE  /\ Older(age, cap) \in None..cap
         /\ age \in 0..cap => Older(age, cap) \in 0..cap
         /\ age = None => Older(age, cap) = None
BY DEF Older, None

LEMMA OlderOrder ==
  ASSUME NEW cap \in Nat, NEW a \in None..cap, NEW b \in 0..cap, a <= b
  PROVE  Older(a, cap) <= Older(b, cap)
BY DEF Older, None

LEMMA OlderWatchType ==
  ASSUME NEW w \in Watches
  PROVE  /\ OlderWatch(w) \in Watches
         /\ OlderWatch(w).tries = w.tries
         /\ OlderWatch(w).since = Older(w.since, Longest)
<1>1. OkS \in Nat /\ Longest \in Nat
  BY UdpAssumption, LongestType
<1>2. Older(w.since, Longest) \in None..Longest /\ Older(w.ackAt, OkS) \in None..OkS
  BY <1>1, OlderType DEF Watches
<1>. QED BY <1>2 DEF OlderWatch, Watches

LEMMA SentType ==
  ASSUME NEW w \in Watches
  PROVE  /\ Sent(w) \in Watches /\ Sent(w).tries = w.tries
         /\ Sent(w).since = w.since \/ Sent(w).since = 0
BY LongestType DEF Sent, Watches, None

LEMMA FreshWatches ==
  /\ NewWatch \in Watches /\ NewWatch.tries = 0 /\ NewWatch.since = None
  /\ \A w \in Watches : /\ Acked(w) \in Watches /\ Acked(w).tries = 0 /\ Acked(w).since = 0
                        /\ Restarted(w) \in Watches /\ Restarted(w).tries = w.tries
                        /\ Restarted(w).since = None
<1>1. OkS \in Nat /\ Longest \in Nat /\ Len(Backoff) \in Nat
  BY UdpAssumption, LongestType, Lengths
<1>. QED BY <1>1 DEF NewWatch, Acked, Restarted, Watches, None

LEMMA TriedType ==
  ASSUME NEW w \in Watches
  PROVE  /\ Tried(w) \in Watches /\ Tried(w).since = 0
         /\ Tried(w).tries = IF w.tries < Len(Backoff) THEN w.tries + 1 ELSE w.tries
<1>1. Longest \in Nat /\ Len(Backoff) \in Nat
  BY LongestType, Lengths
<1>2. w.tries \in 0..Len(Backoff) /\ w = [w EXCEPT !.tries = w.tries]
  BY DEF Watches
<1>3. DOMAIN w = {"since", "ackAt", "tries"}
  BY DEF Watches
<1>4. ASSUME NEW n \in 0..Len(Backoff), Tried(w) = [w EXCEPT !.since = 0, !.tries = n]
      PROVE  Tried(w) \in Watches /\ Tried(w).since = 0 /\ Tried(w).tries = n
  <2>1. 0 \in None..Longest
    BY <1>1 DEF None
  <2>2. [w EXCEPT !.since = 0, !.tries = n] \in Watches
    BY <2>1 DEF Watches
  <2>3. [w EXCEPT !.since = 0, !.tries = n].since = 0 /\ [w EXCEPT !.since = 0, !.tries = n].tries = n
    BY DEF Watches
  <2>. QED BY <1>4, <2>2, <2>3
<1>5. CASE w.tries < Len(Backoff)
  <2>1. Tried(w) = [w EXCEPT !.since = 0, !.tries = w.tries + 1]
    BY <1>5 DEF Tried
  <2>2. w.tries + 1 \in 0..Len(Backoff)
    BY <1>1, <1>2, <1>5
  <2>. QED BY <1>4, <1>5, <2>1, <2>2
<1>6. CASE ~(w.tries < Len(Backoff))
  <2>1. Tried(w) = [w EXCEPT !.since = 0, !.tries = w.tries]
    BY <1>6 DEF Tried
  <2>. QED BY <1>2, <1>4, <1>6, <2>1
<1>. QED BY <1>5, <1>6

-----------------------------------------------------------------------------
(* The invariant.                                                          *)

LEMMA InitInv == Init => UdpInv
<1>1. Longest \in Nat /\ Len(Backoff) \in Nat /\ NewWatch \in Watches
  BY LongestType, Lengths, FreshWatches
<1>2. NewCmd \in [mode : {"udp", "off"}, last : Nat, pending : BOOLEAN, radioOff : BOOLEAN]
      /\ ~NewCmd.pending /\ NewCmd.mode = "udp"
  BY DEF NewCmd
<1>3. NewWatch.tries = 0 /\ NewWatch.since <= 0
  BY FreshWatches DEF None
<1> SUFFICES ASSUME Init PROVE UdpInv
  OBVIOUS
<1>4. UdpTypeOK
  BY <1>1, <1>2 DEF Init, UdpTypeOK
<1>5. MeantInv
  BY <1>2 DEF Init, MeantInv
<1>6. BackoffInv
  BY <1>3 DEF Init, BackoffInv
<1>. QED BY <1>4, <1>5, <1>6 DEF UdpInv

\* A turn applies what an earlier one accepted, and accepts only a command
\* that names this boot.
LEMMA TurnMeant ==
  ASSUME UdpInv, NEW m \in commands \cup {NoCommand},
         cmd' = CommandTurn(cmd, m), boot' = boot, commands' = commands
  PROVE  /\ cmd' \in [mode : {"udp", "off"}, last : Nat, pending : BOOLEAN, radioOff : BOOLEAN]
         /\ MeantInv'
<1> DEFINE c == CmdApply(cmd)
<1> DEFINE Cmds == [mode : {"udp", "off"}, last : Nat, pending : BOOLEAN, radioOff : BOOLEAN]
<1>1. cmd \in Cmds /\ MeantInv /\ (m # NoCommand => m \in commands /\ m.seq \in Nat)
  BY DEF UdpInv, UdpTypeOK
<1>2. /\ c \in Cmds
      /\ c.pending \/ c.mode = "off" => cmd.pending \/ cmd.mode = "off"
  BY <1>1 DEF CmdApply
<1> HIDE DEF c
<1>3. CASE c.mode = "udp" /\ Accepts(c, m)
  <2>1. cmd' = [c EXCEPT !.last = m.seq, !.pending = TRUE]
    BY <1>3 DEF CommandTurn, CmdPoll, c
  <2>2. m \in commands /\ m.boot = boot /\ m.seq \in Nat
    BY <1>1, <1>3 DEF Accepts
  <2>. QED BY <1>2, <2>1, <2>2 DEF MeantInv
<1>4. CASE ~(c.mode = "udp" /\ Accepts(c, m))
  <2>1. cmd' = c
    BY <1>4 DEF CommandTurn, CmdPoll, c
  <2>. QED BY <1>1, <1>2, <2>1 DEF MeantInv
<1>. QED BY <1>3, <1>4

LEMMA PollInv ==
  ASSUME UdpInv, NEW m \in commands \cup {NoCommand}, NEW b, NEW state, Poll(m, b, state)
  PROVE  UdpInv'
<1>1. cmd' \in [mode : {"udp", "off"}, last : Nat, pending : BOOLEAN, radioOff : BOOLEAN]
      /\ MeantInv'
  BY TurnMeant DEF Poll
<1>2. \/ watch' = Acked(watch) /\ waited' = 0 /\ cycles' = 0
      \/ UNCHANGED <<watch, waited, cycles>>
  BY DEF Poll
<1>3. Longest \in Nat /\ Len(Backoff) \in Nat
  BY LongestType, Lengths
<1>4. /\ watch' \in Watches /\ waited' \in 0..Longest /\ cycles' \in 0..Len(Backoff)
      /\ BackoffInv'
  BY <1>2, <1>3, FreshWatches DEF UdpInv, UdpTypeOK, BackoffInv
<1>. QED BY <1>1, <1>4 DEF Poll, UdpInv, UdpTypeOK

LEMMA SendInv ==
  ASSUME UdpInv, NEW kind, NEW ok \in BOOLEAN, Send(kind, ok)
  PROVE  UdpInv'
<1>1. watch' \in Watches /\ watch'.tries = watch.tries
      /\ (watch'.since = watch.since \/ watch'.since = 0)
  BY SentType DEF Send, UdpInv, UdpTypeOK
<1>2. waited' = waited /\ cycles' = cycles /\ waited \in 0..Longest
  BY DEF Send, past, UdpInv, UdpTypeOK
<1>3. Longest \in Nat
  BY LongestType
<1>4. BackoffInv'
  BY <1>1, <1>2, <1>3 DEF UdpInv, BackoffInv
<1>. QED BY <1>1, <1>2, <1>4 DEF Send, UdpInv, UdpTypeOK, MeantInv

\* A link pass lets the silence and the wait grow together, unless it cycles
\* the radio, which starts both anew and counts on both sides.
LEMMA PassInv == UdpInv /\ Pass => UdpInv'
<1> SUFFICES ASSUME UdpInv, Pass PROVE UdpInv'
  OBVIOUS
<1>1. /\ watch \in Watches /\ waited \in 0..Longest /\ watch.since \in None..Longest
      /\ watch.since <= waited /\ watch.tries = cycles /\ cycles \in 0..Len(Backoff)
      /\ Longest \in Nat /\ Len(Backoff) \in Nat
  BY LongestType, Lengths DEF UdpInv, UdpTypeOK, BackoffInv, Watches
<1>2. /\ OlderWatch(watch) \in Watches /\ OlderWatch(watch).tries = cycles
      /\ OlderWatch(watch).since <= Older(waited, Longest)
      /\ Older(waited, Longest) \in 0..Longest
  <2>1. Older(watch.since, Longest) <= Older(waited, Longest)
    BY <1>1, OlderOrder
  <2>2. Older(waited, Longest) \in 0..Longest
    <3>1. waited \in None..Longest
      BY <1>1 DEF None
    <3>. QED BY <1>1, <3>1, OlderType
  <2>. QED BY <1>1, <2>1, <2>2, OlderWatchType
<1>3. boot' = boot /\ commands' = commands
      /\ cmd' \in {cmd, [cmd EXCEPT !.radioOff = TRUE]}
  BY DEF Pass, Passes, PassOff, PassBack, PassUp, PassLost, PassDead, air
<1>4. MeantInv' /\ cmd' \in [mode : {"udp", "off"}, last : Nat, pending : BOOLEAN, radioOff : BOOLEAN]
  BY <1>3 DEF UdpInv, UdpTypeOK, MeantInv
<1>5. CASE /\ waited' = Older(waited, Longest) /\ cycles' = cycles
           /\ watch' \in {OlderWatch(watch), Restarted(OlderWatch(watch))}
  BY <1>1, <1>2, <1>3, <1>4, <1>5, FreshWatches DEF UdpInv, UdpTypeOK, BackoffInv, None
<1>6. CASE /\ waited' = 0 /\ watch' = Tried(OlderWatch(watch))
           /\ cycles' = IF cycles < Len(Backoff) THEN cycles + 1 ELSE cycles
  <2>1. /\ watch' \in Watches /\ watch'.since = 0
        /\ watch'.tries = cycles' /\ cycles' \in 0..Len(Backoff)
    BY <1>1, <1>2, <1>6, TriedType
  <2>. QED BY <1>1, <1>3, <1>4, <1>6, <2>1 DEF UdpInv, UdpTypeOK, BackoffInv
<1>. QED BY <1>5, <1>6 DEF Pass, Passes, PassOff, PassBack, PassUp, PassLost, PassDead

LEMMA NextInv == UdpInv /\ [Next]_vars => UdpInv'
<1> SUFFICES ASSUME UdpInv, [Next]_vars PROVE UdpInv'
  OBVIOUS
<1>1. ASSUME NEW m \in commands \cup {NoCommand}, NEW b, NEW state, Poll(m, b, state)
      PROVE  UdpInv'
  BY <1>1, PollInv
<1>2. ASSUME NEW kind, NEW ok \in BOOLEAN, Send(kind, ok) PROVE UdpInv'
  BY <1>2, SendInv
<1>3. CASE Pass
  BY <1>3, PassInv
<1>4. CASE Reboot
  <2>1. Longest \in Nat /\ Len(Backoff) \in Nat
    BY LongestType, Lengths
  <2>2. NewCmd \in [mode : {"udp", "off"}, last : Nat, pending : BOOLEAN, radioOff : BOOLEAN]
        /\ ~NewCmd.pending /\ NewCmd.mode = "udp"
    BY DEF NewCmd
  <2>3. NewWatch \in Watches /\ NewWatch.tries = 0 /\ NewWatch.since <= 0
    BY FreshWatches DEF None
  <2>4. UdpTypeOK'
    BY <1>4, <2>1, <2>2, <2>3 DEF Reboot, UdpInv, UdpTypeOK, air
  <2>5. MeantInv' /\ BackoffInv'
    BY <1>4, <2>2, <2>3 DEF Reboot, MeantInv, BackoffInv
  <2>. QED BY <2>4, <2>5 DEF UdpInv
<1>5. CASE World
  <2>1. ASSUME NEW b \in 1..Boots, NEW n \in 1..MaxSeq, Command(b, n) PROVE UdpInv'
    <3>1. UNCHANGED pico /\ UNCHANGED past /\ commands' = commands \cup {[boot |-> b, seq |-> n]}
      BY <2>1 DEF Command
    <3>2. n \in Nat
      BY UdpAssumption
    <3>. QED BY <3>1, <3>2 DEF pico, past, UdpInv, UdpTypeOK, MeantInv, BackoffInv
  <2>2. CASE commands' = commands /\ UNCHANGED <<boot, cmd, watch, past>>
    BY <2>2 DEF past, UdpInv, UdpTypeOK, MeantInv, BackoffInv
  <2>. QED BY <1>5, <2>1, <2>2 DEF World, AckLost, TowerMoves, WifiMoves, pico, air
<1>6. CASE UNCHANGED vars
  BY <1>6 DEF vars, pico, air, past, UdpInv, UdpTypeOK, MeantInv, BackoffInv
<1>. QED BY <1>1, <1>2, <1>3, <1>4, <1>5, <1>6 DEF Next

\* The invariant UdpInv, for every number of boots and every back-off.
THEOREM UdpInvariant == Spec => []UdpInv
BY InitInv, NextInv, PTL DEF Spec

-----------------------------------------------------------------------------
\* The Pico is off the air only because this very boot was told to be, however
\* late a command comes, however often, and whatever boot it was meant for
\* (cmd_check, cmd_poll, cmd_apply).
THEOREM OffOnlyWhenMeant == Spec => []OffIsMeant
<1>1. UdpInv => OffIsMeant
  BY DEF UdpInv, MeantInv, OffIsMeant
<1>. QED BY <1>1, UdpInvariant, PTL

\* A radio cycle for a silent Sandbells comes after the whole wait its number
\* asks for, counted from the last ack, cycle or boot and not from a Wi-Fi that
\* came back meanwhile (AckWatch, _udp_dead_step).
THEOREM CyclesBackOff == Spec => RejoinsBackOff
<1>1. UdpInv /\ [Next]_vars => [did' = "cycle" => Older(waited, Longest) >= WaitS(cycles)]_vars
  <2>1. ASSUME UdpInv, Next, did' = "cycle" PROVE Older(waited, Longest) >= WaitS(cycles)
    <3>1. PassDead
      BY <2>1 DEF Next, Poll, Send, Pass, PassOff, PassBack, PassUp, PassLost, Reboot,
                  World, Command, AckLost, TowerMoves, WifiMoves
    <3>2. /\ watch \in Watches /\ waited \in 0..Longest /\ watch.since \in None..Longest
          /\ watch.since <= waited /\ watch.tries = cycles /\ cycles \in 0..Len(Backoff)
          /\ Longest \in Nat
      BY <2>1, LongestType DEF UdpInv, UdpTypeOK, BackoffInv, Watches
    <3>3. Older(watch.since, Longest) >= WaitS(cycles)
      BY <3>1, <3>2, OlderWatchType DEF PassDead, DeadNow, Due
    <3>4. Older(watch.since, Longest) <= Older(waited, Longest)
      BY <3>2, OlderOrder
    <3>5. Older(watch.since, Longest) \in Int /\ Older(waited, Longest) \in Int /\ WaitS(cycles) \in Int
      <4>1. waited \in None..Longest
        BY <3>2 DEF None
      <4>2. Older(watch.since, Longest) \in None..Longest /\ Older(waited, Longest) \in None..Longest
        BY <3>2, <4>1, OlderType
      <4>3. WaitS(cycles) \in Nat
        BY <3>2, WaitType
      <4>. QED BY <3>2, <4>2, <4>3 DEF None
    <3>. QED BY <3>3, <3>4, <3>5
  <2>. QED BY <2>1
<1>. QED BY <1>1, UdpInvariant, PTL DEF Spec, RejoinsBackOff
=============================================================================
