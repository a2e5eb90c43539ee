------------------------ MODULE LinkSupervisorProofs ------------------------
(***************************************************************************)
(* Link supervision, for every choice of its times: the two records of a   *)
(* Pico reset agree, every radio reset has evidence of its own, and a Pico *)
(* reset still has, when it is made, the grounds it was asked for on.      *)
(***************************************************************************)
EXTENDS LinkSupervisor, TLAPS

-----------------------------------------------------------------------------
(* Ages.                                                                   *)

LEMMA Caps ==
  /\ SilentS \in Nat \ {0} /\ DeadS \in Nat \ {0} /\ SettleS \in Nat \ {0} /\ CalmS \in Nat \ {0}
  /\ PicoS \in Nat \ {0} /\ GatewayN \in Nat \ {0} /\ StallN \in Nat \ {0} /\ HoldS \in Nat
  /\ SilentS < DeadS /\ SilentS <= SettleS
  /\ \A d \in Late : d \in Nat \ {0}
BY LinkAssumption, SupervisorAssumption

LEMMA OlderType ==
  ASSUME NEW cap \in Nat, NEW age \in Ages(cap), NEW d \in Late
  PROVE  /\ Older(age, d, cap) \in Ages(cap)
         /\ Older(age, d, cap) = None <=> age = None
         /\ age <= Older(age, d, cap)
BY Caps DEF Older, Ages, None

LEMMA OlderOrder ==
  ASSUME NEW cap \in Nat, NEW a \in Ages(cap), NEW b \in 0..cap, a <= b, NEW d \in Late
  PROVE  Older(a, d, cap) <= Older(b, d, cap) /\ Older(b, d, cap) \in 0..cap
BY Caps DEF Older, Ages, None

LEMMA AgingType ==
  ASSUME NEW x \in Healths, NEW d \in Late
  PROVE  LET y == Aging(x, d)
         IN  /\ y \in Healths
             /\ y.state = x.state /\ y.latched = x.latched /\ y.asked = x.asked
             /\ y.dead = None <=> x.dead = None
             /\ y.radio = Older(x.radio, d, SettleS) /\ y.bad = Older(x.bad, d, PicoS)
<1> DEFINE y == Aging(x, d)
<1>1. /\ Older(x.dead, d, DeadS) \in Ages(DeadS) /\ (Older(x.dead, d, DeadS) = None <=> x.dead = None)
      /\ Older(x.radio, d, SettleS) \in Ages(SettleS) /\ Older(x.bad, d, PicoS) \in Ages(PicoS)
      /\ Older(x.calm, d, CalmS) \in Ages(CalmS) /\ Older(x.stall, d, SettleS) \in Ages(SettleS)
  BY Caps, OlderType DEF Healths
<1>. QED BY <1>1 DEF Aging, Healths

-----------------------------------------------------------------------------
(* What the parts of update() do to a LinkHealth object.                   *)

\* While the latest frame is that young, a LinkHealth that books a silence
\* waits for a radio reset to settle, or for the Pico reset.
Answered(x, age) ==
  \/ age >= SilentS \/ x.dead = None \/ x.state = "DEAD"
  \/ x.state = "RADIO_RESET" /\ x.radio # None /\ x.radio <= age

\* _spell touches the spell's own fields, and asks at most once.
LEMMA SpellFields ==
  ASSUME NEW x \in Healths, NEW bad \in BOOLEAN, NEW good \in BOOLEAN, NEW quiet,
         "pico_reset" \notin x.events, NEW r, r = Spell(x, bad, good, quiet)
  PROVE  /\ r \in Healths
         /\ r.dead = x.dead /\ r.radio = x.radio /\ r.latched = x.latched
         /\ r.state \in {x.state, "DEAD"}
         /\ "radio_reset" \in r.events <=> "radio_reset" \in x.events
         /\ r.asked <=> x.asked \/ "pico_reset" \in r.events
         /\ x.asked => "pico_reset" \notin r.events
         /\ r.asked /\ ~x.asked => r.bad >= PicoS
         /\ r.bad \in {x.bad, 0, None}
         /\ good => r.bad = None
<1> DEFINE s == SpellAges(x, bad, good)
<1>1. /\ s \in Healths
      /\ s.dead = x.dead /\ s.radio = x.radio /\ s.latched = x.latched /\ s.state = x.state
      /\ s.asked = x.asked /\ s.events = x.events
      /\ s.bad \in {x.bad, 0, None} /\ (good => s.bad = None)
  <2>1. None \in Ages(PicoS) /\ 0 \in Ages(PicoS) /\ None \in Ages(CalmS) /\ 0 \in Ages(CalmS)
    BY Caps DEF Ages, None
  <2>2. CASE good
    BY <2>1, <2>2 DEF SpellAges, Healths
  <2>3. CASE ~good /\ bad
    BY <2>1, <2>3 DEF SpellAges, Healths
  <2>4. CASE ~good /\ ~bad
    BY <2>1, <2>4 DEF SpellAges, Healths
  <2>. QED BY <2>2, <2>3, <2>4
<1> HIDE DEF s
<1>2. CASE ~good /\ s.bad >= PicoS /\ quiet /\ ~s.asked
  <2>1. Spell(x, bad, good, quiet) = [s EXCEPT !.asked = TRUE, !.state = "DEAD", !.events = @ \cup {"pico_reset"}]
    BY <1>2 DEF Spell, s
  <2> DEFINE ev == s.events \cup {"pico_reset"}
  <2>2. /\ ev \in SUBSET {"radio_reset", "pico_reset"} /\ "pico_reset" \in ev
        /\ "radio_reset" \in ev <=> "radio_reset" \in x.events
    BY <1>1 DEF Healths
  <2>3. "DEAD" \in States
    BY DEF States
  <2>4. Spell(x, bad, good, quiet) = [s EXCEPT !.asked = TRUE, !.state = "DEAD", !.events = ev]
    BY <2>1
  <2> HIDE DEF ev
  <2>. QED BY <1>1, <1>2, <2>2, <2>3, <2>4 DEF Healths
<1>3. CASE ~(~good /\ s.bad >= PicoS /\ quiet /\ ~s.asked)
  <2>1. Spell(x, bad, good, quiet) = s
    BY <1>3 DEF Spell, s
  <2>. QED BY <1>1, <2>1
<1>. QED BY <1>2, <1>3

\* Asking for a radio reset.
LEMMA AskRadioFields ==
  ASSUME NEW x \in Healths, "pico_reset" \notin x.events
  PROVE  LET r == AskRadio(x)
         IN  /\ r \in Healths /\ "pico_reset" \notin r.events /\ "radio_reset" \in r.events
             /\ r.state = "RADIO_RESET" /\ r.radio = 0
             /\ r.dead = x.dead /\ r.latched = x.latched /\ r.asked = x.asked /\ r.bad = x.bad
<1> DEFINE ev == x.events \cup {"radio_reset"}
<1>1. ev \in SUBSET {"radio_reset", "pico_reset"} /\ "pico_reset" \notin ev /\ "radio_reset" \in ev
  BY DEF Healths
<1>2. 0 \in Ages(SettleS) /\ "RADIO_RESET" \in States
  BY Caps DEF Ages, None, States
<1>3. AskRadio(x) = [x EXCEPT !.state = "RADIO_RESET", !.radio = 0, !.events = ev]
  BY DEF AskRadio
<1> HIDE DEF ev
<1>. QED BY <1>1, <1>2, <1>3 DEF Healths

\* Joined, Unlatched and Heard: what a pass makes of the label, the latch and
\* the silence before it asks for anything.
LEMMA HeardFields ==
  ASSUME NEW x \in Healths, NEW o, o.rx \in Ages(DeadS)
  PROVE  LET r == Heard(Unlatched(Joined(x), o), o)
         IN  /\ r \in Healths
             /\ r.asked = x.asked /\ r.bad = x.bad /\ r.radio = x.radio /\ r.events = x.events
             /\ r.latched = (x.latched /\ ~Recent(o))
             /\ r.dead # None => x.dead # None \/ o.rx # None
             /\ Live(o) => r.state = "CLIENT_LIVE"
             /\ o.rx # None /\ Answered(x, o.rx) => Answered(r, o.rx)
<1> DEFINE j == Joined(x)
<1>1. /\ j \in Healths
      /\ j.asked = x.asked /\ j.bad = x.bad /\ j.radio = x.radio /\ j.events = x.events
      /\ j.latched = x.latched /\ j.dead = x.dead
      /\ o.rx # None /\ Answered(x, o.rx) => Answered(j, o.rx)
  BY Caps DEF Joined, Healths, States, Answered, Ages, None
<1> HIDE DEF j
<1> DEFINE u == Unlatched(j, o)
<1>2. /\ u \in Healths
      /\ u.asked = x.asked /\ u.bad = x.bad /\ u.radio = x.radio /\ u.events = x.events
      /\ u.latched = (x.latched /\ ~Recent(o)) /\ u.dead = x.dead
      /\ o.rx # None /\ Answered(x, o.rx) => Answered(u, o.rx)
  BY <1>1 DEF Unlatched, Healths, Answered
<1> HIDE DEF u
<1> DEFINE r == Heard(u, o)
<1>3. CASE Live(o)
  <2>1. r = [u EXCEPT !.state = "CLIENT_LIVE", !.dead = None]
    BY <1>3 DEF Heard
  <2>2. "CLIENT_LIVE" \in States /\ None \in Ages(DeadS)
    BY Caps DEF States, Ages, None
  <2>3. /\ r \in Healths /\ r.asked = u.asked /\ r.bad = u.bad /\ r.radio = u.radio
        /\ r.events = u.events /\ r.latched = u.latched /\ r.dead = None /\ r.state = "CLIENT_LIVE"
    BY <1>2, <2>1, <2>2 DEF Healths
  <2>. QED BY <1>2, <2>3 DEF Answered, u, j
<1>4. CASE ~Live(o) /\ o.clients /\ o.rx # None
  <2>1. r = [u EXCEPT !.state = "CLIENT_SILENT", !.dead = IF u.dead = None THEN 0 ELSE u.dead]
    BY <1>2, <1>4 DEF Heard
  <2>2. o.rx >= SilentS
    BY Caps, <1>4 DEF Live, Recent, Ages, None
  <2>3. "CLIENT_SILENT" \in States /\ (IF u.dead = None THEN 0 ELSE u.dead) \in Ages(DeadS)
    BY Caps, <1>2 DEF States, Ages, None, Healths
  <2>4. /\ r \in Healths /\ r.asked = u.asked /\ r.bad = u.bad /\ r.radio = u.radio
        /\ r.events = u.events /\ r.latched = u.latched
    BY <1>2, <2>1, <2>3 DEF Healths
  <2>. QED BY <1>2, <1>4, <2>2, <2>4 DEF Answered, u, j
<1>5. CASE ~Live(o) /\ ~(o.clients /\ o.rx # None)
  <2>1. r = [u EXCEPT !.state = IF @ \in {"CLIENT_LIVE", "CLIENT_SILENT"} THEN "UP" ELSE @,
                      !.dead = IF @ = None /\ o.rx >= SilentS THEN o.rx ELSE @]
    BY <1>5 DEF Heard
  <2>. QED BY Caps, <1>2, <1>5, <2>1 DEF Healths, States, Answered, Ages, None, u, j
<1>. QED BY <1>3, <1>4, <1>5

\* The three reasons for a radio reset: at most one of them is acted on in a
\* pass, and the label then says so.
LEMMA AskedFields ==
  ASSUME NEW x \in Healths, x.events = {}, NEW o,
         NEW g, g = Gateway(x, o), NEW l, l = DeadLink(g, o), NEW r, r = Stalls(l, o)
  PROVE  /\ r \in Healths /\ "pico_reset" \notin r.events
         /\ r.asked = x.asked /\ r.bad = x.bad /\ r.dead = x.dead
         /\ x.latched => r.latched
         /\ "radio_reset" \notin r.events => r = x
         /\ "radio_reset" \in r.events =>
              /\ r.state = "RADIO_RESET" /\ r.radio = 0
              /\ \/ o.misses >= GatewayN
                 \/ o.stalled
                 \/ r.latched /\ ~x.latched /\ x.dead >= DeadS /\ MayReset(x)
<1>1. \/ g = x
      \/ /\ g \in Healths /\ "pico_reset" \notin g.events /\ "radio_reset" \in g.events
         /\ g.state = "RADIO_RESET" /\ g.radio = 0 /\ g.latched = x.latched
         /\ g.asked = x.asked /\ g.bad = x.bad /\ g.dead = x.dead
         /\ o.misses >= GatewayN
  BY AskRadioFields DEF Gateway
<1>2. g.state = "RADIO_RESET" => l = g
  BY DEF DeadLink, MayReset
<1>3. CASE g = x
  <2>1. \/ l = x
        \/ /\ l \in Healths /\ "pico_reset" \notin l.events /\ "radio_reset" \in l.events
           /\ l.state = "RADIO_RESET" /\ l.radio = 0
           /\ l.asked = x.asked /\ l.bad = x.bad /\ l.dead = x.dead
           /\ l.latched /\ ~x.latched /\ x.dead >= DeadS /\ MayReset(x)
    <3>1. CASE x.dead >= DeadS /\ MayReset(x) /\ ~x.latched /\ o.quiet
      <4>1. l = [AskRadio(x) EXCEPT !.latched = TRUE]
        BY <1>3, <3>1 DEF DeadLink
      <4>2. /\ AskRadio(x) \in Healths /\ "pico_reset" \notin AskRadio(x).events
            /\ "radio_reset" \in AskRadio(x).events
            /\ AskRadio(x).state = "RADIO_RESET" /\ AskRadio(x).radio = 0
            /\ AskRadio(x).asked = x.asked /\ AskRadio(x).bad = x.bad /\ AskRadio(x).dead = x.dead
        BY AskRadioFields
      <4>. QED BY <3>1, <4>1, <4>2 DEF Healths
    <3>2. CASE ~(x.dead >= DeadS /\ MayReset(x) /\ ~x.latched /\ o.quiet)
      BY <1>3, <3>2 DEF DeadLink
    <3>. QED BY <3>1, <3>2
  <2>2. l.state = "RADIO_RESET" => r = l
    BY DEF Stalls, MayReset
  <2>3. CASE l = x
    <3>1. CASE r = x
      BY <3>1
    <3>2. CASE r = [AskRadio(x) EXCEPT !.stall = 0] /\ o.stalled
      <4>1. /\ AskRadio(x) \in Healths /\ "pico_reset" \notin AskRadio(x).events
            /\ "radio_reset" \in AskRadio(x).events /\ AskRadio(x).latched = x.latched
            /\ AskRadio(x).state = "RADIO_RESET" /\ AskRadio(x).radio = 0
            /\ AskRadio(x).asked = x.asked /\ AskRadio(x).bad = x.bad /\ AskRadio(x).dead = x.dead
        BY AskRadioFields
      <4>2. 0 \in Ages(SettleS)
        BY Caps DEF Ages, None
      <4>. QED BY <3>2, <4>1, <4>2 DEF Healths
    <3>. QED BY <2>3, <3>1, <3>2 DEF Stalls
  <2>4. CASE l # x
    BY <2>1, <2>2, <2>4
  <2>. QED BY <2>3, <2>4
<1>4. CASE g # x
  <2>1. l = g
    BY <1>1, <1>2, <1>4
  <2>2. r = g
    BY <1>1, <1>4, <2>1 DEF Stalls, MayReset
  <2>. QED BY <1>1, <1>4, <2>2
<1>. QED BY <1>3, <1>4

\* update(), for an object x of age d and the observation o of a pass.
Decides(x, o) ==
  LET r == Update(x, o)
  IN  /\ r \in Healths
      /\ r.asked <=> x.asked \/ "pico_reset" \in r.events
      /\ x.asked => "pico_reset" \notin r.events
      /\ r.asked /\ ~x.asked => r.bad >= PicoS
      /\ r.bad \in {x.bad, 0, None}
      /\ o.wifi /\ Live(o) /\ ~o.stalled /\ "radio_reset" \notin r.events => r.bad = None
      /\ r.dead # None => x.dead # None \/ o.rx # None
      /\ x.latched /\ ~Recent(o) => r.latched
      /\ o.rx # None /\ Answered(x, o.rx) => Answered(r, o.rx)
      /\ "radio_reset" \in r.events /\ o.misses < GatewayN /\ ~o.stalled =>
           /\ r.latched /\ (x.latched => Recent(o))
           /\ o.rx # None => Answered(r, o.rx)
           /\ o.rx # None /\ Answered(x, o.rx) => ~Recent(o)
           /\ x.dead # None \/ o.rx # None

LEMMA UpdateDecides ==
  ASSUME NEW x \in Healths, NEW o, o.rx \in Ages(DeadS), o.misses \in Nat
  PROVE  Decides(x, o)
<1> DEFINE f == [x EXCEPT !.events = {}]
<1> DEFINE r == Update(x, o)
<1>1. /\ f \in Healths /\ f.events = {} /\ f.state = x.state /\ f.asked = x.asked /\ f.bad = x.bad
      /\ f.radio = x.radio /\ f.latched = x.latched /\ f.dead = x.dead
      /\ Answered(x, o.rx) <=> Answered(f, o.rx)
  BY DEF Healths, Answered
<1> HIDE DEF f
<1>2. CASE ~o.wifi
  <2> DEFINE d == [f EXCEPT !.state = "DOWN", !.dead = None]
  <2>1. r = Spell(d, TRUE, FALSE, o.quiet)
    BY <1>2 DEF Update, WithoutWifi, f
  <2>2. /\ d \in Healths /\ d.events = {} /\ d.asked = x.asked /\ d.bad = x.bad
        /\ d.latched = x.latched /\ d.dead = None
    <3>1. "DOWN" \in States /\ None \in Ages(DeadS)
      BY Caps DEF States, Ages, None
    <3>. QED BY <1>1, <3>1 DEF Healths
  <2> HIDE DEF d
  <2>3. /\ r \in Healths /\ r.dead = None /\ r.latched = x.latched
        /\ "radio_reset" \notin r.events
        /\ r.asked <=> x.asked \/ "pico_reset" \in r.events
        /\ x.asked => "pico_reset" \notin r.events
        /\ r.asked /\ ~x.asked => r.bad >= PicoS
        /\ r.bad \in {x.bad, 0, None}
    <3> DEFINE bad == TRUE
    <3> DEFINE good == FALSE
    <3>1. bad \in BOOLEAN /\ good \in BOOLEAN /\ r = Spell(d, bad, good, o.quiet)
      BY <2>1
    <3> HIDE DEF r, bad, good
    <3>. QED BY <2>2, <3>1, SpellFields
  <2> HIDE DEF r
  <2>. QED BY <1>2, <2>3 DEF Decides, Answered, r
<1>3. CASE o.wifi
  <2> DEFINE e == Heard(Unlatched(Joined(f), o), o)
  <2> DEFINE a == Stalls(DeadLink(Gateway(e, o), o), o)
  <2> DEFINE silent == a.dead # None
  <2> DEFINE good == (a.state = "CLIENT_LIVE" \/ (o.gwOk /\ ~silent)) /\ ~o.stalled
  <2> DEFINE bad == o.failing \/ silent \/ o.stalled
  <2>1. r = Spell(a, bad, good, o.quiet)
    BY <1>3 DEF Update, WithWifi, f
  <2>2. /\ e \in Healths /\ e.asked = x.asked /\ e.bad = x.bad /\ e.events = {}
        /\ e.latched = (x.latched /\ ~Recent(o))
        /\ e.dead # None => x.dead # None \/ o.rx # None
        /\ Live(o) => e.state = "CLIENT_LIVE"
        /\ o.rx # None /\ Answered(x, o.rx) => Answered(e, o.rx)
    BY <1>1, HeardFields
  <2> HIDE DEF e
  <2>3. /\ a \in Healths /\ "pico_reset" \notin a.events
        /\ a.asked = e.asked /\ a.bad = e.bad /\ a.dead = e.dead
        /\ e.latched => a.latched
        /\ "radio_reset" \notin a.events => a = e
        /\ "radio_reset" \in a.events =>
             /\ a.state = "RADIO_RESET" /\ a.radio = 0
             /\ \/ o.misses >= GatewayN
                \/ o.stalled
                \/ a.latched /\ ~e.latched /\ e.dead >= DeadS /\ MayReset(e)
    BY <2>2, AskedFields
  <2> HIDE DEF a
  <2>4. /\ r \in Healths
        /\ r.dead = a.dead /\ r.radio = a.radio /\ r.latched = a.latched
        /\ r.state \in {a.state, "DEAD"}
        /\ "radio_reset" \in r.events <=> "radio_reset" \in a.events
        /\ r.asked <=> a.asked \/ "pico_reset" \in r.events
        /\ a.asked => "pico_reset" \notin r.events
        /\ r.asked /\ ~a.asked => r.bad >= PicoS
        /\ r.bad \in {a.bad, 0, None}
        /\ good => r.bad = None
    <3>1. good \in BOOLEAN /\ bad \in BOOLEAN
      OBVIOUS
    <3> HIDE DEF r, good, bad
    <3>. QED BY <2>1, <2>3, <3>1, SpellFields
  <2> HIDE DEF r
  <2>5. Live(o) /\ ~o.stalled /\ "radio_reset" \notin r.events => r.bad = None
    BY <2>2, <2>3, <2>4
  <2>6. o.rx # None /\ "radio_reset" \in r.events => Answered(r, o.rx)
    <3>1. o.rx # None => 0 <= o.rx /\ 0 # None
      BY Caps DEF Ages, None
    <3>. QED BY <2>3, <2>4, <3>1 DEF Answered
  <2>7. o.rx # None /\ Answered(x, o.rx) => Answered(r, o.rx)
    <3>1. CASE "radio_reset" \in r.events
      BY <2>6, <3>1
    <3>2. CASE "radio_reset" \notin r.events
      BY <2>2, <2>3, <2>4, <3>2 DEF Answered
    <3>. QED BY <3>1, <3>2
  <2>8. ASSUME "radio_reset" \in r.events, o.misses < GatewayN, ~o.stalled
        PROVE  /\ r.latched /\ (x.latched => Recent(o))
               /\ o.rx # None => Answered(r, o.rx)
               /\ o.rx # None /\ Answered(x, o.rx) => ~Recent(o)
               /\ x.dead # None \/ o.rx # None
    <3>1. a.latched /\ ~e.latched /\ e.dead >= DeadS /\ MayReset(e)
      BY Caps, <2>3, <2>4, <2>8
    <3>2. e.dead # None
      BY Caps, <2>2, <3>1 DEF None, Healths, Ages
    <3>3. o.rx # None /\ Answered(x, o.rx) => o.rx >= SilentS
      BY <2>2, <3>1, <3>2 DEF Answered, MayReset
    <3>4. o.rx >= SilentS => ~Recent(o)
      BY Caps DEF Recent, Ages, None
    <3>. QED BY <2>2, <2>4, <2>6, <2>8, <3>1, <3>2, <3>3, <3>4
  <2>. QED BY <1>3, <2>2, <2>3, <2>4, <2>5, <2>7, <2>8 DEF Decides, r
<1>. QED BY <1>2, <1>3

-----------------------------------------------------------------------------
(* The invariant.                                                          *)

Gateways == [ok : BOOLEAN, misses : 0..GatewayN, failing : BOOLEAN, seen : BOOLEAN]

SupTypeOK ==
  /\ h \in Healths /\ gw \in Gateways
  /\ rx \in Ages(DeadS) /\ wanted \in Ages(HoldS) /\ stalls \in Nat
  /\ missed \in 0..GatewayN /\ stalled \in 0..StallN /\ lonely \in 0..PicoS
  /\ frame \in {"fresh", "early", "spent"}
  /\ plea \in [alone : Ages(PicoS), age : Ages(HoldS)]

\* What the code remembers of a trouble is not more than what happened since
\* it last answered it.  A silence it answered is latched until a frame comes;
\* while a frame that came just before the answer is young, it is booked.
AnswersInv ==
  /\ gw.misses <= missed /\ stalls <= stalled
  /\ h.dead # None => rx # None
  /\ frame = "spent" => h.latched /\ rx >= SilentS
  /\ frame = "early" => rx # None /\ Answered(h, rx)

\* An unhealthy spell is not older than the last pass that saw a live client.
SpellInv == h.bad <= lonely

\* A Pico reset that is wanted was asked for on its grounds, which still hold,
\* and as long ago as the Concentrator counts.
PleaInv == wanted # None => plea.alone >= PicoS /\ plea.age = wanted

SupInv == SupTypeOK /\ AskedIsWanted /\ AnswersInv /\ SpellInv /\ PleaInv

LEMMA NewTypes ==
  /\ NewHealth \in Healths /\ NewGateway \in Gateways
  /\ ~NewHealth.asked /\ NewHealth.dead = None /\ NewHealth.bad = None /\ NewGateway.misses = 0
BY Caps DEF NewHealth, NewGateway, Healths, Gateways, States, Ages, None

LEMMA InitInv == Init => SupInv
<1> SUFFICES ASSUME Init PROVE SupInv
  OBVIOUS
<1>1. /\ None \in Ages(DeadS) /\ None \in Ages(HoldS) /\ None <= 0
      /\ NoPlea \in [alone : Ages(PicoS), age : Ages(HoldS)]
  BY Caps DEF Ages, None, NoPlea
<1>2. SupTypeOK
  BY <1>1, Caps, NewTypes DEF Init, SupTypeOK
<1>3. AskedIsWanted /\ SpellInv /\ AnswersInv /\ PleaInv
  BY <1>1, NewTypes DEF Init, AskedIsWanted, AnswersInv, SpellInv, PleaInv
<1>. QED BY <1>2, <1>3 DEF SupInv

LEMMA RebootInv == Reboot => SupInv'
<1> SUFFICES ASSUME Reboot PROVE SupInv'
  OBVIOUS
<1>1. /\ None \in Ages(DeadS) /\ None \in Ages(HoldS) /\ None <= 0
      /\ NoPlea \in [alone : Ages(PicoS), age : Ages(HoldS)]
  BY Caps DEF Ages, None, NoPlea
<1>2. SupTypeOK'
  BY <1>1, Caps, NewTypes DEF Reboot, SupTypeOK
<1>3. AskedIsWanted' /\ SpellInv' /\ AnswersInv' /\ PleaInv'
  BY <1>1, NewTypes DEF Reboot, AskedIsWanted, AnswersInv, SpellInv, PleaInv
<1>. QED BY <1>2, <1>3 DEF SupInv

\* The gateway record after a ping; pings are counted on both sides.
LEMMA PingType ==
  ASSUME NEW g \in Gateways, NEW answer \in {"none", "ok", "miss"}
  PROVE  /\ Pinged(g, answer) \in Gateways
         /\ Pinged(g, answer).misses \in
              {0, g.misses, IF answer = "miss" /\ g.seen THEN More(g.misses, GatewayN) ELSE g.misses}
         /\ answer = "miss" => Pinged(g, answer).seen = g.seen
<1>1. CASE answer = "none"
  BY <1>1 DEF Pinged
<1>2. CASE answer = "ok"
  BY <1>2, Caps DEF Pinged, Gateways
<1>3. CASE answer = "miss" /\ ~g.seen
  BY <1>3 DEF Pinged, Gateways
<1>4. CASE answer = "miss" /\ g.seen
  <2>1. More(g.misses, GatewayN) \in 0..GatewayN
    BY Caps DEF More, Gateways
  <2>. QED BY <1>4, <2>1 DEF Pinged, Gateways
<1>. QED BY <1>1, <1>2, <1>3, <1>4

-----------------------------------------------------------------------------
(* What a pass finds and decides.                                          *)

Seen(d, answer) == Observed(Gw(answer), Age(d))
Missing(answer) == IF answer = "miss" /\ gw.seen THEN More(missed, GatewayN) ELSE missed

LEMMA PassFacts ==
  ASSUME SupInv, NEW d \in Late, NEW answer \in {"none", "ok", "miss"},
         NEW o, o = Seen(d, answer), NEW x, x = Aging(h, d)
  PROVE  /\ x \in Healths /\ Decides(x, o) /\ Decided(d, answer) = Update(x, o)
         /\ x.asked = h.asked /\ x.latched = h.latched /\ x.bad = Older(h.bad, d, PicoS)
         /\ x.dead = None <=> h.dead = None
         /\ o.rx = Age(d) /\ o.rx \in Ages(DeadS) /\ (o.rx = None <=> rx = None) /\ rx <= o.rx
         /\ o.stalled <=> stalls >= StallN
         /\ o.wifi = wifi
         /\ rx # None /\ Answered(h, rx) => Answered(x, o.rx)
         /\ Gw(answer) \in Gateways /\ o.misses = Gw(answer).misses
         /\ Missing(answer) \in 0..GatewayN /\ Gw(answer).misses <= Missing(answer)
         /\ answer = "miss" => Gw(answer).seen = gw.seen
<1>1. /\ h \in Healths /\ gw \in Gateways /\ rx \in Ages(DeadS) /\ missed \in 0..GatewayN
      /\ gw.misses <= missed
  BY DEF SupInv, SupTypeOK, AnswersInv
<1>2. /\ x \in Healths /\ x.state = h.state /\ x.latched = h.latched /\ x.asked = h.asked
      /\ x.dead = None <=> h.dead = None
      /\ x.radio = Older(h.radio, d, SettleS) /\ x.bad = Older(h.bad, d, PicoS)
  BY <1>1, AgingType
<1>3. Age(d) \in Ages(DeadS) /\ (Age(d) = None <=> rx = None) /\ rx <= Age(d)
  BY <1>1, Caps, OlderType DEF Age
<1>4. /\ Gw(answer) \in Gateways
      /\ Gw(answer).misses \in
           {0, gw.misses, IF answer = "miss" /\ gw.seen THEN More(gw.misses, GatewayN) ELSE gw.misses}
      /\ answer = "miss" => Gw(answer).seen = gw.seen
  BY <1>1, PingType DEF Gw
<1>5. Missing(answer) \in 0..GatewayN /\ Gw(answer).misses <= Missing(answer)
  BY <1>1, <1>4, Caps DEF Missing, More, Gateways
<1>6. /\ o.rx = Age(d) /\ o.misses = Gw(answer).misses /\ o.wifi = wifi
      /\ o.stalled <=> stalls >= StallN
  BY DEF Seen, Observed
<1>7. Decides(x, o)
  <2>1. o.rx \in Ages(DeadS) /\ o.misses \in Nat
    BY <1>3, <1>4, <1>6 DEF Gateways
  <2>. QED BY <1>2, <2>1, UpdateDecides
<1>8. ASSUME rx # None, Answered(h, rx) PROVE Answered(x, o.rx)
  <2>1. rx \in 0..DeadS /\ o.rx \in 0..DeadS
    BY <1>1, <1>3, <1>6, <1>8, Caps DEF Ages, None
  <2>2. CASE rx >= SilentS
    BY <1>3, <1>6, <2>1, <2>2, Caps DEF Answered
  <2>3. CASE h.dead = None \/ h.state = "DEAD"
    BY <1>2, <2>3 DEF Answered
  <2>4. CASE h.state = "RADIO_RESET" /\ h.radio # None /\ h.radio <= rx
    <3>1. h.radio \in 0..SettleS /\ x.radio # None
      BY <1>1, <1>2, <2>4, Caps, OlderType DEF Healths, Ages, None
    <3>2. x.radio <= o.rx \/ o.rx >= SilentS
      BY <1>2, <1>6, <2>1, <2>4, <3>1, Caps DEF Older, Age, None
    <3>. QED BY <1>2, <2>4, <3>1, <3>2 DEF Answered
  <2>. QED BY <1>8, <2>2, <2>3, <2>4 DEF Answered
<1>9. Decided(d, answer) = Update(x, o)
  BY DEF Decided, Seen
<1>. QED BY <1>2, <1>3, <1>4, <1>5, <1>6, <1>7, <1>8, <1>9

\* A radio reset that neither misses nor stalls explain is for a silence that
\* none answered yet.
LEMMA SilenceUnanswered ==
  ASSUME SupInv, NEW d \in Late, NEW answer \in {"none", "ok", "miss"},
         NEW decided, decided = Decided(d, answer), Cycles(decided),
         Missing(answer) < GatewayN, stalled < StallN,
         NEW o, o = Seen(d, answer)
  PROVE  /\ decided.latched /\ o.rx # None /\ o.rx \in Ages(DeadS)
         /\ Answered(decided, o.rx)
         /\ frame = "fresh" \/ (frame = "early" /\ ~Recent(o))
<1> DEFINE x == Aging(h, d)
<1>1. /\ Decides(x, o) /\ decided = Update(x, o)
      /\ x.latched = h.latched /\ (x.dead = None <=> h.dead = None)
      /\ o.rx \in Ages(DeadS) /\ (o.rx = None <=> rx = None) /\ rx <= o.rx
      /\ o.stalled <=> stalls >= StallN
      /\ rx # None /\ Answered(h, rx) => Answered(x, o.rx)
      /\ o.misses = Gw(answer).misses /\ Gw(answer) \in Gateways
      /\ Missing(answer) \in 0..GatewayN /\ Gw(answer).misses <= Missing(answer)
  BY PassFacts
<1> HIDE DEF x
<1>2. o.misses < GatewayN /\ ~o.stalled
  BY <1>1, Caps DEF SupInv, SupTypeOK, AnswersInv, Gateways
<1>3. /\ decided.latched /\ (x.latched => Recent(o))
      /\ o.rx # None => Answered(decided, o.rx)
      /\ o.rx # None /\ Answered(x, o.rx) => ~Recent(o)
      /\ x.dead # None \/ o.rx # None
  BY <1>1, <1>2 DEF Decides, Cycles
<1>4. o.rx # None
  BY <1>1, <1>3 DEF SupInv, AnswersInv
<1>5. CASE frame = "spent"
  <2>1. h.latched /\ rx >= SilentS /\ rx \in Ages(DeadS)
    BY <1>5 DEF SupInv, SupTypeOK, AnswersInv
  <2>2. ~Recent(o)
    BY <1>1, <2>1, Caps DEF Recent, Ages, None
  <2>. QED BY <1>1, <1>3, <2>1, <2>2
<1>6. CASE frame = "early"
  BY <1>1, <1>3, <1>4, <1>6 DEF SupInv, AnswersInv
<1>. QED BY <1>1, <1>3, <1>4, <1>5, <1>6 DEF SupInv, SupTypeOK

\* The spell after a pass, and the history of it.
LEMMA AlonePass ==
  ASSUME SupInv, NEW d \in Late, NEW answer \in {"none", "ok", "miss"},
         NEW decided, decided = Decided(d, answer),
         NEW alone, alone = Alone(d, answer, decided)
  PROVE  /\ decided \in Healths
         /\ decided.asked <=> h.asked \/ "pico_reset" \in decided.events
         /\ h.asked => "pico_reset" \notin decided.events
         /\ alone \in 0..PicoS /\ decided.bad <= alone
         /\ "pico_reset" \in decided.events => alone >= PicoS
<1> DEFINE x == Aging(h, d)
<1> DEFINE o == Seen(d, answer)
<1>1. /\ x \in Healths /\ Decides(x, o) /\ decided = Update(x, o)
      /\ x.asked = h.asked /\ x.bad = Older(h.bad, d, PicoS)
      /\ o.stalled <=> stalls >= StallN
      /\ o.wifi = wifi
  BY PassFacts
<1>2. o = Observed(Gw(answer), Age(d))
  BY DEF Seen
<1> HIDE DEF x, o
<1>3. /\ decided \in Healths
      /\ decided.asked <=> x.asked \/ "pico_reset" \in decided.events
      /\ x.asked => "pico_reset" \notin decided.events
      /\ decided.asked /\ ~x.asked => decided.bad >= PicoS
      /\ decided.bad \in {x.bad, 0, None}
      /\ o.wifi /\ Live(o) /\ ~o.stalled /\ "radio_reset" \notin decided.events => decided.bad = None
  BY <1>1 DEF Decides
<1>4. alone \in 0..PicoS /\ decided.bad <= alone
  <2>1. lonely \in 0..PicoS /\ h.bad <= lonely /\ h.bad \in Ages(PicoS)
    BY DEF SupInv, SupTypeOK, SpellInv, Healths
  <2>2. /\ Older(h.bad, d, PicoS) <= Older(lonely, d, PicoS)
        /\ Older(lonely, d, PicoS) \in 0..PicoS
    BY <2>1, Caps, OlderOrder
  <2>3. CASE wifi /\ Live(o) /\ stalls < StallN /\ ~Cycles(decided)
    <3>1. alone = 0
      BY <1>2, <2>3 DEF Alone
    <3>2. decided.bad = None
      BY <1>1, <1>3, <2>3, Caps DEF Cycles, SupInv, SupTypeOK
    <3>. QED BY <1>1, <1>3, <3>1, <3>2, Caps DEF None
  <2>4. CASE ~(wifi /\ Live(o) /\ stalls < StallN /\ ~Cycles(decided))
    <3>1. alone = Older(lonely, d, PicoS)
      BY <1>2, <2>4 DEF Alone
    <3>. QED BY <1>1, <1>3, <2>1, <2>2, <3>1, Caps, OlderType DEF Ages, None
  <2>. QED BY <2>3, <2>4
<1>5. decided.bad \in Ages(PicoS)
  BY <1>3 DEF Healths
<1>. QED BY <1>1, <1>3, <1>4, <1>5, Caps DEF Ages, None

\* What a pass makes of the asking is what reset_decision goes by: a reset that
\* is wanted, and not called off in this pass, still has its grounds.
LEMMA PleaPass ==
  ASSUME SupInv, NEW d \in Late, NEW answer \in {"none", "ok", "miss"},
         NEW decided, decided = Decided(d, answer),
         NEW p, p = Plea(d, answer, decided), NEW w, w = Wanted(d, decided)
  PROVE  /\ p \in [alone : Ages(PicoS), age : Ages(HoldS)] /\ w \in Ages(HoldS)
         /\ decided.asked <=> w # None
         /\ w # None /\ ~LiveClient(Age(d)) => p.alone >= PicoS /\ p.age = w
<1>1. /\ wanted \in Ages(HoldS) /\ (h.asked <=> wanted # None)
      /\ plea \in [alone : Ages(PicoS), age : Ages(HoldS)]
      /\ wanted # None => plea.alone >= PicoS /\ plea.age = wanted
  BY DEF SupInv, SupTypeOK, AskedIsWanted, PleaInv
<1>2. /\ Older(wanted, d, HoldS) \in Ages(HoldS) /\ (Older(wanted, d, HoldS) = None <=> wanted = None)
      /\ Older(plea.age, d, HoldS) \in Ages(HoldS)
  BY <1>1, Caps, OlderType
<1>3. /\ 0 \in Ages(HoldS) /\ None \in Ages(HoldS) /\ None \in Ages(PicoS) /\ 0 # None
      /\ 0..PicoS \subseteq Ages(PicoS)
  BY Caps DEF Ages, None
<1> DEFINE alone == Alone(d, answer, decided)
<1>4. /\ decided.asked <=> h.asked \/ "pico_reset" \in decided.events
      /\ h.asked => "pico_reset" \notin decided.events
      /\ alone \in 0..PicoS
      /\ "pico_reset" \in decided.events => alone >= PicoS
  BY AlonePass
<1> HIDE DEF alone
<1>5. w \in Ages(HoldS) /\ (decided.asked <=> w # None)
  BY <1>1, <1>2, <1>3, <1>4 DEF Wanted
<1>6. CASE LiveClient(Age(d))
  <2>1. p = NoPlea
    BY <1>6 DEF Plea
  <2>. QED BY <1>3, <1>5, <1>6, <2>1 DEF NoPlea
<1>7. CASE ~LiveClient(Age(d)) /\ "pico_reset" \in decided.events
  <2>1. p = [alone |-> alone, age |-> 0]
    BY <1>7 DEF Plea, alone
  <2>2. w = 0
    BY <1>1, <1>2, <1>4, <1>7 DEF Wanted
  <2>3. alone \in Ages(PicoS) /\ alone >= PicoS
    BY <1>3, <1>4, <1>7
  <2>4. p \in [alone : Ages(PicoS), age : Ages(HoldS)] /\ p.alone = alone /\ p.age = w
    BY <1>3, <2>1, <2>2, <2>3
  <2>. QED BY <1>5, <2>3, <2>4
<1>8. CASE ~LiveClient(Age(d)) /\ "pico_reset" \notin decided.events
  <2>1. p = [plea EXCEPT !.age = Older(plea.age, d, HoldS)]
    BY <1>8 DEF Plea
  <2>2. w = Older(wanted, d, HoldS)
    BY <1>8 DEF Wanted
  <2>. QED BY <1>1, <1>2, <1>5, <2>1, <2>2
<1>. QED BY <1>6, <1>7, <1>8

\* The Pico goes on after a pass: both records of a reset, the spell, and what
\* the history keeps.
LEMMA GoesOnKeeps ==
  ASSUME SupInv, NEW d \in Late, NEW answer \in {"none", "ok", "miss"},
         NEW decided, decided = Decided(d, answer), GoesOn(d, decided),
         NEW cycles \in BOOLEAN, NEW joined \in BOOLEAN, cycles => Cycles(decided),
         Recall(d, answer, decided, cycles, joined)
  PROVE  /\ h' \in Healths /\ rx' \in Ages(DeadS) /\ wanted' \in Ages(HoldS)
         /\ AskedIsWanted'
         /\ missed' = IF cycles \/ joined THEN 0 ELSE Missing(answer)
         /\ Missing(answer) \in 0..GatewayN /\ Gw(answer) \in Gateways
         /\ Gw(answer).misses <= Missing(answer)
         /\ stalled' = IF cycles THEN 0 ELSE stalled
         /\ lonely' \in 0..PicoS /\ SpellInv'
         /\ plea' \in [alone : Ages(PicoS), age : Ages(HoldS)] /\ PleaInv'
         /\ frame' \in {"fresh", "early", "spent"}
         /\ h'.dead # None => rx' # None
         /\ frame' = "spent" => h'.latched /\ rx' >= SilentS
         /\ frame' = "early" => rx' # None /\ Answered(h', rx')
<1> DEFINE x == Aging(h, d)
<1> DEFINE o == Seen(d, answer)
<1>1. /\ x \in Healths /\ Decides(x, o) /\ decided = Update(x, o)
      /\ x.asked = h.asked /\ x.latched = h.latched /\ x.bad = Older(h.bad, d, PicoS)
      /\ x.dead = None <=> h.dead = None
      /\ o.rx = Age(d) /\ o.rx \in Ages(DeadS) /\ (o.rx = None <=> rx = None) /\ rx <= o.rx
      /\ o.stalled <=> stalls >= StallN
      /\ o.wifi = wifi
      /\ rx # None /\ Answered(h, rx) => Answered(x, o.rx)
      /\ Gw(answer) \in Gateways
      /\ Missing(answer) \in 0..GatewayN /\ Gw(answer).misses <= Missing(answer)
      /\ answer = "miss" => Gw(answer).seen = gw.seen
  BY PassFacts
<1>2. o = Observed(Gw(answer), Age(d))
  BY DEF Seen
<1> HIDE DEF x, o
<1>3. /\ decided \in Healths
      /\ decided.asked <=> x.asked \/ "pico_reset" \in decided.events
      /\ x.asked => "pico_reset" \notin decided.events
      /\ decided.asked /\ ~x.asked => decided.bad >= PicoS
      /\ decided.bad \in {x.bad, 0, None}
      /\ o.wifi /\ Live(o) /\ ~o.stalled /\ "radio_reset" \notin decided.events => decided.bad = None
      /\ decided.dead # None => x.dead # None \/ o.rx # None
      /\ x.latched /\ ~Recent(o) => decided.latched
      /\ o.rx # None /\ Answered(x, o.rx) => Answered(decided, o.rx)
  BY <1>1 DEF Decides
<1>4. /\ h' \in Healths /\ h'.dead = decided.dead /\ h'.latched = decided.latched
      /\ h'.state = decided.state /\ h'.radio = decided.radio
      /\ h'.bad \in {decided.bad, None}
      /\ h'.asked => decided.asked
      /\ rx' = o.rx
  <2>1. None \in Ages(PicoS) /\ rx' = o.rx
    BY <1>1, Caps DEF GoesOn, Ages, None
  <2>2. CASE h' = CalledOff(decided)
    <3>1. h' = [decided EXCEPT !.asked = FALSE, !.bad = None]
      BY <2>2 DEF CalledOff
    <3>. QED BY <1>3, <2>1, <3>1 DEF Healths
  <2>3. CASE h' = decided
    BY <1>3, <2>1, <2>3
  <2>. QED BY <2>2, <2>3 DEF GoesOn
<1>5. /\ AskedIsWanted' /\ wanted' \in Ages(HoldS)
      /\ plea' \in [alone : Ages(PicoS), age : Ages(HoldS)] /\ PleaInv'
  <2> DEFINE w == Wanted(d, decided)
  <2> DEFINE p == Plea(d, answer, decided)
  <2>1. plea' = p
    BY DEF Recall
  <2>2. None \in Ages(HoldS)
    BY Caps DEF Ages, None
  <2>3. /\ p \in [alone : Ages(PicoS), age : Ages(HoldS)] /\ w \in Ages(HoldS)
        /\ decided.asked <=> w # None
        /\ w # None /\ ~LiveClient(Age(d)) => p.alone >= PicoS /\ p.age = w
    BY PleaPass
  <2> HIDE DEF p
  <2>4. CASE Decision(d, decided) = "cancel"
    BY <1>3, <2>1, <2>2, <2>3, <2>4 DEF GoesOn, CalledOff, AskedIsWanted, PleaInv, Healths
  <2>5. CASE Decision(d, decided) # "cancel"
    <3>1. wanted' = w /\ h' = decided
      BY <2>5 DEF GoesOn
    <3>2. w # None => ~LiveClient(Age(d))
      BY <2>5 DEF Decision, ResetDecision
    <3> HIDE DEF w
    <3>. QED BY <2>1, <2>3, <3>1, <3>2 DEF AskedIsWanted, PleaInv
  <2>. QED BY <2>4, <2>5
<1>6. /\ lonely' \in 0..PicoS /\ decided.bad <= lonely'
  <2>1. lonely' = Alone(d, answer, decided)
    BY DEF Recall
  <2>. QED BY <2>1, AlonePass
<1>7. SpellInv'
  BY <1>4, <1>6, Caps DEF SpellInv, None
<1>8. h'.dead # None => rx' # None
  BY <1>1, <1>3, <1>4 DEF SupInv, AnswersInv
<1>9. /\ missed' = IF cycles \/ joined THEN 0 ELSE Missing(answer)
      /\ stalled' = IF cycles THEN 0 ELSE stalled
      /\ frame' = IF ~cycles \/ Missing(answer) >= GatewayN \/ stalled >= StallN THEN frame
                  ELSE IF frame = "fresh" /\ Recent(o) THEN "early" ELSE "spent"
  BY <1>1, <1>2 DEF Recall, Missing
<1>10. /\ frame' \in {"fresh", "early", "spent"}
       /\ frame' = "spent" => h'.latched /\ rx' >= SilentS
       /\ frame' = "early" => rx' # None /\ Answered(h', rx')
  <2>1. CASE ~cycles \/ Missing(answer) >= GatewayN \/ stalled >= StallN
    <3>1. frame' = frame /\ frame \in {"fresh", "early", "spent"}
      BY <1>9, <2>1 DEF SupInv, SupTypeOK
    <3>2. CASE frame = "spent"
      <4>1. h.latched /\ rx >= SilentS /\ rx \in Ages(DeadS)
        BY <3>2 DEF SupInv, SupTypeOK, AnswersInv
      <4>2. o.rx >= SilentS /\ ~Recent(o)
        BY <1>1, <4>1, Caps DEF Recent, Ages, None
      <4>. QED BY <1>1, <1>3, <1>4, <3>1, <3>2, <4>1, <4>2
    <3>3. CASE frame = "early"
      BY <1>1, <1>3, <1>4, <3>1, <3>3 DEF SupInv, AnswersInv, Answered
    <3>. QED BY <3>1, <3>2, <3>3
  <2>2. CASE cycles /\ Missing(answer) < GatewayN /\ stalled < StallN
    <3>1. /\ decided.latched /\ o.rx # None
          /\ Answered(decided, o.rx)
          /\ frame = "fresh" \/ (frame = "early" /\ ~Recent(o))
      BY <2>2, SilenceUnanswered DEF o
    <3>2. frame' = IF frame = "fresh" /\ Recent(o) THEN "early" ELSE "spent"
      BY <1>1, <1>9, <2>2, Caps DEF SupInv, SupTypeOK
    <3>3. ~Recent(o) => o.rx >= SilentS
      BY <1>1, <3>1, Caps DEF Recent, Ages, None
    <3>. QED BY <1>4, <3>1, <3>2, <3>3 DEF Answered
  <2>. QED BY <1>1, <2>1, <2>2, Caps DEF SupInv, SupTypeOK
<1>. QED BY <1>1, <1>4, <1>5, <1>6, <1>7, <1>8, <1>9, <1>10

-----------------------------------------------------------------------------
(* The steps.                                                              *)

LEMMA AnswersType == Answers \subseteq {"none", "ok", "miss"}
BY DEF Answers

LEMMA JoinedGatewayType ==
  ASSUME NEW g \in Gateways
  PROVE  JoinedGateway(g) \in Gateways /\ JoinedGateway(g).misses = 0
<1>1. 0 \in 0..GatewayN
  BY Caps
<1>. QED BY <1>1 DEF JoinedGateway, Gateways

LEMMA PassInv == SupInv /\ Pass => SupInv'
<1> SUFFICES ASSUME SupInv, Pass PROVE SupInv'
  OBVIOUS
<1>1. PICK d \in Late, answer \in Answers : \E decided \in {Decided(d, answer)} :
        \/ PassReset(d, answer, decided)
        \/ \E joins \in BOOLEAN : PassDown(d, answer, decided, joins)
        \/ PassUp(d, answer, decided)
        \/ PassCycle(d, answer, decided)
  BY DEF Pass
<1> DEFINE decided == Decided(d, answer)
<1>2. answer \in {"none", "ok", "miss"}
  BY AnswersType
<1> HIDE DEF decided
<1>3. ASSUME NEW cycles \in BOOLEAN, NEW joined \in BOOLEAN, cycles => Cycles(decided),
             GoesOn(d, decided), Recall(d, answer, decided, cycles, joined),
             gw' \in Gateways,
             gw'.misses <= Missing(answer), cycles \/ joined => gw'.misses = 0,
             stalls' = IF cycles THEN 0 ELSE stalls
      PROVE  SupInv'
  <2>1. /\ h' \in Healths /\ rx' \in Ages(DeadS) /\ wanted' \in Ages(HoldS)
        /\ AskedIsWanted'
        /\ missed' = IF cycles \/ joined THEN 0 ELSE Missing(answer)
        /\ Missing(answer) \in 0..GatewayN
        /\ stalled' = IF cycles THEN 0 ELSE stalled
        /\ lonely' \in 0..PicoS /\ SpellInv'
        /\ plea' \in [alone : Ages(PicoS), age : Ages(HoldS)] /\ PleaInv'
        /\ frame' \in {"fresh", "early", "spent"}
        /\ h'.dead # None => rx' # None
        /\ frame' = "spent" => h'.latched /\ rx' >= SilentS
        /\ frame' = "early" => rx' # None /\ Answered(h', rx')
    BY <1>2, <1>3, GoesOnKeeps DEF decided
  <2>2. missed' \in 0..GatewayN /\ gw'.misses <= missed'
    BY <1>3, <2>1, Caps
  <2>3. stalls' \in Nat /\ stalled' \in 0..StallN /\ stalls' <= stalled'
    BY <1>3, <2>1, Caps DEF SupInv, SupTypeOK, AnswersInv
  <2>. QED BY <1>3, <2>1, <2>2, <2>3 DEF SupInv, SupTypeOK, AnswersInv
<1>4. Gw(answer) \in Gateways /\ Gw(answer).misses <= Missing(answer) /\ Missing(answer) \in 0..GatewayN
  BY <1>2, PassFacts
<1>5. CASE PassReset(d, answer, decided)
  BY <1>5, RebootInv DEF PassReset
<1>6. ASSUME NEW joins \in BOOLEAN, PassDown(d, answer, decided, joins) PROVE SupInv'
  <2> DEFINE cycles == FALSE
  <2> DEFINE joined == FALSE
  <2>1. cycles \in BOOLEAN /\ joined \in BOOLEAN /\ ~cycles /\ ~joined
        /\ Recall(d, answer, decided, cycles, joined)
    BY <1>6 DEF PassDown
  <2> HIDE DEF cycles, joined
  <2>2. GoesOn(d, decided) /\ gw' = Gw(answer) /\ stalls' = stalls
    BY <1>6 DEF PassDown, WifiDown
  <2>. QED BY <1>3, <1>4, <2>1, <2>2
<1>7. CASE PassUp(d, answer, decided)
  <2> DEFINE cycles == FALSE
  <2> DEFINE joined == ~known
  <2>1. cycles \in BOOLEAN /\ joined \in BOOLEAN /\ ~cycles /\ joined = ~known
        /\ Recall(d, answer, decided, cycles, joined)
    BY <1>7 DEF PassUp
  <2> HIDE DEF cycles, joined
  <2>2. GoesOn(d, decided) /\ stalls' = stalls
        /\ gw' = IF known THEN Gw(answer) ELSE JoinedGateway(Gw(answer))
    BY <1>7 DEF PassUp, WifiStays, WifiBack
  <2>3. gw' \in Gateways /\ gw'.misses <= Missing(answer) /\ (joined => gw'.misses = 0)
    BY <1>4, <2>1, <2>2, JoinedGatewayType, Caps
  <2>. QED BY <1>3, <2>1, <2>2, <2>3
<1>8. CASE PassCycle(d, answer, decided)
  <2> DEFINE cycles == TRUE
  <2> DEFINE joined == ~known
  <2>1. cycles \in BOOLEAN /\ joined \in BOOLEAN /\ cycles /\ Cycles(decided)
        /\ Recall(d, answer, decided, cycles, joined)
    BY <1>8 DEF PassCycle
  <2> HIDE DEF cycles, joined
  <2> DEFINE g == IF known THEN Gw(answer) ELSE JoinedGateway(Gw(answer))
  <2>2. GoesOn(d, decided) /\ stalls' = 0 /\ gw' = [g EXCEPT !.misses = 0]
    BY <1>8 DEF PassCycle, RadioReset
  <2>3. g \in Gateways
    BY <1>4, JoinedGatewayType
  <2> HIDE DEF g
  <2>4. gw' \in Gateways /\ gw'.misses = 0
    BY <2>2, <2>3, Caps DEF Gateways
  <2>5. gw'.misses <= Missing(answer)
    BY <1>4, <2>4, Caps
  <2>. QED BY <1>3, <2>1, <2>2, <2>4, <2>5
<1>. QED BY <1>1, <1>5, <1>6, <1>7, <1>8 DEF decided

LEMMA WorldInv == SupInv /\ World => SupInv'
<1> SUFFICES ASSUME SupInv, World PROVE SupInv'
  OBVIOUS
<1>1. CASE UNCHANGED <<h, gw, wanted, rx, stalls, past>>
  BY <1>1 DEF past, SupInv, SupTypeOK, AskedIsWanted, AnswersInv, SpellInv, PleaInv
<1>2. CASE Hello
  <2>1. UNCHANGED <<h, gw, wanted, stalls, missed, stalled, lonely, plea>> /\ rx' = 0 /\ frame' = "fresh"
    BY <1>2 DEF Hello, pico
  <2>2. 0 \in Ages(DeadS) /\ 0 # None
    BY Caps DEF Ages, None
  <2>. QED BY <2>1, <2>2 DEF SupInv, SupTypeOK, AskedIsWanted, AnswersInv, SpellInv, PleaInv
<1>3. CASE Stall
  <2>1. UNCHANGED <<h, gw, wanted, rx, missed, frame, lonely, plea>>
        /\ stalls' = stalls + 1 /\ stalled' = More(stalled, StallN) /\ stalls < StallN
    BY <1>3 DEF Stall, pico
  <2>2. stalls' \in Nat /\ stalled' \in 0..StallN /\ stalls' <= stalled'
    BY <2>1, Caps DEF More, SupInv, SupTypeOK, AnswersInv
  <2>. QED BY <2>1, <2>2 DEF SupInv, SupTypeOK, AskedIsWanted, AnswersInv, SpellInv, PleaInv
<1>4. CASE StallForgotten
  <2>1. UNCHANGED <<h, gw, wanted, rx, past>> /\ stalls' = stalls - 1 /\ stalls > 0
    BY <1>4 DEF StallForgotten, pico
  <2>2. stalls' \in Nat /\ stalls' <= stalled
    BY <2>1, Caps DEF SupInv, SupTypeOK, AnswersInv
  <2>. QED BY <2>1, <2>2 DEF past, SupInv, SupTypeOK, AskedIsWanted, AnswersInv, SpellInv, PleaInv
<1>. QED BY <1>1, <1>2, <1>3, <1>4
         DEF World, WifiDrops, WifiReturns, ClientComes, ClientGoes, Toll, RingingEnds, Delivered,
             pico, past

LEMMA NextInv == SupInv /\ [Next]_vars => SupInv'
<1>1. SupInv /\ UNCHANGED vars => SupInv'
  BY DEF vars, pico, past, SupInv, SupTypeOK, AskedIsWanted, AnswersInv, SpellInv, PleaInv
<1>. QED BY <1>1, PassInv, WorldInv DEF Next

\* The invariant SupInv, for every choice of the times of link_health.py that
\* keeps its order: silence is found before a link is dead and before a radio
\* reset has settled.
THEOREM SupervisorInvariant == Spec => []SupInv
BY InitInv, NextInv, PTL DEF Spec

-----------------------------------------------------------------------------
\* LinkHealth has asked for a Pico reset exactly while the Concentrator wants
\* one (_pico_asked and _reset_wanted_at).
THEOREM RecordsAgree == Spec => []AskedIsWanted
<1>1. SupInv => AskedIsWanted
  BY DEF SupInv
<1>. QED BY <1>1, SupervisorInvariant, PTL

\* No radio reset answers a trouble that another already answered (update() and
\* link_step, with the records they keep in two modules).
THEOREM EveryCycleHasEvidence == Spec => CyclesHaveEvidence
<1>1. SupInv /\ [Next]_vars => [acted'.what = "cycle" => acted'.why # {}]_vars
  <2>1. ASSUME SupInv, Next, acted'.what = "cycle" PROVE acted'.why # {}
    <3>1. ASSUME NEW d \in Late, NEW answer \in Answers, NEW decided, decided = Decided(d, answer),
                 PassCycle(d, answer, decided)
          PROVE  acted'.why # {}
      <4>1. acted'.why = Evidence(d, answer) /\ Cycles(decided)
        BY <3>1 DEF PassCycle, Deed
      <4>2. answer \in {"none", "ok", "miss"}
        BY AnswersType
      <4>3. Missing(answer) \in 0..GatewayN
        BY <2>1, <4>2, PassFacts
      <4>4. CASE Missing(answer) >= GatewayN \/ stalled >= StallN
        BY <4>1, <4>4 DEF Evidence, Missing
      <4>5. CASE Missing(answer) < GatewayN /\ stalled < StallN
        <5>1. frame = "fresh" \/ (frame = "early" /\ ~Recent(Seen(d, answer)))
          BY <2>1, <3>1, <4>1, <4>2, <4>5, SilenceUnanswered
        <5>. QED BY <4>1, <5>1 DEF Evidence, Seen
      <4>6. stalled \in 0..StallN
        BY <2>1 DEF SupInv, SupTypeOK
      <4>. QED BY <4>3, <4>4, <4>5, <4>6, Caps
    <3>2. Pass
      <4>1. ~World
        BY <2>1 DEF World, WifiDrops, WifiReturns, ClientComes, Hello, ClientGoes, Stall,
                    StallForgotten, Toll, RingingEnds, Delivered, Nothing, Deed
      <4>. QED BY <2>1, <4>1 DEF Next
    <3>3. PICK d \in Late, answer \in Answers : \E decided \in {Decided(d, answer)} :
            \/ PassReset(d, answer, decided)
            \/ \E joins \in BOOLEAN : PassDown(d, answer, decided, joins)
            \/ PassUp(d, answer, decided)
            \/ PassCycle(d, answer, decided)
      BY <3>2 DEF Pass
    <3> DEFINE decided == Decided(d, answer)
    <3> HIDE DEF decided
    <3>4. ~PassReset(d, answer, decided)
      <4>1. PassReset(d, answer, decided) => acted'.what = "reset"
        BY DEF PassReset, Deed
      <4>. QED BY <2>1, <4>1
    <3>5. ASSUME NEW joins \in BOOLEAN PROVE ~PassDown(d, answer, decided, joins)
      <4>1. PassDown(d, answer, decided, joins)
              => acted' = Deed("join", {}) \/ acted' = Deed("none", {})
        BY Zenon DEF PassDown
      <4>2. Deed("join", {}).what # "cycle" /\ Deed("none", {}).what # "cycle"
        BY DEF Deed
      <4>. QED BY <2>1, <4>1, <4>2
    <3>6. ~PassUp(d, answer, decided)
      <4>1. PassUp(d, answer, decided) => acted' = Deed("none", {}) \/ acted' = Deed("ping", {})
        BY Zenon DEF PassUp
      <4>2. Deed("none", {}).what # "cycle" /\ Deed("ping", {}).what # "cycle"
        BY DEF Deed
      <4>. QED BY <2>1, <4>1, <4>2
    <3>7. PassCycle(d, answer, decided)
      BY <3>3, <3>4, <3>5, <3>6 DEF decided
    <3>. QED BY <3>1, <3>7 DEF decided
  <2>. QED BY <2>1
<1>. QED BY <1>1, SupervisorInvariant, PTL DEF Spec, CyclesHaveEvidence

\* A Pico reset, made at once or many passes after it was asked for, still has
\* the grounds it was asked for on: the spell (_spell), no live client since, and
\* the time undelivered strokes are given (link_step, reset_decision).
THEOREM EveryResetIsEarned == Spec => ResetIsEarned
<1>1. SupInv /\ [Next]_vars => [acted'.what = "reset" => acted'.why = {"alone", "waited"}]_vars
  <2>1. ASSUME SupInv, Next, acted'.what = "reset" PROVE acted'.why = {"alone", "waited"}
    <3>1. Pass
      <4>1. ~World
        BY <2>1 DEF World, WifiDrops, WifiReturns, ClientComes, Hello, ClientGoes, Stall,
                    StallForgotten, Toll, RingingEnds, Delivered, Nothing, Deed
      <4>. QED BY <2>1, <4>1 DEF Next
    <3>2. PICK d \in Late, answer \in Answers : \E decided \in {Decided(d, answer)} :
            \/ PassReset(d, answer, decided)
            \/ \E joins \in BOOLEAN : PassDown(d, answer, decided, joins)
            \/ PassUp(d, answer, decided)
            \/ PassCycle(d, answer, decided)
      BY <3>1 DEF Pass
    <3> DEFINE decided == Decided(d, answer)
    <3> HIDE DEF decided
    <3>3. ASSUME NEW joins \in BOOLEAN PROVE ~PassDown(d, answer, decided, joins)
      <4>1. PassDown(d, answer, decided, joins)
              => acted' = Deed("join", {}) \/ acted' = Deed("none", {})
        BY Zenon DEF PassDown
      <4>2. Deed("join", {}).what # "reset" /\ Deed("none", {}).what # "reset"
        BY DEF Deed
      <4>. QED BY <2>1, <4>1, <4>2
    <3>4. ~PassUp(d, answer, decided)
      <4>1. PassUp(d, answer, decided) => acted' = Deed("none", {}) \/ acted' = Deed("ping", {})
        BY Zenon DEF PassUp
      <4>2. Deed("none", {}).what # "reset" /\ Deed("ping", {}).what # "reset"
        BY DEF Deed
      <4>. QED BY <2>1, <4>1, <4>2
    <3>5. ~PassCycle(d, answer, decided)
      <4>1. PassCycle(d, answer, decided) => acted'.what = "cycle"
        BY DEF PassCycle, Deed
      <4>. QED BY <2>1, <4>1
    <3>6. PassReset(d, answer, decided)
      BY <3>2, <3>3, <3>4, <3>5 DEF decided
    <3> DEFINE p == Plea(d, answer, decided)
    <3> DEFINE w == Wanted(d, decided)
    <3>7. /\ w # None /\ ~LiveClient(Age(d)) /\ (pending => ~(w < HoldS))
          /\ acted'.why = Grounds(p)
      BY <3>6 DEF PassReset, Decision, ResetDecision, Deed
    <3>8. w # None /\ ~LiveClient(Age(d)) => p.alone >= PicoS /\ p.age = w
      BY <2>1, AnswersType, PleaPass DEF decided
    <3> HIDE DEF p, w
    <3>. QED BY <3>7, <3>8 DEF Grounds
  <2>. QED BY <2>1
<1>. QED BY <1>1, SupervisorInvariant, PTL DEF Spec, ResetIsEarned
=============================================================================
