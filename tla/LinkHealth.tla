----------------------------- MODULE LinkHealth -----------------------------
(***************************************************************************)
(* The health of the farm link (link_health.py, class LinkHealth, and      *)
(* reset_decision): what one supervision pass observes, and whether it     *)
(* asks for the radio to be cycled or for the Pico to be reset.  The state *)
(* is a label; what keeps a remedy from being repeated are the flags and   *)
(* the dates beside it.                                                    *)
(*                                                                         *)
(* Dates are kept as ages, in units of time, -1 for None, each counted up  *)
(* to the time it is compared with.                                        *)
(***************************************************************************)
EXTENDS Integers

CONSTANTS
  SilentS,    \* CLIENT_SILENT_S: no frame for this long is silence
  DeadS,      \* LINK_DEAD_S: silence that asks for a radio reset
  SettleS,    \* RADIO_RESET_SETTLE_S
  CalmS,      \* CALM_S: Wi-Fi up and nothing bad this long ends a spell
  PicoS,      \* PICO_RESET_S: a spell that asks for a Pico reset
  HoldS,      \* RESET_HOLD_S: how long undelivered strokes hold it back
  GatewayN,   \* GATEWAY_FAIL_N
  StallN      \* STALL_N

ASSUME LinkAssumption ==
  /\ {SilentS, DeadS, SettleS, CalmS, PicoS, GatewayN, StallN} \subseteq Nat \ {0}
  /\ HoldS \in Nat
  /\ SilentS < DeadS /\ SilentS <= SettleS

None == -1
Ages(cap) == None..cap

\* An age d units of time later.
Older(age, d, cap) == IF age = None THEN None ELSE IF age + d > cap THEN cap ELSE age + d

States == {"DOWN", "UP", "CLIENT_LIVE", "CLIENT_SILENT", "RADIO_RESET", "DEAD"}

\* A LinkHealth object: dead, radio, bad, calm and stall are the ages of
\* _dead_since, _radio_reset_at, _bad_since, _calm_since, _stall_reset_at.
Healths == [state : States, dead : Ages(DeadS), radio : Ages(SettleS), latched : BOOLEAN,
            bad : Ages(PicoS), calm : Ages(CalmS), asked : BOOLEAN, stall : Ages(SettleS),
            events : SUBSET {"radio_reset", "pico_reset"}]

NewHealth == [state |-> "DOWN", dead |-> None, radio |-> None, latched |-> FALSE,
              bad |-> None, calm |-> None, asked |-> FALSE, stall |-> None, events |-> {}]

\* What a pass observes.  rx is last_rx_age_s, None until a heartbeat was
\* heard this boot; quiet is tower_inactive, which also means that the last
\* stroke was MEM_QUIET_MS ago.
Observations == [wifi : BOOLEAN, clients : BOOLEAN, rx : Ages(DeadS), gwOk : BOOLEAN,
                 misses : Nat, failing : BOOLEAN, stalled : BOOLEAN, quiet : BOOLEAN]

\* d units of time pass.
Aging(h, d) ==
  [h EXCEPT !.dead = Older(@, d, DeadS), !.radio = Older(@, d, SettleS),
            !.bad = Older(@, d, PicoS), !.calm = Older(@, d, CalmS), !.stall = Older(@, d, SettleS)]

-----------------------------------------------------------------------------
(* _spell: one unhealthy spell, across radio resets and rejoins.           *)

\* Mutant: a good sign does not end the spell.
SpellAges_NeverGood(h, bad, good) ==
  CASE bad                                -> [h EXCEPT !.calm = None,
                                                       !.bad = IF @ = None THEN 0 ELSE @]
    [] ~bad /\ h.calm = None              -> [h EXCEPT !.calm = 0]
    [] ~bad /\ h.calm >= CalmS            -> [h EXCEPT !.bad = None]
    [] OTHER                              -> h

SpellAges(h, bad, good) ==
  CASE good                               -> [h EXCEPT !.bad = None, !.calm = None]
    [] ~good /\ bad                       -> [h EXCEPT !.calm = None,
                                                       !.bad = IF @ = None THEN 0 ELSE @]
    [] ~good /\ ~bad /\ h.calm = None     -> [h EXCEPT !.calm = 0]
    [] ~good /\ ~bad /\ h.calm >= CalmS   -> [h EXCEPT !.bad = None]
    [] OTHER                              -> h

\* It asks once, when it has lasted PICO_RESET_S, with the tower quiet.
Spell(h, bad, good, quiet) ==
  LET s == SpellAges(h, bad, good)
  IN  IF ~good /\ s.bad >= PicoS /\ quiet /\ ~s.asked
      THEN [s EXCEPT !.asked = TRUE, !.state = "DEAD", !.events = @ \cup {"pico_reset"}]
      ELSE s

-----------------------------------------------------------------------------
(* update(), in its order.                                                 *)

\* Wi-Fi down: nothing else is looked at.
WithoutWifi(h, o) ==
  Spell([h EXCEPT !.state = "DOWN", !.dead = None], TRUE, FALSE, o.quiet)

\* Wi-Fi up: a joined link is UP, and a radio reset that did not drop the
\* Wi-Fi settles.
Joined(h) ==
  IF h.state = "DOWN" \/ (h.state = "RADIO_RESET" /\ h.radio >= SettleS)
  THEN [h EXCEPT !.state = "UP"] ELSE h

\* A frame within CLIENT_SILENT_S.
Recent(o) == o.rx # None /\ o.rx < SilentS

Live(o) == o.clients /\ Recent(o)

\* Frames are arriving: a new silent spell may ask for a reset again.
Unlatched(h, o) == IF Recent(o) THEN [h EXCEPT !.latched = FALSE] ELSE h

\* Who is heard.  Without a client, a spell of silence began with the last
\* frame.
Heard(h, o) ==
  CASE Live(o) -> [h EXCEPT !.state = "CLIENT_LIVE", !.dead = None]
    [] ~Live(o) /\ o.clients /\ o.rx # None ->
         [h EXCEPT !.state = "CLIENT_SILENT", !.dead = IF @ = None THEN 0 ELSE @]
    [] OTHER ->
         [h EXCEPT !.state = IF @ \in {"CLIENT_LIVE", "CLIENT_SILENT"} THEN "UP" ELSE @,
                   !.dead = IF @ = None /\ o.rx >= SilentS THEN o.rx ELSE @]

MayReset(h) == h.state \notin {"RADIO_RESET", "DEAD"}

AskRadio(h) == [h EXCEPT !.state = "RADIO_RESET", !.radio = 0, !.events = @ \cup {"radio_reset"}]

Gateway(h, o) ==
  IF o.quiet /\ ~o.gwOk /\ o.misses >= GatewayN /\ MayReset(h) THEN AskRadio(h) ELSE h

\* Mutant: one reset per pass of a silent spell.
DeadLink_Again(h, o) ==
  IF h.dead >= DeadS /\ MayReset(h) /\ o.quiet THEN AskRadio(h) ELSE h

\* One reset per silent spell, not one per rejoin.
DeadLink(h, o) ==
  IF h.dead >= DeadS /\ MayReset(h) /\ ~h.latched /\ o.quiet
  THEN [AskRadio(h) EXCEPT !.latched = TRUE] ELSE h

\* Clients that keep reconnecting hide a sick radio: stalls show it.
Stalls(h, o) ==
  IF o.stalled /\ o.quiet /\ MayReset(h) /\ (h.stall = None \/ h.stall >= SettleS)
  THEN [AskRadio(h) EXCEPT !.stall = 0] ELSE h

WithWifi(h, o) ==
  LET asked == Stalls(DeadLink(Gateway(Heard(Unlatched(Joined(h), o), o), o), o), o)
      silent == asked.dead # None
      good == (asked.state = "CLIENT_LIVE" \/ (o.gwOk /\ ~silent)) /\ ~o.stalled
  IN  Spell(asked, o.failing \/ silent \/ o.stalled, good, o.quiet)

Update(h, o) ==
  LET fresh == [h EXCEPT !.events = {}]
  IN  IF o.wifi THEN WithWifi(fresh, o) ELSE WithoutWifi(fresh, o)

\* Mutant: a reset that is called off counts as asked for.
CalledOff_StillAsked(h) == [h EXCEPT !.bad = None]

\* reset_called_off: the link healed while the reset was held.
CalledOff(h) == [h EXCEPT !.asked = FALSE, !.bad = None]

\* reset_decision: wanted is how long ago a Pico reset was asked for.
ResetDecision(wanted, pending, live) ==
  CASE wanted = None                                -> "none"
    [] wanted # None /\ live                        -> "cancel"
    [] wanted # None /\ ~live /\ pending /\ wanted < HoldS -> "hold"
    [] OTHER                                        -> "reset"
=============================================================================
