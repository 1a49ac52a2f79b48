----------------------------- MODULE TradePreview -----------------------------
(***************************************************************************)
(* What core/trade_preview.py computes for one preview request: the legs a *)
(* template or a free leg list turns into on the current surface, their    *)
(* net greeks, the size, and the pre-submit checks.  A strike is named by  *)
(* the delta pillar it sits at, so the Black-76 numbers become a table of  *)
(* small integers per tenor and pillar; a contract's delta is 20.          *)
(*                                                                         *)
(* A surface is a record: iv, the set of <<tenor, pillar>> cells it has,   *)
(* and interp, the tenors interpolated between listed expiries.            *)
(***************************************************************************)
EXTENDS Integers, Sequences, FiniteSets, SequencesExt

DTE == [t \in {"1M", "2M", "3M", "4M", "5M", "6M"} |->
          CASE t = "1M" -> 30 [] t = "2M" -> 60 [] t = "3M" -> 90
            [] t = "4M" -> 120 [] t = "5M" -> 150 [] t = "6M" -> 180]
DELTA_PILLARS == {"10dp", "25dp", "atm", "25dc", "10dc"}
Unpriced == "none"      \* a leg whose cell the surface lacks has no strike

\* bs_greeks, as a table: vega grows with the tenor and towards the money,
\* a call's delta is a share of 20, a put's is that minus 20.
BsVega(tenor, strike) ==
  (DTE[tenor] \div 30) * (CASE strike = "atm" -> 4 [] strike \in {"25dp", "25dc"} -> 3 [] OTHER -> 2)
BsDelta(type, strike) ==
  (CASE strike = "10dp" -> 18 [] strike = "25dp" -> 15 [] strike = "atm" -> 10
     [] strike = "25dc" -> 5 [] strike = "10dc" -> 2) - (IF type = "put" THEN 20 ELSE 0)

-----------------------------------------------------------------------------
(* The structure builder. *)

\* A leg template: contract type, pillar, side, weight; fixed legs (the body
\* of a butterfly) ignore the pillar override, far legs take the far tenor.
L(type, pillar, side, factor) ==
  [type |-> type, pillar |-> pillar, side |-> side, factor |-> factor, far |-> FALSE, fixed |-> FALSE]
Body(leg) == [leg EXCEPT !.fixed = TRUE]
Far(leg)  == [leg EXCEPT !.far = TRUE]

TEMPLATES ==
  [straddle_atm        |-> <<L("call", "atm", "BUY", 1), L("put", "atm", "BUY", 1)>>,
   short_strangle      |-> <<L("call", "25dc", "SELL", 1), L("put", "25dp", "SELL", 1)>>,
   calendar_long       |-> <<L("call", "atm", "SELL", 1), Far(L("call", "atm", "BUY", 1))>>,
   calendar_short      |-> <<L("call", "atm", "BUY", 1), Far(L("call", "atm", "SELL", 1))>>,
   long_butterfly_25d  |-> <<L("call", "10dc", "BUY", 1), Body(L("call", "atm", "SELL", 2)), L("call", "10dp", "BUY", 1)>>,
   short_butterfly_25d |-> <<L("call", "10dc", "SELL", 1), Body(L("call", "atm", "BUY", 2)), L("call", "10dp", "SELL", 1)>>,
   short_straddle_atm  |-> <<L("call", "atm", "SELL", 1), L("put", "atm", "SELL", 1)>>,
   long_strangle_25d   |-> <<L("call", "25dc", "BUY", 1), L("put", "25dp", "BUY", 1)>>,
   future_buy          |-> <<L("future", "atm", "BUY", 1)>>,
   future_sell         |-> <<L("future", "atm", "SELL", 1)>>,
   vanilla_call        |-> <<L("call", "atm", "BUY", 1)>>,
   short_vanilla_call  |-> <<L("call", "atm", "SELL", 1)>>,
   vanilla_put         |-> <<L("put", "atm", "BUY", 1)>>,
   short_vanilla_put   |-> <<L("put", "atm", "SELL", 1)>>]

Leg(type, tenor, strike, iv, side, factor) ==
  [type |-> type, tenor |-> tenor, strike |-> strike, iv |-> iv, side |-> side, factor |-> factor]

ResolveTenor(lt, near, far) == IF lt.far /\ far # "" THEN far ELSE near

\* The picked pillar keeps a wing's direction; an at-the-money leg takes the
\* direction of its contract type.
MirrorPillar(override, pillar, type) ==
  LET call == pillar \in {"25dc", "10dc"} \/ (pillar = "atm" /\ type = "call") IN
  CASE override = "atm" -> "atm"
    [] override \in {"25dp", "25dc"} -> IF call THEN "25dc" ELSE "25dp"
    [] override \in {"10dp", "10dc"} -> IF call THEN "10dc" ELSE "10dp"

\* req: [template, near, far, pillar, strike, size, qty], "" for an absent field.
BuildStructure(req, surface) ==
  LET tpl == TEMPLATES[req.template]
      BuildLeg(lt) ==
        LET tenor  == ResolveTenor(lt, req.near, req.far)
            pillar == IF req.pillar # "" /\ ~lt.fixed THEN MirrorPillar(req.pillar, lt.pillar, lt.type) ELSE lt.pillar
            cell   == <<tenor, pillar>> \in surface.iv
            strike == IF Len(tpl) = 1 /\ req.strike # "" THEN req.strike ELSE IF cell THEN pillar ELSE Unpriced
        IN IF lt.type = "future" THEN Leg("future", tenor, Unpriced, FALSE, lt.side, lt.factor)
           ELSE Leg(lt.type, tenor, strike, cell, lt.side, lt.factor)
  IN [legs |-> [i \in DOMAIN tpl |-> BuildLeg(tpl[i])],
      size |-> IF tpl[1].type # "future" THEN "" ELSE IF req.size = "" THEN "full" ELSE req.size]

\* snap_tenor: a tenor that is not listed trades the nearest listed one, the
\* shorter of two at the same distance (the surface lists its tenors in order).
SnapTenor(tenor, surface) ==
  LET listed == {c[1] : c \in surface.iv} \ surface.interp
      Gap(t) == IF DTE[t] > DTE[tenor] THEN 2 * (DTE[t] - DTE[tenor]) + 1 ELSE 2 * (DTE[tenor] - DTE[t])
  IN IF listed = {} \/ tenor \in listed THEN tenor
     ELSE CHOOSE t \in listed : \A u \in listed : Gap(t) <= Gap(u)

\* The free-leg path; the first future's size is every future's size.
ValidLegs(specs) == specs # <<>> /\ \A i \in DOMAIN specs : specs[i].factor > 0

BuildFromLegs(specs, surface) ==
  LET BuildLeg(s) ==
        LET tenor == SnapTenor(s.tenor, surface)
            cell  == <<tenor, s.pillar>> \in surface.iv
        IN IF s.type = "future" THEN Leg("future", s.tenor, Unpriced, FALSE, s.side, s.factor)
           ELSE Leg(s.type, tenor, IF s.strike # "" THEN s.strike ELSE IF cell THEN s.pillar ELSE Unpriced,
                    cell, s.side, s.factor)
      futures == SelectSeq(specs, LAMBDA s : s.type = "future")
  IN [legs |-> [i \in DOMAIN specs |-> BuildLeg(specs[i])],
      size |-> IF futures = <<>> THEN "" ELSE IF Head(futures).size = "" THEN "full" ELSE Head(futures).size]

-----------------------------------------------------------------------------
(* Greeks, sizing and checks. *)

Priced(leg) == leg.type # "future" /\ leg.strike # Unpriced /\ leg.iv
Sign(leg)   == IF leg.side = "BUY" THEN 1 ELSE -1
Micro(size) == IF size = "micro" THEN 2 ELSE 20     \* a future's delta: 12 500 or 125 000 EUR

\* The sum of f[1] to f[n]: what a loop over the legs adds up.
Total(n, f) ==
  LET sum[k \in 0..n] == IF k = 0 THEN 0 ELSE sum[k - 1] + f[k]
  IN sum[n]

\* _leg_greeks: an option leg without a strike or an IV has no greeks at all.
LegGreeks(leg, size) ==
  LET n == Sign(leg) * leg.factor IN
  CASE leg.type = "future" -> [vega |-> 0, delta |-> n * Micro(size)]
    [] Priced(leg)         -> [vega |-> n * BsVega(leg.tenor, leg.strike), delta |-> n * BsDelta(leg.type, leg.strike)]
    [] OTHER               -> [vega |-> 0, delta |-> 0]

ComputeNetGreeks(s) ==
  LET greeks == [i \in DOMAIN s.legs |-> LegGreeks(s.legs[i], s.size)]
  IN [vega  |-> Total(Len(s.legs), [i \in DOMAIN s.legs |-> greeks[i].vega]),
      delta |-> Total(Len(s.legs), [i \in DOMAIN s.legs |-> greeks[i].delta])]

\* A multiplier in tenths: the regime's, for sizes and for limits alike.
RegimeMult(regime) == CASE regime = "stressed" -> 7 [] regime = "pre_event" -> 0 [] OTHER -> 10

Round(n, d) ==      \* Python's round of n / d, for d > 0: a half goes to the even side
  LET q == n \div d  r == 2 * (n % d) IN IF r > d \/ (r = d /\ q % 2 = 1) THEN q + 1 ELSE q

\* Fault: the operator's quantity goes through the regime.
SizingByRegime(base, override, regime, dampener) ==
  LET raw == Round(base * RegimeMult(regime) * (IF dampener THEN 5 ELSE 10), 100)
  IN IF RegimeMult(regime) = 0 THEN 0 ELSE IF raw < 1 THEN 1 ELSE raw

\* compute_sizing as the manual path calls it (z_factor and book_penalty 1):
\* a positive override is the quantity, whatever the regime; a negative one is
\* ignored, and max(1, ...) makes it 1.
ComputeSizing(base, override, regime, dampener) ==
  IF override > 0 THEN override ELSE SizingByRegime(base, override, regime, dampener)

Abs(n) == IF n < 0 THEN -n ELSE n

\* apply_regime_to_limits and run_pre_submit_checks.  The vega checked is that
\* of one structure unit times final / max(base, 1): of one unit, in a preview
\* that asks for its quantity.
RunPreSubmitChecks(regime, bookVega, unitVega, final, base, maxBookVega) ==
  LET n == IF base < 1 THEN 1 ELSE base IN
  /\ regime # "pre_event"
  /\ 10 * Abs(bookVega * n + unitVega * final) <= maxBookVega * RegimeMult(regime) * n
=============================================================================
