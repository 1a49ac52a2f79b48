------------------------------ MODULE ExitRules ------------------------------
(***************************************************************************)
(* core/positions/exit_rules.py and core/positions/delta_hedge.py: what a  *)
(* monitor cycle decides about one position.  z-scores are in tenths, the  *)
(* pnl in units of the entry vega, a delta in half contracts.              *)
(* A context is a record [pc, entryZ, z, dte, days, pnl, vega, regime]: pc *)
(* says that a PCA signal opened the position and that it has a current    *)
(* value, z.                                                               *)
(***************************************************************************)
EXTENDS Integers, Sequences, FiniteSets

CONSTANT NoDelta  \* the live delta could not be computed (no surface): unknown, not flat
ASSUME NoDeltaAssumption == NoDelta \notin Int

Abs(n) == IF n < 0 THEN -n ELSE n

NoDecision == [rule |-> "none", action |-> "none", priority |-> 0]
ExitBy(rule, priority) == [rule |-> rule, action |-> "EXIT", priority |-> priority]

SignalReverseRule(ctx) ==
  LET flipped == (ctx.entryZ > 0) # (ctx.z > 0)
      tooWeak == Abs(ctx.z) < 5 IN
  CASE ~ctx.pc -> NoDecision
    [] ctx.pc /\ (flipped \/ tooWeak) -> ExitBy("signal_reverse", 4)
    [] ctx.pc /\ ~flipped /\ ~tooWeak /\ 2 * Abs(ctx.z) < Abs(ctx.entryZ)
         -> [rule |-> "signal_reverse", action |-> "TRIM", priority |-> 3]
    [] OTHER -> NoDecision

TimeBasedRule(ctx) ==
  IF ctx.dte > 0 /\ 10 * ctx.days < 3 * ctx.dte THEN ExitBy("time_based", 2) ELSE NoDecision

StopLossVegaRule(ctx) ==
  IF ctx.vega # 0 /\ ctx.pnl < -3 * Abs(ctx.vega) THEN ExitBy("stop_loss_vega", 3)
  ELSE NoDecision

TimeToExpiryCriticalRule(ctx) ==
  IF ctx.days < 7 THEN ExitBy("time_to_expiry_critical", 5) ELSE NoDecision

PreEventRegimeRule(ctx) ==
  IF ctx.regime = "pre_event" THEN ExitBy("pre_event_regime", 6) ELSE NoDecision

\* EXIT_RULES in its order, and evaluate_all_rules; a rule that does not trigger keeps
\* its place with NoDecision, of a priority below every decision's.
EvaluateAllRules(ctx) ==
  <<SignalReverseRule(ctx), TimeBasedRule(ctx), StopLossVegaRule(ctx),
    TimeToExpiryCriticalRule(ctx), PreEventRegimeRule(ctx)>>

\* Fault: the first rule that triggers wins.
PickFirst(decisions) ==
  LET triggered == {i \in DOMAIN decisions : decisions[i] # NoDecision} IN
  IF triggered = {} THEN NoDecision
  ELSE decisions[CHOOSE i \in triggered : \A j \in triggered : i <= j]

\* pick_winning_decision: the highest priority; Python's max keeps the first of
\* equals, so that a tie is settled by the order of EXIT_RULES.
PickWinningDecision(decisions) ==
  decisions[CHOOSE i \in DOMAIN decisions :
         /\ \A j \in DOMAIN decisions : decisions[j].priority <= decisions[i].priority
         /\ \A j \in 1..(i - 1) : decisions[j].priority < decisions[i].priority]

-----------------------------------------------------------------------------
(* Delta hedge *)

\* Python's round of n/2: half to even.
RoundHalves(n) == LET q == n \div 2 IN IF n % 2 = 0 THEN q ELSE q + (q % 2)

\* Fault: the hedges in flight are not subtracted.
NetIgnoringPending(delta, inflight) == delta

\* net_pending_hedge_delta; inflight is the signed sum of the pending and the
\* submitted hedges, in contracts.
NetPendingHedgeDelta(delta, inflight) == IF delta = NoDelta THEN NoDelta ELSE delta + 2 * inflight

\* check_delta_hedge_needed: the signed quantity to trade, 0 for "no hedge".
\* The threshold, 0.05, is below the unit: every delta but 0 passes it.
CheckDeltaHedgeNeeded(delta, cooling, minQty) ==
  IF \/ delta = NoDelta
     \/ delta = 0
     \/ cooling
     \/ Abs(RoundHalves(delta)) < minQty
  THEN 0 ELSE -RoundHalves(delta)
=============================================================================
