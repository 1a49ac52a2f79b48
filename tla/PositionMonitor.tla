--------------------------- MODULE PositionMonitor ---------------------------
(***************************************************************************)
(* The position monitor (api/orchestration/position_monitor.py) over the   *)
(* position of module PositionClose: a cycle reads the open position,      *)
(* stages at most one exit alert and one hedge row, commits, and only then *)
(* posts the hedges, publishes and asks for the closes, in vain.  Hedges   *)
(* go on to submit_hedge_order and _finalise_hedge (engines/execution/     *)
(* hedge_executor.py).                                                     *)
(***************************************************************************)
EXTENDS PositionClose, ExitRules

CONSTANTS
  Contexts,   \* exit-rule contexts a cycle may read
  Deltas,     \* the position's delta (half contracts)
  MaxHedges   \* bound: hedge rows ever made

ASSUME HedgeBoundAssumption == MaxHedges \in Nat
ASSUME DeltasAssumption == Deltas \subseteq Int

VARIABLES
  delta,      \* the delta price_position computes on a full surface, fixed by Init
  hedges,     \* hedge_order rows
  cooling,    \* the last hedge row is younger than max_hedge_frequency_seconds
  cycle       \* per monitor instance: pc, and its pending lists

vars == <<closeVars, delta, hedges, cooling, cycle>>

HedgeType ==
  [by : Monitors, qty : Int, state : {"staged", "rolled_back", "pending", "submitted", "filled", "failed"},
   ib : {"none", "live", "filled", "cancelled"}, posted : BOOLEAN]

TypeOK ==
  /\ CloseTypeOK
  /\ delta \in Deltas \cup {0}
  /\ hedges \in Seq(HedgeType) /\ Len(hedges) <= MaxHedges
  /\ cooling \in BOOLEAN
  /\ cycle \in [Monitors -> [pc : {"idle", "read", "staged", "dispatch", "initiate"},
                             closes : Seq(1..MaxAlerts), hedge : Seq(1..MaxHedges)]]

MonitorActs == scenario # "operator"

Init ==
  /\ CloseInit
  /\ delta \in (IF scenario = "hedge" THEN Deltas ELSE {0})
  /\ hedges = <<>>
  /\ cooling = FALSE
  /\ cycle = [m \in Monitors |-> [pc |-> "idle", closes |-> <<>>, hedge |-> <<>>]]

\* The rows of the hedger in flight, signed (BUY > 0), as the cycle's query sees them.
InFlightHedges ==
  SumFunction([h \in DOMAIN hedges |->
                 IF hedges[h].state \in {"pending", "submitted"} THEN hedges[h].qty ELSE 0])

\* _cycle's query: there is an open position to monitor.
CycleReads(m) ==
  /\ MonitorActs
  /\ cycle[m].pc = "idle"
  /\ position = "open"
  /\ cycle' = [cycle EXCEPT ![m].pc = "read"]
  /\ UNCHANGED <<closeVars, delta, hedges, cooling>>

\* _recent_alert_exists: five minutes per rule.
RecentAlertExists(rule) ==
  \E a \in DOMAIN alerts : /\ alerts[a].rule = rule /\ alerts[a].recent
                           /\ alerts[a].status \notin {"staged", "rolled_back"}

\* price_position on the surface the cycle read: a leg whose IV the surface lacks is
\* priced on its entry IV and counted.
PricePosition(covered) == [total_delta |-> delta, n_surface_missing |-> IF covered THEN 0 ELSE 1]

\* _monitor_one's current_delta_unhedged: a mark that is missing a leg is no mark, and
\* the delta is unknown, not zero.
DeltaUnhedged(mark) == IF mark.n_surface_missing = 0 THEN mark.total_delta ELSE NoDelta

\* _monitor_one: the winning rule's alert, an EXIT queued for closing, and a hedge
\* row for what the hedges in flight leave of the delta, queued for posting.
\* Nothing is visible to others before the cycle commits.
MonitorOne(m) ==
  /\ cycle[m].pc = "read"
  /\ \E ctx \in Contexts, covered \in BOOLEAN :
       LET winner == PickWinningDecision(EvaluateAllRules(ctx))
           alert == scenario # "hedge" /\ winner # NoDecision /\ ~RecentAlertExists(winner.rule)
           live == DeltaUnhedged(PricePosition(covered))
           qty == CheckDeltaHedgeNeeded(NetPendingHedgeDelta(live, InFlightHedges), cooling, 1)
           urgent == ctx.regime = "pre_event" \/ ctx.days < 7 IN
       /\ alert => Len(alerts) < MaxAlerts
       /\ qty # 0 => Len(hedges) < MaxHedges
       /\ alerts' = IF alert
                    THEN Append(alerts, [by |-> m, action |-> winner.action,
                                         rule |-> winner.rule, urgent |-> urgent, recent |-> TRUE,
                                         status |-> "staged", closing |-> 0])
                    ELSE alerts
       /\ hedges' = IF qty # 0
                    THEN Append(hedges, [by |-> m, qty |-> qty, state |-> "staged",
                                         ib |-> "none", posted |-> FALSE])
                    ELSE hedges
       /\ cycle' = [cycle EXCEPT
            ![m].pc = "staged",
            ![m].closes = IF alert /\ winner.action = "EXIT" THEN Append(@, Len(alerts')) ELSE @,
            ![m].hedge = IF qty # 0 THEN Append(@, Len(hedges')) ELSE @]
  /\ UNCHANGED <<scenario, position, readers, mirror, orders, reserved, call, delta, cooling>>

\* What becomes of the rows instance m staged when its transaction ends.
SettleAlerts(m, to) ==
  [a \in DOMAIN alerts |-> IF alerts[a].by = m /\ alerts[a].status = "staged"
                           THEN [alerts[a] EXCEPT !.status = to] ELSE alerts[a]]
SettleHedges(m, to) ==
  [h \in DOMAIN hedges |-> IF hedges[h].by = m /\ hedges[h].state = "staged"
                           THEN [hedges[h] EXCEPT !.state = to] ELSE hedges[h]]

Commit(m) ==
  /\ cycle[m].pc = "staged"
  /\ alerts' = SettleAlerts(m, "none")
  /\ hedges' = SettleHedges(m, "pending")
  /\ cooling' = (cooling \/ hedges' # hedges)
  /\ cycle' = [cycle EXCEPT ![m].pc = "dispatch"]
  /\ UNCHANGED <<scenario, position, readers, mirror, orders, reserved, call, delta>>

\* The commit raises: the rows are gone, the pending lists are not.
CommitFails(m) ==
  /\ Faults
  /\ cycle[m].pc = "staged"
  /\ alerts' = SettleAlerts(m, "rolled_back")
  /\ hedges' = SettleHedges(m, "rolled_back")
  /\ cycle' = [cycle EXCEPT ![m].pc = "idle"]
  /\ UNCHANGED <<scenario, position, readers, mirror, orders, reserved, call, delta, cooling>>

\* _dispatch_pending_hedges (with execute_hedge): each id is posted once; a failed
\* post is only logged.
DispatchHedges(m) ==
  /\ cycle[m].pc = "dispatch"
  /\ cycle' = [cycle EXCEPT ![m].pc = "initiate", ![m].hedge = <<>>]
  /\ \E reached \in SUBSET {cycle[m].hedge[k] : k \in DOMAIN cycle[m].hedge} :
       hedges' = [h \in DOMAIN hedges |->
                    IF h \in reached THEN [hedges[h] EXCEPT !.posted = TRUE] ELSE hedges[h]]
  /\ UNCHANGED <<closeVars, delta, cooling>>

\* _dispatch_pending_closes: every queued close is tried once.  As wired each raises:
\* the scheduler is built with get_sessionmaker, so that `async with sm()` in
\* initiate_position_close enters a session factory, not a session.  The error is
\* logged; no closing structure is made and the position stays as it is.
InitiateClose(m) ==
  /\ cycle[m].pc = "initiate"
  /\ cycle[m].closes # <<>>
  /\ cycle' = [cycle EXCEPT ![m].closes = Tail(@)]
  /\ UNCHANGED <<closeVars, delta, hedges, cooling>>

\* _publish_ws_updates, and the sleep.
CycleEnds(m) ==
  /\ cycle[m].pc = "initiate"
  /\ cycle[m].closes = <<>>
  /\ cycle' = [cycle EXCEPT ![m].pc = "idle"]
  /\ UNCHANGED <<closeVars, delta, hedges, cooling>>

\* The two cooldowns run out.
CooldownsPass ==
  /\ cooling \/ \E a \in DOMAIN alerts : alerts[a].recent
  /\ cooling' = FALSE
  /\ alerts' = [a \in DOMAIN alerts |-> [alerts[a] EXCEPT !.recent = FALSE]]
  /\ UNCHANGED <<scenario, position, readers, mirror, orders, reserved, call, delta, hedges, cycle>>
-----------------------------------------------------------------------------
(* The hedge order at IB *)

PutHedge(h, changes) ==
  hedges' = [hedges EXCEPT ![h] =
               [f \in DOMAIN @ |-> IF f \in DOMAIN changes THEN changes[f] ELSE @[f]]]

\* submit_hedge_order: a pending row is placed and stamped, or fails when the
\* contract does not qualify or there is no price.  The claim of place_with_claim
\* is taken with the placement: a row is posted once.
SubmitHedge(h) ==
  /\ hedges[h].posted
  /\ hedges[h].state = "pending"
  /\ \/ PutHedge(h, [state |-> "submitted", ib |-> "live", posted |-> FALSE])
     \/ PutHedge(h, [state |-> "failed", posted |-> FALSE])
  /\ UNCHANGED <<closeVars, delta, cooling, cycle>>

IbHedge(h) ==
  /\ hedges[h].ib = "live"
  /\ \E end \in {"filled", "cancelled"} : PutHedge(h, [ib |-> end])
  /\ UNCHANGED <<closeVars, delta, cooling, cycle>>

\* _finalise_hedge: only IB's Filled is acted on.
FinaliseHedge(h) ==
  /\ hedges[h].ib = "filled"
  /\ hedges[h].state = "submitted"
  /\ PutHedge(h, [state |-> "filled"])
  /\ UNCHANGED <<closeVars, delta, cooling, cycle>>

Next ==
  \/ CloseNext /\ UNCHANGED <<delta, hedges, cooling, cycle>>
  \/ \E m \in Monitors : \/ CycleReads(m) \/ MonitorOne(m) \/ Commit(m) \/ CommitFails(m)
                         \/ DispatchHedges(m) \/ InitiateClose(m) \/ CycleEnds(m)
  \/ CooldownsPass
  \/ \E h \in DOMAIN hedges : SubmitHedge(h) \/ IbHedge(h) \/ FinaliseHedge(h)

\* A step of order i's that a task or IB owes.
Owed(i, step) == i \in Ids /\ step /\ UNCHANGED <<delta, hedges, cooling, cycle>>

\* What surely runs: the engine's request handler, the fill handler and its
\* continuation, the request's answer or client timeout, what a cycle does after its
\* commit, and time.  IB is done with
\* an order within the window unless Outlives.
Fairness ==
  /\ \A i \in 1..MaxOrders :
       /\ WF_vars(Owed(i, ClosePositionBySymbol(i)))
       /\ WF_vars(Owed(i, IbTrades(i) \/ IbCancels(i)))
       /\ WF_vars(Owed(i, PersistFill(i) \/ CompleteStructure(i) \/ Finalise(i)))
       /\ WF_vars(Owed(i, Age(i)))
  /\ \A c \in Callers :
       WF_vars((CloseRefused(c) \/ CloseTimesOut(c) \/ CloseAccepted(c))
               /\ UNCHANGED <<delta, hedges, cooling, cycle>>)
  /\ \A m \in Monitors : WF_vars(DispatchHedges(m) \/ InitiateClose(m) \/ CycleEnds(m))

Spec == Init /\ [][Next]_vars /\ Fairness
-----------------------------------------------------------------------------
(* Properties *)

LiveQty ==
  SumFunction([i \in Ids |-> IF orders[i].ib = "live" THEN orders[i].qty - orders[i].traded ELSE 0])

\* The closing orders live at IB can never sell more than IB holds: whatever is
\* clicked again, times out, is answered late, dies with the API or is filled behind
\* the mirror, the stacking guard and the engine's check keep the book from being
\* flipped (positions.py, order_executor.py) - as long as every placement is stamped.
NoOverClose == LiveQty <= Net

\* What the account sees of all this: one position sold off.
Out == INSTANCE CloseOut WITH held <- Net, offered <- LiveQty, state <- position

\* The operator's closes, the engine, IB, the position sync, the monitor's cycles and
\* every failure between them but an unstamped placement: the account sees one closing
\* order at a time that fits in what is held, and a position that never returns to
\* "open" and is called closed only when nothing is held.
ImplementsCloseOut == Out!Spec

\* What is left of the entry leg to close, |open_qty| - reserved_qty, stays
\* non-negative: two fast clicks cannot both reserve the whole leg
\* (core/execution/reservation.py:3-6, models.py:765-766).
AvailableStaysNonNegative == reserved <= Lot

\* A close live at IB that names its entry leg holds its reservation there for what
\* its row has not booked yet (persistence/reservation.py: every in-flight close of the
\* leg reserves); one that names no leg reserves nothing.
LiveCloseIsReserved ==
  SumFunction([i \in Ids |-> IF orders[i].linked /\ orders[i].ib = "live"
                             THEN orders[i].qty - orders[i].filled ELSE 0])
    <= reserved

\* When regime or expiry makes the exit urgent the alert a cycle stages says EXIT:
\* no weaker rule hides it (pick_winning_decision).
UrgentAlertExits == \A a \in DOMAIN alerts : alerts[a].urgent => alerts[a].action = "EXIT"

\* The hedges in flight never overshoot the delta they answer: the imbalance left
\* after them is no larger than the imbalance (net_pending_hedge_delta, #318).
HedgesNeverOvershoot == Abs(delta + 2 * InFlightHedges) <= Abs(delta)

\* No closing order, dispatched or not, counts against the stacking guard for good:
\* "a stuck close never locks the position forever" (close_inflight_remaining), so
\* again and again there is a moment when the guard has nothing in flight.
NoCloseCountsForever == []<>(AlreadyClosing = 0)

\* "So a retried close cannot place a second live close" (engines/execution/
\* main.py:602-604): the contract has one closing order at work at IB.
OneLiveClose == Cardinality({i \in Ids : orders[i].ib = "live"}) <= 1

\* What position_close.py:5-8 says of an auto-executed exit: the parent position is
\* closed in the end.
AutoExitCloses ==
  \A a \in 1..MaxAlerts :
    (a \in DOMAIN alerts /\ alerts[a].action = "EXIT" /\ alerts[a].status = "none")
      ~> (position # "open")
=============================================================================
