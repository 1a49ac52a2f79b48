--------------------------- MODULE OrderLifecycle ---------------------------
(***************************************************************************)
(* The life of the entry orders of ONE structure once their placement is   *)
(* committed (one IB order per leg).  Five writers share the trade_order   *)
(* rows: the IB event handlers, serialised by a lock per order             *)
(* (fills_handler.py), and, with no lock at all, the reaper (reaper.py),   *)
(* the stuck-order reconciler (order_reconciler.py) and the API's          *)
(* cancel_trade (api/routers/trades.py).  Each of the last three, and the  *)
(* status handler, reads rows, awaits, and writes what it decided from     *)
(* that read: two steps here.  When every leg is filled,                   *)
(* maybe_complete_structure books the position.                            *)
(*                                                                         *)
(* IB and ib_insync are external: an order executes, is held, rejected,    *)
(* cancelled or executes while its cancel travels; no order is assumed     *)
(* between an order's status events and its executions.                    *)
(***************************************************************************)
EXTENDS ExecutionCore

CONSTANTS Legs,        \* entry legs of the structure
          Qty,         \* trade_order.qty, per leg
          Shared,      \* legs whose contract the account also trades for others
          MaxFaults,   \* bound on crashes and disconnects
          MaxCancels   \* bound on POST /trades/{id}/cancel calls

ASSUME LegsAssumption == IsFiniteSet(Legs) /\ Legs # {}
ASSUME SharedAssumption == Shared \subseteq Legs
ASSUME QtyAssumption == Qty \in [Legs -> Nat \ {0}]
ASSUME BoundsAssumption == MaxFaults \in Nat /\ MaxCancels \in Nat

VARIABLES
  ibStatus,     \* trade.orderStatus.status
  hasError,     \* ib_reason_from_trade(trade) IS NOT None
  executed,     \* contracts IB executed; their execution ids are 1..executed[l]
  connected,    \* the API socket is up
  wired,        \* legs whose Trade carries our handlers in this session
  statusTasks,  \* legs with a spawned _on_order_status task that has not read its row
  statusPlan,   \* what a status task that has read its row will write
  fillTasks,    \* executions with a spawned, unfinished fill task, per leg
  state,        \* trade_order.state
  aged,         \* the legs' submitted_at, one submission, is older than REAPER_TAU_STALE_S
  fills,        \* trade_fill rows, per leg
  qtyFilled,    \* trade_order.qty_filled
  openQty,      \* leg_position.open_qty
  mirror,       \* legs whose contract has an open_position row naming the structure
  structState,  \* trade_structure.state
  booked,       \* booked_position rows of the structure
  completer,    \* maybe_complete_structure, per caller
  reapPlan,     \* legs the running reaper pass will write `expired` to
  reconPlan,    \* what the running reconciler pass will write, per leg
  cancelPc,     \* cancel_trade: "idle" | "commit"
  cancelPlan,   \* the legs it will write `cancelled` to
  faults, cancels,
  clobbered,    \* history: legs whose row a stale write took out of a state it had not read
  cascadeLost   \* history: a completer died or raised, or cancel_trade closed the structure first

ibVars     == <<ibStatus, hasError, executed>>
sessVars   == <<connected, wired>>
taskVars   == <<statusTasks, statusPlan, fillTasks>>
rowVars    == <<state, fills, qtyFilled, openQty>>
structVars == <<structState, booked>>
planVars   == <<reapPlan, reconPlan>>
cancelVars == <<cancelPc, cancelPlan, cancels>>
history    == <<clobbered, cascadeLost>>
vars == <<ibVars, sessVars, taskVars, rowVars, aged, mirror, structVars, completer,
          planVars, cancelVars, faults, history>>

\* The callers of maybe_complete_structure: a leg's fill handler (which holds the
\* leg's lock meanwhile), and the reconciler.
Recon == "recon"
Completers == Legs \cup {Recon}

NoStatus == [from |-> None, to |-> None]
StatusPlans == {NoStatus} \cup [from : OrderStates \ TERMINAL_STATES,
                                to : {"submitted", "rejected", "cancelled"}]
NoPlan == [to |-> None, qty |-> 0, book |-> FALSE]
Plans == {NoPlan} \cup [to : {"partially_filled", "filled"}, qty : Nat, book : BOOLEAN]

TypeOK ==
  /\ ibStatus \in [Legs -> IbStatuses] /\ hasError \in [Legs -> BOOLEAN]
  /\ executed \in [Legs -> Nat] /\ \A l \in Legs : executed[l] <= Qty[l]
  /\ connected \in BOOLEAN /\ wired \subseteq Legs
  /\ statusTasks \subseteq Legs /\ statusPlan \in [Legs -> StatusPlans]
  /\ fillTasks \in [Legs -> SUBSET (Nat \ {0})]
  /\ state \in [Legs -> OrderStates] /\ aged \in BOOLEAN
  /\ fills \in [Legs -> Seq(Nat)]
  /\ qtyFilled \in [Legs -> Nat] /\ openQty \in [Legs -> Nat]
  /\ mirror \subseteq Legs
  /\ structState \in {"submitted", "fully_filled", "partial_fail", "fully_failed"}
  /\ booked \in Nat
  /\ completer \in [Completers -> {"idle", "read", "write"}]
  /\ reapPlan \subseteq Legs /\ reconPlan \in [Legs -> Plans]
  /\ cancelPc \in {"idle", "commit"} /\ cancelPlan \subseteq Legs
  /\ faults \in 0..MaxFaults /\ cancels \in 0..MaxCancels
  /\ clobbered \subseteq Legs /\ cascadeLost \in BOOLEAN

\* submit_structure_live has committed every leg and attached its handlers.
Init ==
  /\ ibStatus = [l \in Legs |-> "Submitted"] /\ hasError = [l \in Legs |-> FALSE]
  /\ executed = [l \in Legs |-> 0]
  /\ connected = TRUE /\ wired = Legs
  /\ statusTasks = {} /\ statusPlan = [l \in Legs |-> NoStatus]
  /\ fillTasks = [l \in Legs |-> {}]
  /\ state = [l \in Legs |-> "submitted"] /\ aged = FALSE
  /\ fills = [l \in Legs |-> <<>>]
  /\ qtyFilled = [l \in Legs |-> 0] /\ openQty = [l \in Legs |-> 0]
  /\ mirror = {}
  /\ structState = "submitted" /\ booked = 0
  /\ completer = [w \in Completers |-> "idle"]
  /\ reapPlan = {} /\ reconPlan = [l \in Legs |-> NoPlan]
  /\ cancelPc = "idle" /\ cancelPlan = {}
  /\ faults = 0 /\ cancels = 0
  /\ clobbered = {} /\ cascadeLost = FALSE

-----------------------------------------------------------------------------
(* IB *)

Rejected(l) == ibStatus[l] = "Inactive" /\ hasError[l]
IbDone(l) == ibStatus[l] \in {"Filled", "Cancelled"} \/ Rejected(l)
IbOpen(l) == ~IbDone(l)

\* ib_insync spawns a handler task only on a wired Trade of a live session.
Heard(l) == connected /\ l \in wired

\* Held, working, cancelling and Filled leave a dispatched row alone
\* (next_state answers None), so only the other statuses get a task here.
IbMoves(l, status, error) ==
  /\ ibStatus' = [ibStatus EXCEPT ![l] = status]
  /\ hasError' = [hasError EXCEPT ![l] = error]
  /\ statusTasks' = IF Heard(l) /\ (status = "Cancelled" \/ error)
                      THEN statusTasks \cup {l} ELSE statusTasks

IbLeavesRest ==
  UNCHANGED <<sessVars, statusPlan, rowVars, aged, mirror, structVars, completer, planVars,
              cancelVars, faults, history>>

\* One contract executes.  The last one ends the order: Filled or, when a cancel
\* was under way, ib_insync may report the cancel's error as Cancelled on top.
IbExecute(l) ==
  /\ ibStatus[l] \in {"Submitted", "PendingCancel"} /\ executed[l] < Qty[l]
  /\ executed' = [executed EXCEPT ![l] = @ + 1]
  /\ fillTasks' = IF Heard(l) THEN [fillTasks EXCEPT ![l] = @ \cup {executed[l] + 1}]
                              ELSE fillTasks
  /\ \/ /\ executed[l] + 1 < Qty[l]
        /\ UNCHANGED <<ibStatus, hasError, statusTasks>>
     \/ executed[l] + 1 = Qty[l] /\ IbMoves(l, "Filled", FALSE)
     \/ /\ executed[l] + 1 = Qty[l] /\ ibStatus[l] = "PendingCancel"
        /\ IbMoves(l, "Cancelled", TRUE)
  /\ IbLeavesRest

\* IB holds the order (outside RTH, halt, price cap), or lets it go.
IbHold(l) ==
  /\ ibStatus[l] = "Submitted" /\ IbMoves(l, "Inactive", FALSE)
  /\ UNCHANGED <<executed, fillTasks>> /\ IbLeavesRest

IbActivate(l) ==
  /\ ibStatus[l] = "Inactive" /\ ~hasError[l] /\ IbMoves(l, "Submitted", FALSE)
  /\ UNCHANGED <<executed, fillTasks>> /\ IbLeavesRest

\* The order is refused: Inactive, with an error in the trade's log.
IbReject(l) ==
  /\ ibStatus[l] = "Submitted" /\ executed[l] = 0 /\ IbMoves(l, "Inactive", TRUE)
  /\ UNCHANGED <<executed, fillTasks>> /\ IbLeavesRest

\* The engine's DELETE route or the kill switch (cancel_all_open) asks for a cancel.
CancelRequest(l) ==
  /\ connected /\ IbOpen(l) /\ ibStatus[l] # "PendingCancel"
  /\ IbMoves(l, "PendingCancel", FALSE)
  /\ UNCHANGED <<executed, fillTasks>> /\ IbLeavesRest

\* IB cancels the order, asked to or not (a DAY order at the close).
IbCancelled(l) ==
  /\ IbOpen(l) /\ IbMoves(l, "Cancelled", FALSE)
  /\ UNCHANGED <<executed, fillTasks>> /\ IbLeavesRest

-----------------------------------------------------------------------------
(* fills_handler.py *)

\* A leg's lock is free: no status task between its read and its commit, and no
\* fill task inside its cascade.
Lock(l) == completer[l] = "idle" /\ statusPlan[l] = NoStatus

HandlerLeavesRest ==
  UNCHANGED <<ibVars, sessVars, aged, mirror, structVars, planVars, cancelVars, faults, cascadeLost>>

\* _on_order_status under the lock: the row is read and its next state decided.
OnOrderStatus(l) ==
  /\ l \in statusTasks /\ Lock(l)
  /\ statusTasks' = statusTasks \ {l}
  /\ LET to == next_state(state[l], ibStatus[l], hasError[l]) IN
       statusPlan' = IF to = None THEN statusPlan
                     ELSE [statusPlan EXCEPT ![l] = [from |-> state[l], to |-> to]]
  /\ UNCHANGED <<fillTasks, rowVars, completer, clobbered>>
  /\ HandlerLeavesRest

\* Its commit: the unlocked writers may have moved the row since.
CommitStatus(l) ==
  /\ statusPlan[l] # NoStatus
  /\ statusPlan' = [statusPlan EXCEPT ![l] = NoStatus]
  /\ state' = [state EXCEPT ![l] = statusPlan[l].to]
  /\ clobbered' = IF state[l] \in TERMINAL_STATES /\ state[l] # statusPlan[l].from
                    THEN clobbered \cup {l} ELSE clobbered
  /\ UNCHANGED <<statusTasks, fillTasks, fills, qtyFilled, openQty, completer>>
  /\ HandlerLeavesRest

\* _on_execution / persist_fill: idempotent insert, aggregates, state, projection,
\* one commit; then, with the lock still held, the cascade if the leg is full.
OnExecution(l, e) ==
  /\ e \in fillTasks[l] /\ Lock(l)
  /\ fillTasks' = [fillTasks EXCEPT ![l] = @ \ {e}]
  /\ IF ~apply_fill_idempotent(fills[l], e) THEN UNCHANGED <<rowVars, completer>>
     ELSE LET rows == Append(fills[l], e)
              full == FullyFilled(rows, Qty[l]) IN
          /\ fills' = [fills EXCEPT ![l] = rows]
          /\ qtyFilled' = [qtyFilled EXCEPT ![l] = AggregateQty(rows)]
          /\ openQty' = [openQty EXCEPT ![l] = FoldFills(rows)]
          /\ state' = [state EXCEPT ![l] = IF full THEN "filled" ELSE "partially_filled"]
          /\ completer' = IF full THEN [completer EXCEPT ![l] = "read"] ELSE completer
  /\ UNCHANGED <<statusTasks, statusPlan, clobbered>>
  /\ HandlerLeavesRest

\* _on_commission_report: the aggregates are folded again from the fill rows.
OnCommissionReport(l) ==
  /\ fills[l] # <<>> /\ Heard(l) /\ Lock(l)
  /\ qtyFilled' = [qtyFilled EXCEPT ![l] = AggregateQty(fills[l])]
  /\ UNCHANGED <<taskVars, state, fills, openQty, completer, clobbered>>
  /\ HandlerLeavesRest

\* A handler raises before its commit: logged, the event is gone.
HandlerFails(l) ==
  /\ \/ /\ l \in statusTasks
        /\ statusTasks' = statusTasks \ {l} /\ UNCHANGED fillTasks
     \/ /\ \E e \in fillTasks[l] : fillTasks' = [fillTasks EXCEPT ![l] = @ \ {e}]
        /\ UNCHANGED statusTasks
  /\ UNCHANGED <<statusPlan, rowVars, completer, clobbered>>
  /\ HandlerLeavesRest

AllFilled == \A l \in Legs : state[l] = "filled"

CompleterLeavesRest ==
  UNCHANGED <<ibVars, sessVars, taskVars, rowVars, aged, mirror, planVars, cancelVars,
              faults, clobbered>>

\* maybe_complete_structure reads the structure and its orders.
CompleteRead(w) ==
  /\ completer[w] = "read"
  /\ completer' = [completer EXCEPT ![w] =
       IF structState # "fully_filled" /\ AllFilled THEN "write" ELSE "idle"]
  /\ UNCHANGED <<structVars, cascadeLost>>
  /\ CompleterLeavesRest

\* Fault: the cascade inserts without looking for an existing position.
CompleteWriteBlind(w) ==
  /\ completer[w] = "write"
  /\ completer' = [completer EXCEPT ![w] = "idle"]
  /\ structState' = "fully_filled" /\ booked' = booked + 1
  /\ UNCHANGED cascadeLost /\ CompleterLeavesRest

\* Its update locks the structure's row before the count of existing positions
\* is read, so count, insert and commit are one step.
CompleteWrite(w) ==
  /\ completer[w] = "write"
  /\ completer' = [completer EXCEPT ![w] = "idle"]
  /\ structState' = "fully_filled"
  /\ booked' = IF booked = 0 THEN 1 ELSE booked
  /\ UNCHANGED cascadeLost /\ CompleterLeavesRest

\* It raises at a read or at its commit, which rolls back: both callers log it and
\* go on, and nothing calls it again for rows that are filled already.
CompleteFails(w) ==
  /\ completer[w] # "idle"
  /\ completer' = [completer EXCEPT ![w] = "idle"]
  /\ cascadeLost' = (cascadeLost \/ AllFilled)
  /\ UNCHANGED structVars /\ CompleterLeavesRest

-----------------------------------------------------------------------------
(* The loops: age, mirror, reaper, reconciler *)

\* submitted_at falls behind the reaper's cutoff.
AgeOut ==
  /\ ~aged /\ aged' = TRUE
  /\ UNCHANGED <<ibVars, sessVars, taskVars, rowVars, mirror, structVars, completer,
                 planVars, cancelVars, faults, history>>

\* sync_positions_from_ib: IB reports one net position per contract for the whole
\* account, and its row names the most recent structure in a live state that has the
\* contract.  A contract only this structure trades is held from its first execution
\* on; one that others trade may be held, netted to nothing or named after another
\* structure, whatever this one executed.
SyncPositions ==
  /\ connected
  /\ \E others \in SUBSET Shared :
       mirror' = IF structState = "fully_failed" THEN {}
                 ELSE {l \in Legs \ Shared : executed[l] > 0} \cup others
  /\ UNCHANGED <<ibVars, sessVars, taskVars, rowVars, aged, structVars, completer,
                 planVars, cancelVars, faults, history>>

\* live_ib_order_keys: still working, says the session's list of trades.
LiveAtIb(l) == ibStatus[l] \in LIVE_IB_STATUSES /\ executed[l] < Qty[l]

\* reap_stale_orders up to its last read: the legs it decides to expire.
ReapSelect ==
  /\ connected /\ reapPlan = {}
  /\ reapPlan' = {l \in Legs : ~LiveAtIb(l)
                    /\ decide_reap(state[l], aged, l \in mirror) = "expired"}
  /\ UNCHANGED <<ibVars, sessVars, taskVars, rowVars, aged, mirror, structVars, completer,
                 reconPlan, cancelVars, faults, history>>

\* Fault: the structure takes the orders' word for its terminal state.
ReapCommitOrderState ==
  /\ reapPlan # {} /\ reapPlan' = {}
  /\ state' = [l \in Legs |-> IF l \in reapPlan THEN "expired" ELSE state[l]]
  /\ structState' = "expired"
  /\ UNCHANGED <<ibVars, sessVars, taskVars, fills, qtyFilled, openQty, aged, mirror, booked,
                 completer, reconPlan, cancelVars, faults, history>>

\* Its writes: the rows, then the structure from the states as they are now.
ReapCommit ==
  /\ reapPlan # {} /\ reapPlan' = {}
  /\ state' = [l \in Legs |-> IF l \in reapPlan THEN "expired" ELSE state[l]]
  /\ LET to == plan_structure_terminal_state(state') IN
       structState' = IF to = None THEN structState ELSE to
  /\ clobbered' = clobbered \cup {l \in reapPlan : state[l] \in TERMINAL_STATES}
  /\ UNCHANGED <<ibVars, sessVars, taskVars, fills, qtyFilled, openQty, aged, mirror, booked,
                 completer, reconPlan, cancelVars, faults, cascadeLost>>

StuckStates == REAPABLE_STATES

\* Fault: a mirror row of any leg of the structure is taken for a match.
ReconcileLegAnyContract(l) ==
  LET repaired == state_from_recorded_fills(Len(fills[l]), Qty[l], state[l]) IN
  IF state[l] \notin StuckStates THEN NoPlan
  ELSE IF repaired # None
    THEN [to |-> repaired, qty |-> Len(fills[l]), book |-> TRUE]
  ELSE IF mirror # {} THEN [to |-> "filled", qty |-> Qty[l], book |-> FALSE]
  ELSE NoPlan

\* Fault: the mirror pass is dropped, only recorded fills repair a row.
ReconcileLegBookOnly(l) ==
  LET repaired == state_from_recorded_fills(Len(fills[l]), Qty[l], state[l]) IN
  IF state[l] \notin StuckStates \/ repaired = None THEN NoPlan
  ELSE [to |-> repaired, qty |-> Len(fills[l]), book |-> TRUE]

\* What a reconciler pass decides for a leg: its own recorded fills first, then a
\* mirror row of the same contract.
ReconcileLeg(l) ==
  LET repaired == state_from_recorded_fills(Len(fills[l]), Qty[l], state[l]) IN
  IF state[l] \notin StuckStates THEN NoPlan
  ELSE IF repaired # None
    THEN [to |-> repaired, book |-> TRUE,
          qty |-> IF Len(fills[l]) < Qty[l] THEN Len(fills[l]) ELSE Qty[l]]
  ELSE IF l \in mirror THEN [to |-> "filled", qty |-> Qty[l], book |-> FALSE]
  ELSE NoPlan

ReconIdle == completer[Recon] = "idle" /\ reconPlan = [l \in Legs |-> NoPlan]

\* reconcile_stuck_orders up to its last read.
ReconcileSelect ==
  /\ ReconIdle
  /\ reconPlan' = [l \in Legs |-> ReconcileLeg(l)]
  /\ UNCHANGED <<ibVars, sessVars, taskVars, rowVars, aged, mirror, structVars, completer,
                 reapPlan, cancelVars, faults, history>>

\* Fault: the pass ends with its commit, without the cascade.
ReconcileCommitNoCascade ==
  /\ \E l \in Legs : reconPlan[l] # NoPlan
  /\ reconPlan' = [l \in Legs |-> NoPlan]
  /\ state' = [l \in Legs |-> IF reconPlan[l] = NoPlan THEN state[l] ELSE reconPlan[l].to]
  /\ UNCHANGED <<ibVars, sessVars, taskVars, fills, qtyFilled, openQty, aged, mirror, structVars,
                 reapPlan, completer, cancelVars, faults, history>>

\* Its writes, with rebuild_leg for the legs repaired from the book, then the
\* cascade if a leg became filled.
ReconcileCommit ==
  /\ \E l \in Legs : reconPlan[l] # NoPlan
  /\ reconPlan' = [l \in Legs |-> NoPlan]
  /\ LET moved == {l \in Legs : reconPlan[l] # NoPlan} IN
       /\ state' = [l \in Legs |-> IF l \in moved THEN reconPlan[l].to ELSE state[l]]
       /\ qtyFilled' = [l \in Legs |-> IF l \in moved THEN reconPlan[l].qty ELSE qtyFilled[l]]
       /\ openQty' = [l \in Legs |-> IF reconPlan[l].book THEN FoldFills(fills[l]) ELSE openQty[l]]
       /\ completer' = IF \E l \in moved : reconPlan[l].to = "filled"
                         THEN [completer EXCEPT ![Recon] = "read"] ELSE completer
       /\ clobbered' = clobbered \cup
            {l \in moved : state[l] \in TERMINAL_STATES /\ state[l] # reconPlan[l].to}
  /\ UNCHANGED <<ibVars, sessVars, taskVars, fills, aged, mirror, structVars, reapPlan,
                 cancelVars, faults, cascadeLost>>

-----------------------------------------------------------------------------
(* cancel_trade *)

CancelLeavesRest ==
  UNCHANGED <<sessVars, taskVars, fills, qtyFilled, openQty, aged, mirror, booked, completer,
              planVars, faults>>

\* It reads the legs it may cancel and DELETEs each at the engine: the order is
\* asked to cancel or is gone already (404); a call that fails (disconnected,
\* unreachable) leaves its leg out.
CancelSelect ==
  /\ cancelPc = "idle" /\ cancels < MaxCancels
  /\ cancelPc' = "commit" /\ cancels' = cancels + 1
  /\ \E ok \in SUBSET {l \in Legs : connected /\ state[l] \in {"pending"} \cup REAPABLE_STATES} :
       /\ cancelPlan' = ok
       /\ ibStatus' = [l \in Legs |-> IF l \in ok /\ IbOpen(l) THEN "PendingCancel" ELSE ibStatus[l]]
  /\ UNCHANGED <<hasError, executed, state, structState, history>>
  /\ CancelLeavesRest

\* One commit: the rows, then the structure from the states as they are now.
CancelCommit ==
  /\ cancelPc = "commit"
  /\ cancelPc' = "idle" /\ cancelPlan' = {}
  /\ state' = [l \in Legs |-> IF l \in cancelPlan THEN "cancelled" ELSE state[l]]
  /\ LET to == plan_structure_terminal_state(state') IN
       /\ structState' = IF to = None THEN structState ELSE to
       /\ cascadeLost' = (cascadeLost \/ (to = "fully_filled" /\ booked = 0))
  /\ clobbered' = clobbered \cup
       {l \in cancelPlan : state[l] \in TERMINAL_STATES /\ state[l] # "cancelled"}
  /\ UNCHANGED <<ibVars, cancels>>
  /\ CancelLeavesRest

-----------------------------------------------------------------------------
(* Sessions and crashes *)

\* The socket drops: handlers die with the Trade objects, spawned tasks go on.
Disconnect ==
  /\ connected /\ faults < MaxFaults
  /\ faults' = faults + 1 /\ connected' = FALSE /\ wired' = {}
  /\ UNCHANGED <<ibVars, taskVars, rowVars, aged, mirror, structVars, completer, planVars,
                 cancelVars, history>>

\* The engine's process dies with its tasks, passes and completers; the API's
\* cancel_trade is another process.
Crash ==
  /\ faults < MaxFaults
  /\ faults' = faults + 1 /\ connected' = FALSE /\ wired' = {}
  /\ statusTasks' = {} /\ statusPlan' = [l \in Legs |-> NoStatus]
  /\ fillTasks' = [l \in Legs |-> {}]
  /\ completer' = [w \in Completers |-> "idle"]
  /\ reapPlan' = {} /\ reconPlan' = [l \in Legs |-> NoPlan]
  /\ cascadeLost' = (cascadeLost \/ \E w \in Completers : completer[w] # "idle")
  /\ UNCHANGED <<ibVars, rowVars, aged, mirror, structVars, cancelVars, clobbered>>

\* Reconnection and rehydrate_session: handlers back on the open orders whose row
\* is open, and every execution of the session replayed through persist_fill.
Rehydrate ==
  /\ ~connected /\ connected' = TRUE
  /\ wired' = {l \in Legs : IbOpen(l) /\ state[l] \in {"pending"} \cup REAPABLE_STATES}
  /\ fillTasks' = [l \in Legs |-> 1..executed[l]]
  /\ UNCHANGED <<ibVars, statusTasks, statusPlan, rowVars, aged, mirror, structVars, completer, planVars,
                 cancelVars, faults, history>>

-----------------------------------------------------------------------------
IbStep(l) ==
  \/ IbExecute(l) \/ IbHold(l) \/ IbActivate(l) \/ IbReject(l)
  \/ CancelRequest(l) \/ IbCancelled(l)

HandlerStep(l) ==
  OnOrderStatus(l) \/ CommitStatus(l) \/ (\E e \in 1..Qty[l] : OnExecution(l, e))

ReapStep == ReapSelect \/ ReapCommit
ReconcileStep == ReconcileSelect \/ ReconcileCommit
CompleteStep(w) == CompleteRead(w) \/ CompleteWrite(w)

Next ==
  \/ \E l \in Legs : IbStep(l) \/ HandlerStep(l) \/ OnCommissionReport(l) \/ HandlerFails(l)
  \/ \E w \in Completers : CompleteStep(w) \/ CompleteFails(w)
  \/ AgeOut \/ SyncPositions \/ ReapStep \/ ReconcileStep
  \/ CancelSelect \/ CancelCommit
  \/ Disconnect \/ Crash \/ Rehydrate

\* Spawned tasks run, the loops run every interval, time passes and the watchdog
\* reconnects.  Neither IB nor the operator is fair.
Fairness ==
  /\ \A l \in Legs : WF_vars(HandlerStep(l))
  /\ \A w \in Completers : WF_vars(CompleteStep(w))
  /\ WF_vars(AgeOut) /\ WF_vars(SyncPositions) /\ WF_vars(ReapStep) /\ WF_vars(ReconcileStep)
  /\ WF_vars(CancelCommit) /\ WF_vars(Rehydrate)

Spec == Init /\ [][Next]_vars /\ Fairness

-----------------------------------------------------------------------------
(* Properties *)

\* What the readers of the rows see of all this: the ledger of executions.
Ledger == INSTANCE TradeLedger WITH
  recorded <- [l \in Legs |-> RowIds(fills[l])],
  position <- openQty

\* The five writers implement the ledger: whatever status, repair pass, cancel,
\* replay or crash comes in between, what changes in fills, positions and bookings
\* is one new execution entered, or the one booking of a structure whose legs on
\* contracts of their own all traded.
ImplementsLedger == Ledger!Spec

\* I3: whatever is redelivered, replayed, lost or raced, a leg's position is the
\* fold of its fill rows, and each row is one execution IB really made, once.
BookIsFold ==
  \A l \in Legs :
    /\ openQty[l] = Len(fills[l])
    /\ \A i, j \in 1..Len(fills[l]) : fills[l][i] = fills[l][j] => i = j
    /\ RowIds(fills[l]) \subseteq 1..executed[l]

\* Two legs' handlers and the reconciler may all be completing the structure: it
\* is booked once.
BookedOnce == booked <= 1

\* A structure is booked only when every leg on a contract of its own traded at IB,
\* whichever writer declared the legs filled.  (How much traded is the subject of
\* NoPhantomFill; a leg on a shared contract, of NeverInvented.)
BookedBacked == booked > 0 => \A l \in Legs \ Shared : executed[l] > 0

\* "A leg with NO live IB position is left untouched: we never invent a phantom
\* fill", read as a reader of the bookings would, for every leg.  Not so: a position
\* held for another order on the same contract fills and books a leg that never traded.
NeverInvented == booked > 0 => \A l \in Legs : executed[l] > 0

\* A leg whose recorded fills cover its quantity reads `filled`: no late status,
\* replay or cancel error undoes it.  Only a write decided on a stale read can.
FilledRowStays ==
  \A l \in Legs : Len(fills[l]) >= Qty[l] /\ l \notin clobbered => state[l] = "filled"

\* I2: an order IB is done with ends in a terminal state for good, whatever events
\* were lost on the way.
OrderTerminates == \A l \in Legs : IbDone(l) ~> [](state[l] \in TERMINAL_STATES)

\* When every leg is filled the structure ends up booked, unless the one cascade it
\* gets died with the process, raised, or lost to cancel_trade closing the structure.
AllFilledBooked == AllFilled ~> (booked > 0 \/ ~AllFilled \/ cascadeLost)

\* "When every entry leg of a structure is filled, the structure cascade books it",
\* without the exceptions: one failing commit leaves it unbooked for good.
FilledMeansBooked == AllFilled ~> (booked > 0 \/ ~AllFilled)

\* "We never invent a phantom fill": a filled order's quantity was executed.
NoPhantomFill == \A l \in Legs : state[l] = "filled" => qtyFilled[l] <= executed[l]

\* "The structure must leave 'submitted', not sit there forever" once every leg is
\* terminal.
StructureTerminates ==
  (\A l \in Legs : state[l] \in TERMINAL_STATES) ~> (structState # "submitted")
=============================================================================
