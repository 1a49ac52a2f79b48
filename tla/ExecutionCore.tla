---------------------------- MODULE ExecutionCore ----------------------------
(***************************************************************************)
(* The pure decisions of the execution engine (core/execution): the order  *)
(* state machine, fill aggregation, the leg projection and the reaper's    *)
(* policy.  An execution is one contract, a leg's fill rows are a sequence *)
(* of execution ids, and every quantity is a length; prices, commissions   *)
(* and slippage are left out.                                              *)
(***************************************************************************)
EXTENDS Naturals, Sequences, FiniteSets

TERMINAL_STATES == {"filled", "cancelled", "rejected", "expired"}

\* `acknowledged` belongs to the schema, but no code writes it.
REAPABLE_STATES == {"submitted", "acknowledged", "partially_filled"}

OrderStates == {"pending"} \cup REAPABLE_STATES \cup TERMINAL_STATES

\* "The row is left alone": None of the Python functions below.
None == "none"

\* What ib_insync's orderStatus.status can say.
IbStatuses == {"PendingSubmit", "ApiPending", "PreSubmitted", "Submitted",
               "PendingCancel", "Filled", "Cancelled", "ApiCancelled", "Inactive"}

\* IB status -> the state it means, before terminal guards and Inactive semantics.
IB_STATUS_TO_STATE ==
  [s \in IbStatuses |->
     CASE s = "Filled" -> "filled"
       [] s \in {"Cancelled", "ApiCancelled"} -> "cancelled"
       [] s = "Inactive" -> "inactive"
       [] OTHER -> "submitted"]

\* Fault: next_state without its terminal guard.
next_state_unguarded(current, ibStatus, hasErrorReason) ==
  LET target == IB_STATUS_TO_STATE[ibStatus] IN
  CASE target = "inactive" /\ hasErrorReason -> "rejected"
    [] target = "submitted" /\ current = "pending" -> "submitted"
    [] target = "cancelled" -> IF hasErrorReason THEN "rejected" ELSE "cancelled"
    [] OTHER -> None

\* The state a row moves to on an IB status, or None.  A terminal row never
\* moves; Filled is confirmed by executions only; Inactive is a reject when the
\* trade log carries an error and a hold otherwise.
next_state(current, ibStatus, hasErrorReason) ==
  LET target == IB_STATUS_TO_STATE[ibStatus] IN
  CASE current \in TERMINAL_STATES -> None
    [] current \notin TERMINAL_STATES /\ target = "inactive" /\ hasErrorReason -> "rejected"
    [] current = "pending" /\ target = "submitted" -> "submitted"
    [] current \notin TERMINAL_STATES /\ target = "cancelled"
         -> IF hasErrorReason THEN "rejected" ELSE "cancelled"
    [] OTHER -> None

-----------------------------------------------------------------------------
(* Fills *)

RowIds(rows) == {rows[i] : i \in 1..Len(rows)}

\* Fault: every delivery of an execution is taken for a new one.
apply_fill_always(rows, execId) == TRUE

\* TRUE when the execution has no row yet.
apply_fill_idempotent(rows, execId) == execId \notin RowIds(rows)

\* update_order_aggregates: the quantity and the fully_filled flag.
AggregateQty(rows) == Len(rows)
FullyFilled(rows, targetQty) == Len(rows) >= targetQty

\* fold_fills: the open quantity of a BUY leg.
FoldFills(rows) == Len(rows)

\* The state a stuck row is repaired to from its own recorded fills, or None.
state_from_recorded_fills(recorded, targetQty, current) ==
  CASE recorded = 0 -> None
    [] recorded >= targetQty /\ current # "filled" -> "filled"
    [] 0 < recorded /\ recorded < targetQty /\ current = "submitted" -> "partially_filled"
    [] OTHER -> None

-----------------------------------------------------------------------------
(* The reaper's policy *)

\* The statuses live_ib_order_keys takes for "still working".
LIVE_IB_STATUSES == {"Submitted", "PreSubmitted", "PendingSubmit", "ApiPending"}

\* The terminal state a stale order is driven to, or None.
decide_reap(current, aged, heldAtIb) ==
  IF current \notin REAPABLE_STATES \/ ~aged THEN None
  ELSE IF heldAtIb THEN "filled" ELSE "expired"

\* Terminal trade_structure state from its orders' states (a function from legs
\* to states), or None while one is in flight.
plan_structure_terminal_state(states) ==
  LET legs == DOMAIN states
      filled == {l \in legs : states[l] = "filled"} IN
  IF legs = {} \/ \E l \in legs : states[l] \notin TERMINAL_STATES THEN None
  ELSE IF filled = legs THEN "fully_filled"
  ELSE IF filled = {} THEN "fully_failed" ELSE "partial_fail"
=============================================================================
