------------------------ MODULE OrderLifecycleProofs ------------------------
(***************************************************************************)
(* For any set of legs, any quantities and any number of crashes,          *)
(* disconnects and cancel_trade calls: the types of OrderLifecycle, that   *)
(* the book is the fold of real executions, that only stale writes take a  *)
(* full leg out of `filled`, and that a structure is booked at most once   *)
(* and, of its legs on contracts it alone trades, only when they traded.   *)
(* Each part has an inductive strengthening of its own: BookInv adds that  *)
(* an unpersisted execution was made, BackedInv that every place that      *)
(* believes such a leg filled (mirror, row, reconciler pass, completer)    *)
(* is backed by a trade.                                                   *)
(***************************************************************************)
EXTENDS OrderLifecycle, TLAPS

-----------------------------------------------------------------------------
\* next_state moves open rows only, and never to `filled`.
LEMMA NextStateOpen ==
  ASSUME NEW s \in OrderStates, NEW ib \in IbStatuses, NEW err \in BOOLEAN,
         next_state(s, ib, err) # None
  PROVE  /\ s \in OrderStates \ TERMINAL_STATES
         /\ next_state(s, ib, err) \in {"submitted", "rejected", "cancelled"}
<1>1. s \notin TERMINAL_STATES
  BY DEF next_state, TERMINAL_STATES
<1>2. QED
  BY <1>1 DEF next_state

\* A task taken out of a task set.
LEMMA TaskTaken ==
  ASSUME NEW S, NEW f \in [Legs -> SUBSET S], NEW l \in Legs, NEW e
  PROVE  [f EXCEPT ![l] = f[l] \ {e}] \in [Legs -> SUBSET S]
OBVIOUS

\* Every step keeps the types.
LEMMA TypeStep == TypeOK /\ [Next]_vars => TypeOK'
<1> SUFFICES ASSUME TypeOK, [Next]_vars PROVE TypeOK'
  OBVIOUS
<1> USE QtyAssumption, BoundsAssumption
    DEF TypeOK, ibVars, sessVars, taskVars, rowVars, structVars, planVars, cancelVars, history
<1>1. ASSUME NEW l \in Legs, IbStep(l) PROVE TypeOK'
  <2>1. CASE IbExecute(l)
    <3>1. executed' \in [Legs -> Nat] /\ \A m \in Legs : executed'[m] <= Qty[m]
      BY <2>1 DEF IbExecute
    <3>2. fillTasks' \in [Legs -> SUBSET (Nat \ {0})]
      BY <2>1 DEF IbExecute
    <3>3. /\ ibStatus' \in [Legs -> IbStatuses] /\ hasError' \in [Legs -> BOOLEAN]
          /\ statusTasks' \subseteq Legs
      BY <2>1 DEF IbExecute, IbMoves, IbStatuses
    <3>4. QED
      BY <2>1, <3>1, <3>2, <3>3 DEF IbExecute, IbLeavesRest
  <2>2. CASE IbHold(l)
    BY <1>1, <2>2 DEF IbHold, IbMoves, IbLeavesRest, IbStatuses
  <2>3. CASE IbActivate(l)
    BY <1>1, <2>3 DEF IbActivate, IbMoves, IbLeavesRest, IbStatuses
  <2>4. CASE IbReject(l)
    BY <1>1, <2>4 DEF IbReject, IbMoves, IbLeavesRest, IbStatuses
  <2>5. CASE CancelRequest(l)
    BY <1>1, <2>5 DEF CancelRequest, IbMoves, IbLeavesRest, IbStatuses
  <2>6. CASE IbCancelled(l)
    BY <1>1, <2>6 DEF IbCancelled, IbMoves, IbLeavesRest, IbStatuses
  <2>7. QED
    BY <1>1, <2>1, <2>2, <2>3, <2>4, <2>5, <2>6 DEF IbStep
<1>2. ASSUME NEW l \in Legs, OnOrderStatus(l) \/ CommitStatus(l) PROVE TypeOK'
  <2>1. CASE OnOrderStatus(l)
    <3>1. ASSUME next_state(state[l], ibStatus[l], hasError[l]) # None
          PROVE  /\ state[l] \in OrderStates \ TERMINAL_STATES
                 /\ next_state(state[l], ibStatus[l], hasError[l])
                      \in {"submitted", "rejected", "cancelled"}
      BY <3>1, NextStateOpen
    <3>2. statusPlan' \in [Legs -> StatusPlans]
      BY <2>1, <3>1 DEF OnOrderStatus, StatusPlans
    <3>3. QED
      BY <2>1, <3>2 DEF OnOrderStatus, HandlerLeavesRest
  <2>2. CASE CommitStatus(l)
    <3>1. state' \in [Legs -> OrderStates]
      BY <2>2 DEF CommitStatus, StatusPlans, NoStatus, OrderStates, REAPABLE_STATES, TERMINAL_STATES
    <3>2. statusPlan' \in [Legs -> StatusPlans] /\ clobbered' \subseteq Legs
      BY <2>2 DEF CommitStatus, StatusPlans
    <3>3. QED
      BY <2>2, <3>1, <3>2 DEF CommitStatus, HandlerLeavesRest
  <2>3. QED
    BY <1>2, <2>1, <2>2
<1>3. ASSUME NEW l \in Legs, NEW e \in 1..Qty[l], OnExecution(l, e) PROVE TypeOK'
  <2> DEFINE rows == Append(fills[l], e)
  <2>1. rows \in Seq(Nat) /\ Len(rows) \in Nat
    OBVIOUS
  <2>2. fillTasks' \in [Legs -> SUBSET (Nat \ {0})]
    BY <1>3 DEF OnExecution
  <2>3. CASE ~apply_fill_idempotent(fills[l], e)
    BY <1>3, <2>2, <2>3 DEF OnExecution, HandlerLeavesRest
  <2>4. CASE apply_fill_idempotent(fills[l], e)
    <3>1. /\ fills' = [fills EXCEPT ![l] = rows]
          /\ qtyFilled' = [qtyFilled EXCEPT ![l] = Len(rows)]
          /\ openQty' = [openQty EXCEPT ![l] = Len(rows)]
      BY <1>3, <2>4 DEF OnExecution, AggregateQty, FoldFills
    <3>2. state' \in [Legs -> OrderStates]
      BY <1>3, <2>4 DEF OnExecution, OrderStates, REAPABLE_STATES, TERMINAL_STATES
    <3>3. completer' \in [Completers -> {"idle", "read", "write"}]
      BY <1>3, <2>4 DEF OnExecution, Completers
    <3>4. QED
      BY <1>3, <2>1, <2>2, <3>1, <3>2, <3>3 DEF OnExecution, HandlerLeavesRest
  <2>5. QED
    BY <2>3, <2>4
<1>4. ASSUME NEW l \in Legs, OnCommissionReport(l) PROVE TypeOK'
  BY <1>4 DEF OnCommissionReport, HandlerLeavesRest, AggregateQty
<1>5. ASSUME NEW l \in Legs, HandlerFails(l) PROVE TypeOK'
  <2>1. statusTasks' \subseteq Legs
    BY <1>5 DEF HandlerFails
  <2>2. fillTasks' \in [Legs -> SUBSET (Nat \ {0})]
    <3>1. CASE fillTasks' = fillTasks
      BY <3>1
    <3>2. CASE \E e \in fillTasks[l] : fillTasks' = [fillTasks EXCEPT ![l] = fillTasks[l] \ {e}]
      <4>1. fillTasks \in [Legs -> SUBSET (Nat \ {0})]
        OBVIOUS
      <4> HIDE DEF TypeOK
      <4>2. QED
        BY <3>2, <4>1, TaskTaken
    <3>3. QED
      BY <1>5, <3>1, <3>2 DEF HandlerFails
  <2>3. QED
    BY <1>5, <2>1, <2>2 DEF HandlerFails, HandlerLeavesRest
<1>6. ASSUME NEW w \in Completers, CompleteStep(w) \/ CompleteFails(w) PROVE TypeOK'
  <2>1. CASE CompleteRead(w)
    BY <2>1 DEF CompleteRead, CompleterLeavesRest
  <2>2. CASE CompleteWrite(w)
    BY <2>2 DEF CompleteWrite, CompleterLeavesRest
  <2>3. CASE CompleteFails(w)
    <3>1. cascadeLost' \in BOOLEAN
      BY <2>3, Zenon DEF CompleteFails
    <3>2. QED
      BY <2>3, <3>1 DEF CompleteFails, CompleterLeavesRest
  <2>4. QED
    BY <1>6, <2>1, <2>2, <2>3 DEF CompleteStep
<1>7. CASE AgeOut
  BY <1>7 DEF AgeOut
<1>8. CASE SyncPositions
  <2>1. mirror' \subseteq Legs
    BY <1>8, SharedAssumption DEF SyncPositions
  <2>2. QED
    BY <1>8, <2>1 DEF SyncPositions
<1>9. CASE ReapSelect
  BY <1>9 DEF ReapSelect
<1>10. CASE ReapCommit
  BY <1>10 DEF ReapCommit, plan_structure_terminal_state, None, OrderStates, REAPABLE_STATES, TERMINAL_STATES
<1>11. CASE ReconcileSelect
  BY <1>11 DEF ReconcileSelect, ReconcileLeg, state_from_recorded_fills, None, NoPlan, Plans
<1>12. CASE ReconcileCommit
  <2>1. \A l \in Legs : reconPlan[l] # NoPlan => reconPlan[l].to \in OrderStates
    BY DEF Plans, OrderStates, REAPABLE_STATES, TERMINAL_STATES
  <2>2. \A l \in Legs : reconPlan[l].qty \in Nat
    BY DEF Plans, NoPlan
  <2>3. qtyFilled' \in [Legs -> Nat] /\ openQty' \in [Legs -> Nat]
    BY <1>12, <2>2 DEF ReconcileCommit, FoldFills
  <2>4. state' \in [Legs -> OrderStates]
    BY <1>12, <2>1 DEF ReconcileCommit
  <2>5. completer' \in [Completers -> {"idle", "read", "write"}]
    BY <1>12 DEF ReconcileCommit, Completers
  <2>6. reconPlan' \in [Legs -> Plans] /\ clobbered' \subseteq Legs
    BY <1>12 DEF ReconcileCommit, NoPlan, Plans, None
  <2>7. QED
    BY <1>12, <2>3, <2>4, <2>5, <2>6 DEF ReconcileCommit
<1>13. CASE CancelSelect
  BY <1>13 DEF CancelSelect, CancelLeavesRest, IbStatuses
<1>14. CASE CancelCommit
  BY <1>14 DEF CancelCommit, CancelLeavesRest, plan_structure_terminal_state, None, OrderStates,
     REAPABLE_STATES, TERMINAL_STATES
<1>15. CASE Disconnect
  <2>1. faults' \in 0..MaxFaults
    BY <1>15 DEF Disconnect
  <2>2. QED
    BY <1>15, <2>1 DEF Disconnect
<1>16. CASE Crash
  <2>1. faults' \in 0..MaxFaults
    BY <1>16 DEF Crash
  <2>2. reconPlan' \in [Legs -> Plans]
    BY <1>16 DEF Crash, NoPlan, Plans, None
  <2>3. cascadeLost' \in BOOLEAN
    BY <1>16, Zenon DEF Crash
  <2>4. statusPlan' \in [Legs -> StatusPlans]
    BY <1>16 DEF Crash, StatusPlans
  <2>5. QED
    BY <1>16, <2>1, <2>2, <2>3, <2>4 DEF Crash
<1>17. CASE Rehydrate
  BY <1>17 DEF Rehydrate
<1>18. CASE UNCHANGED vars
  BY <1>18 DEF vars
<1>19. QED
  BY <1>1, <1>2, <1>3, <1>4, <1>5, <1>6, <1>7, <1>8, <1>9, <1>10, <1>11, <1>12, <1>13, <1>14, <1>15,
     <1>16, <1>17, <1>18
  DEF Next, HandlerStep, ReapStep, ReconcileStep

-----------------------------------------------------------------------------
\* The book: what is still to be persisted was executed, and BookIsFold.
BookInv ==
  /\ \A l \in Legs : fillTasks[l] \subseteq 1..executed[l]
  /\ BookIsFold

\* The variables BookInv is about.
bookVars == <<executed, fillTasks, fills, openQty>>

\* BookInv only reads bookVars.
LEMMA BookUnchanged == ASSUME BookInv, UNCHANGED bookVars PROVE BookInv'
BY DEF BookInv, BookIsFold, bookVars, RowIds

\* Executions enter the book once, whether delivered live or replayed, and leave it never.
LEMMA BookStep == TypeOK /\ BookInv /\ [Next]_vars => BookInv'
<1> SUFFICES ASSUME TypeOK, BookInv, [Next]_vars PROVE BookInv'
  OBVIOUS
<1> USE DEF ibVars, sessVars, taskVars, rowVars, structVars, planVars, cancelVars, history
<1>1. ASSUME NEW l \in Legs, IbExecute(l) PROVE BookInv'
  <2>1. UNCHANGED <<fills, openQty>>
    BY <1>1 DEF IbExecute, IbLeavesRest
  <2>2. \A m \in Legs : executed'[m] \in Nat /\ executed[m] \in Nat /\ executed[m] <= executed'[m]
    BY <1>1 DEF IbExecute, TypeOK
  <2>3. \A m \in Legs : fillTasks'[m] \subseteq 1..executed'[m]
    BY <1>1 DEF IbExecute, TypeOK, BookInv
  <2>4. \A m \in Legs : 1..executed[m] \subseteq 1..executed'[m]
    BY <2>2
  <2>5. \A m \in Legs : RowIds(fills[m]) \subseteq 1..executed'[m]
    BY <2>4 DEF BookInv, BookIsFold
  <2>6. QED
    BY <2>1, <2>3, <2>5 DEF BookInv, BookIsFold, RowIds
<1>2. ASSUME NEW l \in Legs,
             IbHold(l) \/ IbActivate(l) \/ IbReject(l) \/ CancelRequest(l) \/ IbCancelled(l)
      PROVE BookInv'
  <2>1. UNCHANGED bookVars
    BY <1>2 DEF IbHold, IbActivate, IbReject, CancelRequest, IbCancelled, IbLeavesRest, bookVars
  <2>2. QED
    BY <2>1, BookUnchanged
<1>3. ASSUME NEW l \in Legs, NEW e \in 1..Qty[l], OnExecution(l, e) PROVE BookInv'
  <2> DEFINE rows == Append(fills[l], e)
  <2>1. /\ UNCHANGED executed
        /\ fillTasks' = [fillTasks EXCEPT ![l] = @ \ {e}]
    BY <1>3 DEF OnExecution, HandlerLeavesRest
  <2>2. \A m \in Legs : fillTasks'[m] \subseteq 1..executed'[m]
    BY <2>1 DEF TypeOK, BookInv
  <2>3. CASE ~apply_fill_idempotent(fills[l], e)
    BY <1>3, <2>1, <2>2, <2>3 DEF OnExecution, BookInv, BookIsFold, RowIds
  <2>4. CASE apply_fill_idempotent(fills[l], e)
    <3>1. fills' = [fills EXCEPT ![l] = rows] /\ openQty' = [openQty EXCEPT ![l] = Len(rows)]
      BY <1>3, <2>4 DEF OnExecution, FoldFills
    <3>2. fills[l] \in Seq(Nat) /\ e \in Nat /\ e \in 1..executed[l]
      BY <1>3, QtyAssumption DEF OnExecution, TypeOK, BookInv
    <3>3. /\ Len(rows) = Len(fills[l]) + 1
          /\ \A i \in 1..Len(fills[l]) : rows[i] = fills[l][i]
          /\ rows[Len(rows)] = e
      BY <3>2
    <3>4. \A i \in 1..Len(fills[l]) : fills[l][i] # e
      BY <2>4 DEF apply_fill_idempotent, RowIds
    <3>5. \A i, j \in 1..Len(rows) : rows[i] = rows[j] => i = j
      <4>1. \A i, j \in 1..Len(fills[l]) : fills[l][i] = fills[l][j] => i = j
        BY DEF BookInv, BookIsFold
      <4>2. \A i \in 1..Len(rows) : i \in 1..Len(fills[l]) \/ i = Len(rows)
        BY <3>2, <3>3
      <4> HIDE DEF rows
      <4>3. QED
        BY <3>3, <3>4, <4>1, <4>2
    <3>6. \A i \in 1..Len(rows) : rows[i] \in 1..executed[l]
      <4>1. \A i \in 1..Len(fills[l]) : fills[l][i] \in 1..executed[l]
        BY DEF BookInv, BookIsFold, RowIds
      <4>2. QED
        BY <3>2, <3>3, <4>1
    <3>7. BookIsFold'
      <4>1. fills'[l] = rows /\ openQty'[l] = Len(rows)
        BY <3>1 DEF TypeOK
      <4>2. \A m \in Legs : m # l => fills'[m] = fills[m] /\ openQty'[m] = openQty[m]
        BY <3>1 DEF TypeOK
      <4> HIDE DEF rows
      <4>3. QED
        BY <2>1, <3>5, <3>6, <4>1, <4>2 DEF BookInv, BookIsFold, RowIds
    <3>8. QED
      BY <2>2, <3>7 DEF BookInv
  <2>5. QED
    BY <2>3, <2>4
<1>4. ASSUME NEW l \in Legs, HandlerFails(l) PROVE BookInv'
  <2>1. \A m \in Legs : fillTasks'[m] \subseteq fillTasks[m]
    BY <1>4 DEF HandlerFails, TypeOK
  <2>2. UNCHANGED <<executed, fills, openQty>>
    BY <1>4 DEF HandlerFails, HandlerLeavesRest
  <2>3. QED
    BY <2>1, <2>2 DEF BookInv, BookIsFold, RowIds
<1>5. CASE ReconcileCommit
  <2>1. UNCHANGED <<executed, fillTasks, fills>>
    BY <1>5 DEF ReconcileCommit
  <2>2. \A l \in Legs : openQty'[l] = Len(fills[l])
    BY <1>5 DEF ReconcileCommit, FoldFills, BookInv, BookIsFold
  <2>3. QED
    BY <2>1, <2>2 DEF BookInv, BookIsFold, RowIds
<1>6. CASE Crash
  <2>1. UNCHANGED <<executed, fills, openQty>> /\ \A l \in Legs : fillTasks'[l] = {}
    BY <1>6 DEF Crash
  <2>2. QED
    BY <2>1 DEF BookInv, BookIsFold, RowIds
<1>7. CASE Rehydrate
  BY <1>7 DEF Rehydrate, BookInv, BookIsFold, RowIds
<1>8. ASSUME NEW l \in Legs, OnOrderStatus(l) \/ CommitStatus(l) \/ OnCommissionReport(l)
      PROVE BookInv'
  <2>1. UNCHANGED bookVars
    BY <1>8 DEF OnOrderStatus, CommitStatus, OnCommissionReport, HandlerLeavesRest, bookVars
  <2>2. QED
    BY <2>1, BookUnchanged
<1>9. ASSUME NEW w \in Completers, CompleteStep(w) \/ CompleteFails(w) PROVE BookInv'
  <2>1. UNCHANGED bookVars
    BY <1>9 DEF CompleteStep, CompleteRead, CompleteWrite, CompleteFails, CompleterLeavesRest, bookVars
  <2>2. QED
    BY <2>1, BookUnchanged
<1>10. CASE \/ AgeOut \/ SyncPositions \/ ReapStep \/ ReconcileSelect \/ CancelSelect \/ CancelCommit
            \/ Disconnect \/ UNCHANGED vars
  <2>1. UNCHANGED bookVars
    BY <1>10 DEF AgeOut, SyncPositions, ReapStep, ReapSelect, ReapCommit, ReconcileSelect, CancelSelect,
       CancelCommit, CancelLeavesRest, Disconnect, vars, bookVars
  <2>2. QED
    BY <2>1, BookUnchanged
<1>11. QED
  BY <1>1, <1>2, <1>3, <1>4, <1>5, <1>6, <1>7, <1>8, <1>9, <1>10
  DEF Next, IbStep, HandlerStep, ReconcileStep

-----------------------------------------------------------------------------
\* A leg never loses `filled` but to a write decided on a stale read, which leaves
\* its trace in clobbered.
LEMMA FilledStep == TypeOK /\ FilledRowStays /\ [Next]_vars => FilledRowStays'
<1> SUFFICES ASSUME TypeOK, FilledRowStays, [Next]_vars, NEW m \in Legs,
                    Len(fills'[m]) >= Qty[m], m \notin clobbered'
             PROVE  state'[m] = "filled"
  BY DEF FilledRowStays
<1> USE DEF ibVars, sessVars, taskVars, rowVars, structVars, planVars, cancelVars, history
<1>1. ASSUME UNCHANGED <<state, fills, clobbered>> PROVE state'[m] = "filled"
  BY <1>1 DEF FilledRowStays
<1>2. ASSUME NEW l \in Legs, CommitStatus(l) PROVE state'[m] = "filled"
  <2>1. state[m] = "filled"
    BY <1>2 DEF CommitStatus, FilledRowStays
  <2>2. statusPlan[l].from # "filled"
    BY <1>2 DEF CommitStatus, TypeOK, StatusPlans, NoStatus, TERMINAL_STATES
  <2>3. m # l
    BY <1>2, <2>1, <2>2 DEF CommitStatus, TERMINAL_STATES
  <2>4. QED
    BY <1>2, <2>1, <2>3 DEF CommitStatus, TypeOK
<1>3. ASSUME NEW l \in Legs, NEW e \in 1..Qty[l], OnExecution(l, e) PROVE state'[m] = "filled"
  <2>1. m \notin clobbered
    BY <1>3 DEF OnExecution, HandlerLeavesRest
  <2>2. CASE ~apply_fill_idempotent(fills[l], e) \/ m # l
    BY <1>3, <2>1, <2>2 DEF OnExecution, FilledRowStays, TypeOK
  <2>3. CASE apply_fill_idempotent(fills[l], e) /\ m = l
    <3>1. fills'[m] = Append(fills[l], e)
      BY <1>3, <2>3 DEF OnExecution, TypeOK
    <3>2. FullyFilled(Append(fills[l], e), Qty[l])
      BY <2>3, <3>1 DEF FullyFilled
    <3>3. QED
      BY <1>3, <2>3, <3>2 DEF OnExecution, TypeOK
  <2>4. QED
    BY <2>2, <2>3
<1>4. CASE ReapCommit
  BY <1>4 DEF ReapCommit, FilledRowStays, TERMINAL_STATES
<1>5. CASE ReconcileCommit
  <2>1. state[m] = "filled"
    BY <1>5 DEF ReconcileCommit, FilledRowStays
  <2>2. CASE reconPlan[m] = NoPlan
    BY <1>5, <2>1, <2>2 DEF ReconcileCommit
  <2>3. CASE reconPlan[m] # NoPlan
    BY <1>5, <2>1, <2>3 DEF ReconcileCommit, TERMINAL_STATES
  <2>4. QED
    BY <2>2, <2>3
<1>6. CASE CancelCommit
  BY <1>6 DEF CancelCommit, CancelLeavesRest, FilledRowStays, TERMINAL_STATES
<1>7. ASSUME NEW l \in Legs,
             IbStep(l) \/ OnOrderStatus(l) \/ OnCommissionReport(l) \/ HandlerFails(l)
      PROVE state'[m] = "filled"
  BY <1>1, <1>7 DEF IbStep, IbExecute, IbHold, IbActivate, IbReject, CancelRequest, IbCancelled,
     IbLeavesRest, OnOrderStatus, OnCommissionReport, HandlerFails, HandlerLeavesRest
<1>8. ASSUME NEW w \in Completers, CompleteStep(w) \/ CompleteFails(w) PROVE state'[m] = "filled"
  BY <1>1, <1>8 DEF CompleteStep, CompleteRead, CompleteWrite, CompleteFails, CompleterLeavesRest
<1>9. CASE \/ AgeOut \/ SyncPositions \/ ReapSelect \/ ReconcileSelect \/ CancelSelect
           \/ Disconnect \/ Crash \/ Rehydrate \/ UNCHANGED vars
  BY <1>1, <1>9 DEF AgeOut, SyncPositions, ReapSelect, ReconcileSelect, CancelSelect,
     CancelLeavesRest, Disconnect, Crash, Rehydrate, vars
<1>10. QED
  BY <1>2, <1>3, <1>4, <1>5, <1>6, <1>7, <1>8, <1>9 DEF Next, HandlerStep, ReapStep, ReconcileStep

-----------------------------------------------------------------------------
Backed(l) == l \in Legs \ Shared => executed[l] > 0

\* Every belief that a leg on a contract of its own is filled is backed by a trade:
\* the mirror, the rows, a running reconciler pass, a completer about to book.
BackedInv ==
  /\ \A l \in mirror : Backed(l)
  /\ \A l \in Legs : state[l] = "filled" => Backed(l)
  /\ \A l \in Legs : reconPlan[l].to = "filled" => Backed(l)
  /\ \A w \in Completers : completer[w] = "write" => \A l \in Legs : Backed(l)
  /\ BookedBacked
  /\ BookedOnce

\* A leg with a fill row was traded.
LEMMA FillsAreTrades ==
  ASSUME TypeOK, BookInv, NEW l \in Legs, Len(fills[l]) > 0 PROVE Backed(l)
<1>1. fills[l] \in Seq(Nat) /\ Len(fills[l]) \in Nat /\ executed[l] \in Nat
  BY DEF TypeOK
<1>2. fills[l][1] \in 1..executed[l]
  BY <1>1 DEF BookInv, BookIsFold, RowIds
<1>3. QED
  BY <1>1, <1>2 DEF Backed

\* No step of any writer believes a leg filled that did not trade.
LEMMA BackedStep == TypeOK /\ BookInv /\ BackedInv /\ [Next]_vars => BackedInv'
<1> SUFFICES ASSUME TypeOK, BookInv, BackedInv, [Next]_vars PROVE BackedInv'
  OBVIOUS
<1> USE DEF ibVars, sessVars, taskVars, rowVars, structVars, planVars, cancelVars, history
<1>1. ASSUME UNCHANGED <<mirror, state, reconPlan, completer, booked>>,
             \A l \in Legs : Backed(l) => Backed(l)'
      PROVE  BackedInv'
  BY <1>1 DEF BackedInv, BookedBacked, BookedOnce, TypeOK, Backed
<1>2. ASSUME NEW l \in Legs, IbExecute(l) PROVE BackedInv'
  <2>1. \A m \in Legs : Backed(m) => Backed(m)'
    BY <1>2 DEF IbExecute, Backed, TypeOK
  <2>2. QED
    BY <1>1, <1>2, <2>1 DEF IbExecute, IbLeavesRest
<1>3. ASSUME NEW l \in Legs,
             \/ IbHold(l) \/ IbActivate(l) \/ IbReject(l) \/ CancelRequest(l) \/ IbCancelled(l)
             \/ OnOrderStatus(l) \/ OnCommissionReport(l) \/ HandlerFails(l)
      PROVE  BackedInv'
  BY <1>1, <1>3 DEF IbHold, IbActivate, IbReject, CancelRequest, IbCancelled, IbLeavesRest,
     OnOrderStatus, OnCommissionReport, HandlerFails, HandlerLeavesRest, Backed
<1>4. ASSUME NEW l \in Legs, CommitStatus(l) PROVE BackedInv'
  <2>1. statusPlan[l].to # "filled"
    BY <1>4 DEF CommitStatus, TypeOK, StatusPlans
  <2>2. \A m \in Legs : state'[m] = "filled" => state[m] = "filled"
    BY <1>4, <2>1 DEF CommitStatus, TypeOK
  <2>3. QED
    BY <1>4, <2>2 DEF CommitStatus, HandlerLeavesRest, BackedInv, BookedBacked, BookedOnce, Backed
<1>5. ASSUME NEW l \in Legs, NEW e \in 1..Qty[l], OnExecution(l, e) PROVE BackedInv'
  <2>1. UNCHANGED <<executed, mirror, reconPlan, booked>>
    BY <1>5 DEF OnExecution, HandlerLeavesRest
  <2>2. Backed(l)
    BY <1>5, QtyAssumption DEF OnExecution, BookInv, Backed, TypeOK
  <2>3. \A m \in Legs : state'[m] = "filled" => Backed(m)
    BY <1>5, <2>2 DEF OnExecution, BackedInv, TypeOK
  <2>4. \A w \in Completers : completer'[w] = "write" => completer[w] = "write"
    BY <1>5 DEF OnExecution, TypeOK
  <2>5. QED
    BY <2>1, <2>3, <2>4 DEF BackedInv, BookedBacked, BookedOnce, Backed
<1>6. ASSUME NEW w \in Completers, CompleteRead(w) PROVE BackedInv'
  BY <1>6 DEF CompleteRead, AllFilled, CompleterLeavesRest, BackedInv, BookedBacked, BookedOnce,
     Backed, TypeOK
<1>7. ASSUME NEW w \in Completers, CompleteWrite(w) PROVE BackedInv'
  BY <1>7 DEF CompleteWrite, CompleterLeavesRest, BackedInv, BookedBacked, BookedOnce, Backed, TypeOK
<1>16. ASSUME NEW w \in Completers, CompleteFails(w) PROVE BackedInv'
  BY <1>16 DEF CompleteFails, CompleterLeavesRest, BackedInv, BookedBacked, BookedOnce, Backed, TypeOK
<1>8. CASE SyncPositions
  BY <1>8 DEF SyncPositions, BackedInv, BookedBacked, BookedOnce, Backed
<1>9. CASE ReapCommit
  BY <1>9 DEF ReapCommit, BackedInv, BookedBacked, BookedOnce, Backed
<1>10. CASE ReconcileSelect
  <2>1. \A l \in Legs : ReconcileLeg(l).to = "filled" => Backed(l)
    <3> SUFFICES ASSUME NEW l \in Legs, ReconcileLeg(l).to = "filled" PROVE Backed(l)
      OBVIOUS
    <3> DEFINE repaired == state_from_recorded_fills(Len(fills[l]), Qty[l], state[l])
    <3>1. CASE l \in mirror
      BY <3>1 DEF BackedInv
    <3>2. CASE l \notin mirror
      <4>1. repaired = "filled"
        BY <3>2 DEF ReconcileLeg, NoPlan, None
      <4>2. Len(fills[l]) > 0
        BY <4>1, QtyAssumption DEF state_from_recorded_fills, None, TypeOK
      <4>3. QED
        BY <4>2, FillsAreTrades
    <3>3. QED
      BY <3>1, <3>2
  <2>2. QED
    BY <1>10, <2>1 DEF ReconcileSelect, BackedInv, BookedBacked, BookedOnce, Backed
<1>11. CASE ReconcileCommit
  <2>1. UNCHANGED <<executed, mirror, booked>>
    BY <1>11 DEF ReconcileCommit
  <2>2. \A l \in Legs : state'[l] = "filled" => Backed(l)
    BY <1>11 DEF ReconcileCommit, BackedInv
  <2>3. \A l \in Legs : reconPlan'[l].to # "filled"
    BY <1>11 DEF ReconcileCommit, NoPlan, None
  <2>4. \A w \in Completers : completer'[w] = "write" => completer[w] = "write"
    BY <1>11 DEF ReconcileCommit, TypeOK
  <2>5. QED
    BY <2>1, <2>2, <2>3, <2>4 DEF BackedInv, BookedBacked, BookedOnce, Backed
<1>12. CASE CancelCommit
  BY <1>12 DEF CancelCommit, CancelLeavesRest, BackedInv, BookedBacked, BookedOnce, Backed
<1>13. CASE Crash
  BY <1>13 DEF Crash, NoPlan, None, BackedInv, BookedBacked, BookedOnce, Backed
<1>14. CASE \/ AgeOut \/ ReapSelect \/ CancelSelect \/ Disconnect \/ Rehydrate \/ UNCHANGED vars
  BY <1>1, <1>14 DEF AgeOut, ReapSelect, CancelSelect, CancelLeavesRest, Disconnect, Rehydrate, vars, Backed
<1>15. QED
  BY <1>2, <1>3, <1>4, <1>5, <1>6, <1>7, <1>8, <1>9, <1>10, <1>11, <1>12, <1>13, <1>14, <1>16
  DEF Next, IbStep, HandlerStep, CompleteStep, ReapStep, ReconcileStep

-----------------------------------------------------------------------------
Inv == TypeOK /\ BookInv /\ FilledRowStays /\ BackedInv

\* The initial states satisfy Inv.
LEMMA InitInv == Init => Inv
<1> SUFFICES ASSUME Init PROVE Inv
  OBVIOUS
<1> USE QtyAssumption, BoundsAssumption DEF Init
<1>1. TypeOK
  <2>1. ibStatus \in [Legs -> IbStatuses] /\ state \in [Legs -> OrderStates]
    BY DEF IbStatuses, OrderStates, REAPABLE_STATES
  <2>2. /\ executed \in [Legs -> Nat] /\ \A l \in Legs : executed[l] <= Qty[l]
        /\ qtyFilled \in [Legs -> Nat] /\ openQty \in [Legs -> Nat] /\ booked \in Nat
        /\ faults \in 0..MaxFaults /\ cancels \in 0..MaxCancels
    OBVIOUS
  <2>3. fills \in [Legs -> Seq(Nat)] /\ fillTasks \in [Legs -> SUBSET (Nat \ {0})]
    OBVIOUS
  <2>4. reconPlan \in [Legs -> Plans] /\ statusPlan \in [Legs -> StatusPlans]
    BY DEF Plans, StatusPlans
  <2>5. QED
    BY <2>1, <2>2, <2>3, <2>4 DEF TypeOK
<1>2. BookInv
  BY DEF BookInv, BookIsFold, RowIds
<1>3. FilledRowStays
  BY DEF FilledRowStays
<1>4. BackedInv
  BY DEF BackedInv, BookedBacked, BookedOnce, NoPlan, None
<1>5. QED
  BY <1>1, <1>2, <1>3, <1>4 DEF Inv

\* Inv is an inductive invariant of the order lifecycle.
THEOREM InvHolds == Spec => []Inv
<1>1. Inv /\ [Next]_vars => Inv'
  BY TypeStep, BookStep, FilledStep, BackedStep DEF Inv
<1>2. QED
  BY InitInv, <1>1, PTL DEF Spec

\* Type correctness of the five writers of the order rows.
THEOREM TypeCorrect == Spec => []TypeOK
<1>1. Inv => TypeOK
  BY DEF Inv
<1>2. QED
  BY InvHolds, <1>1, PTL

\* I3 of persistence.projection, for every redelivery, replay, loss and race: a
\* leg's position is the fold of its fill rows, each one a distinct real execution.
THEOREM BookIsFoldHolds == Spec => []BookIsFold
<1>1. Inv => BookIsFold
  BY DEF Inv, BookInv
<1>2. QED
  BY InvHolds, <1>1, PTL

\* No status, replay or redelivery takes a leg whose fills cover its quantity out of
\* `filled`; only a write decided on a stale read of the row does.
THEOREM FilledRowStaysHolds == Spec => []FilledRowStays
<1>1. Inv => FilledRowStays
  BY DEF Inv
<1>2. QED
  BY InvHolds, <1>1, PTL

\* maybe_complete_structure books a structure once, whatever callers race.
THEOREM BookedOnceHolds == Spec => []BookedOnce
<1>1. Inv => BookedOnce
  BY DEF Inv, BackedInv
<1>2. QED
  BY InvHolds, <1>1, PTL

\* maybe_complete_structure books a structure only when every leg on a contract of its
\* own traded at IB.
THEOREM BookedBackedHolds == Spec => []BookedBacked
<1>1. Inv => BookedBacked
  BY DEF Inv, BackedInv
<1>2. QED
  BY InvHolds, <1>1, PTL

-----------------------------------------------------------------------------
(* Refinement: the five writers implement TradeLedger. *)

\* The ledger's view of the state: nothing else of it can show.
recordedView == [l \in Legs |-> RowIds(fills[l])]
ledgerView == <<executed, recordedView, openQty, booked>>

\* One appended row is one recorded id.
LEMMA AppendRecords ==
  ASSUME NEW rows \in Seq(Nat), NEW e \in Nat
  PROVE  RowIds(Append(rows, e)) = RowIds(rows) \cup {e}
<1> DEFINE longer == Append(rows, e)
<1>1. /\ Len(rows) \in Nat /\ Len(longer) = Len(rows) + 1
      /\ \A i \in 1..Len(rows) : longer[i] = rows[i]
      /\ longer[Len(rows) + 1] = e
  OBVIOUS
<1> HIDE DEF longer
<1>2. 1..(Len(rows) + 1) = (1..Len(rows)) \cup {Len(rows) + 1}
  BY <1>1
<1>3. RowIds(longer) = RowIds(rows) \cup {e}
  BY <1>1, <1>2 DEF RowIds
<1>4. QED
  BY <1>3 DEF longer

\* A step that leaves executions, rows, positions and bookings alone is a stutter of
\* the ledger.
LEMMA LedgerUnchanged ==
  ASSUME UNCHANGED <<executed, fills, openQty, booked>>
  PROVE  UNCHANGED ledgerView
BY DEF ledgerView, recordedView

\* The initial states map to the empty ledger.
LEMMA LedgerInitially == Init => Ledger!LedgerInit
BY DEF Init, Ledger!LedgerInit, RowIds

\* Every step of IB, the handlers, the loops, cancel_trade and the faults is a step of
\* the ledger or leaves it unchanged.
LEMMA LedgerStep == Inv /\ [Next]_vars => [Ledger!LedgerNext]_ledgerView
<1> SUFFICES ASSUME TypeOK, BookInv, BackedInv, [Next]_vars
             PROVE  Ledger!LedgerNext \/ UNCHANGED ledgerView
  BY DEF Inv
<1> USE DEF ibVars, sessVars, taskVars, rowVars, structVars, planVars, cancelVars, history
<1>1. ASSUME NEW l \in Legs, IbExecute(l) PROVE Ledger!LedgerNext
  <2>1. Ledger!Execute(l)
    BY <1>1 DEF IbExecute, IbLeavesRest, Ledger!Execute
  <2>2. QED
    BY <2>1 DEF Ledger!LedgerNext
<1>2. ASSUME NEW l \in Legs,
             IbHold(l) \/ IbActivate(l) \/ IbReject(l) \/ CancelRequest(l) \/ IbCancelled(l)
      PROVE  UNCHANGED ledgerView
  BY <1>2, LedgerUnchanged DEF IbHold, IbActivate, IbReject, CancelRequest, IbCancelled, IbLeavesRest
<1>3. ASSUME NEW l \in Legs, NEW e \in 1..Qty[l], OnExecution(l, e)
      PROVE  Ledger!LedgerNext \/ UNCHANGED ledgerView
  <2>1. CASE ~apply_fill_idempotent(fills[l], e)
    BY <1>3, <2>1, LedgerUnchanged DEF OnExecution, HandlerLeavesRest
  <2>2. CASE apply_fill_idempotent(fills[l], e)
    <3>1. e \in 1..executed[l] /\ e \in Nat /\ fills[l] \in Seq(Nat)
      BY <1>3, QtyAssumption DEF OnExecution, BookInv, TypeOK
    <3>2. e \notin RowIds(fills[l])
      BY <2>2 DEF apply_fill_idempotent
    <3>3. /\ fills' = [fills EXCEPT ![l] = Append(fills[l], e)]
          /\ openQty' = [openQty EXCEPT ![l] = Len(Append(fills[l], e))]
          /\ UNCHANGED <<executed, booked>>
      BY <1>3, <2>2 DEF OnExecution, HandlerLeavesRest, FoldFills
    <3>4. openQty[l] = Len(fills[l])
      BY DEF BookInv, BookIsFold
    <3>5. Len(Append(fills[l], e)) = openQty[l] + 1
      BY <3>1, <3>4
    <3>6. RowIds(Append(fills[l], e)) = RowIds(fills[l]) \cup {e}
      BY <3>1, AppendRecords
    <3>7. fills \in [Legs -> Seq(Nat)]
      BY DEF TypeOK
    <3>8. recordedView' = [recordedView EXCEPT ![l] = @ \cup {e}]
      BY <3>3, <3>6, <3>7 DEF recordedView
    <3>9. Ledger!Record(l, e)
      BY <3>1, <3>2, <3>3, <3>5, <3>8 DEF Ledger!Record, recordedView
    <3>10. QED
      BY <3>9 DEF Ledger!LedgerNext
  <2>3. QED
    BY <2>1, <2>2
<1>4. ASSUME NEW l \in Legs,
             OnOrderStatus(l) \/ CommitStatus(l) \/ OnCommissionReport(l) \/ HandlerFails(l)
      PROVE  UNCHANGED ledgerView
  BY <1>4, LedgerUnchanged DEF OnOrderStatus, CommitStatus, OnCommissionReport, HandlerFails,
     HandlerLeavesRest
<1>5. ASSUME NEW w \in Completers, CompleteRead(w) \/ CompleteFails(w) PROVE UNCHANGED ledgerView
  BY <1>5, LedgerUnchanged DEF CompleteRead, CompleteFails, CompleterLeavesRest
<1>6. ASSUME NEW w \in Completers, CompleteWrite(w)
      PROVE  Ledger!LedgerNext \/ UNCHANGED ledgerView
  <2>1. UNCHANGED <<executed, fills, openQty>>
    BY <1>6 DEF CompleteWrite, CompleterLeavesRest
  <2>2. CASE booked = 0
    <3>1. \A l \in Legs \ Shared : executed[l] > 0
      BY <1>6 DEF CompleteWrite, BackedInv, Backed
    <3>2. booked' = 1
      BY <1>6, <2>2 DEF CompleteWrite
    <3>3. Ledger!Book
      BY <2>1, <2>2, <3>1, <3>2 DEF Ledger!Book
    <3>4. QED
      BY <3>3 DEF Ledger!LedgerNext
  <2>3. CASE booked # 0
    BY <1>6, <2>1, <2>3, LedgerUnchanged DEF CompleteWrite
  <2>4. QED
    BY <2>2, <2>3
<1>7. CASE ReconcileCommit
  <2>1. \A l \in Legs : openQty[l] = Len(fills[l])
    BY DEF BookInv, BookIsFold
  <2>2. openQty' = openQty
    BY <1>7, <2>1 DEF ReconcileCommit, FoldFills, TypeOK
  <2>3. QED
    BY <1>7, <2>2, LedgerUnchanged DEF ReconcileCommit
<1>8. CASE \/ AgeOut \/ SyncPositions \/ ReapStep \/ ReconcileSelect \/ CancelSelect \/ CancelCommit
           \/ Disconnect \/ Crash \/ Rehydrate \/ UNCHANGED vars
  BY <1>8, LedgerUnchanged DEF AgeOut, SyncPositions, ReapStep, ReapSelect, ReapCommit, ReconcileSelect,
     CancelSelect, CancelCommit, CancelLeavesRest, Disconnect, Crash, Rehydrate, vars
<1>9. QED
  BY <1>1, <1>2, <1>3, <1>4, <1>5, <1>6, <1>7, <1>8
  DEF Next, IbStep, HandlerStep, CompleteStep, ReconcileStep

\* What maybe_complete_structure, persist_fill and the repair loops promise the readers
\* of the tables, for any legs, quantities, faults and cancels: they implement the ledger.
THEOREM ImplementsLedgerHolds == Spec => ImplementsLedger
<1>1. Spec => Ledger!LedgerInit
  BY LedgerInitially DEF Spec
<1>2. Inv /\ [Next]_vars => [Ledger!LedgerNext]_ledgerView
  BY LedgerStep
<1>3. QED
  BY <1>1, <1>2, InvHolds, PTL DEF Spec, ImplementsLedger, Ledger!Spec, ledgerView, recordedView
=============================================================================
