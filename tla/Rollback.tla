------------------------------ MODULE Rollback ------------------------------
(***************************************************************************)
(* The rollback of ONE structure (engines/execution/rollback_runner.py,    *)
(* core/execution/rollback.py, engines/execution/placement.py): cancel     *)
(* what still works of the entry orders, send an opposite order for what   *)
(* was filled.  Several POST /structure/rollback calls run concurrently    *)
(* on one event loop; a step is what runs between two awaits.              *)
(*                                                                         *)
(* The unwind rows are a function of the leg because of the constraint     *)
(* uq_structure_orders_structure_leg_role of trade_order: (structure, leg, *)
(* 'unwind') exists at most once.  trade_structure's row lock, held from   *)
(* the UPDATE of rollback_started_at to the commit, is `lock`.             *)
(*                                                                         *)
(* IB and ib_insync are external.  What the handlers, the reaper and the   *)
(* reconciler do to a row is one step each: their races are the subject    *)
(* of module OrderLifecycle.                                               *)
(***************************************************************************)
EXTENDS ExecutionCore

CONSTANTS Legs,        \* legs of the structure
          Qty,         \* trade_order.qty of the entry orders, per leg
          Calls,       \* POST /structure/rollback requests, each served once
          MaxCrashes   \* bound on process crashes

ASSUME LegsAssumption == Legs # {}
ASSUME QtyAssumption == Qty \in [Legs -> Nat \ {0}]
ASSUME CallsAssumption == None \notin Calls
ASSUME MaxCrashesAssumption == MaxCrashes \in Nat

VARIABLES
  priced,       \* legs whose entry has a preview_price or a limit_price
  ibEntry,      \* the entry order at IB: "working" | "filled" | "cancelled" | "rejected"
  executed,     \* contracts IB executed of the entry order
  cancelReq,    \* entry orders IB was asked to cancel
  entryState,   \* trade_order.state of the entry row
  entryFilled,  \* trade_order.qty_filled of the entry row
  entryFills,   \* contracts in the entry's trade_fill rows
  mirrored,     \* history: legs the reconciler filled from the position mirror
  unwind,       \* the unwind row of a leg, or NoRow
  rowClaim,     \* legs whose unwind row has submit_claimed_at
  rowId,        \* legs whose unwind row has ib_order_id
  ibUnwind,     \* the unwind order at IB: "none" | "working" | "filled" | "cancelled"
  reffed,       \* legs whose unwind order carries the row's orderRef
  sent,         \* contracts handed to IB to unwind a leg, in all orders
  unwound,      \* contracts IB executed of them
  seen,         \* legs whose unwind is in ib.trades() of this session
  wired,        \* legs whose unwind Trade carries our handlers in this session
  started,      \* trade_structure.rollback_started_at IS NOT NULL, committed
  lock,         \* the call whose transaction holds trade_structure's row, or None
  pc, plan, cur, \* where a call stands, unwind quantities it has left, its current leg
  up, crashes

entryVars  == <<priced, ibEntry, executed, cancelReq, entryState, entryFilled,
                entryFills, mirrored>>
rowVars    == <<unwind, rowClaim, rowId>>
ibVars     == <<ibUnwind, reffed, sent, unwound>>
structVars == <<started, lock>>
callVars   == <<pc, plan, cur>>
procVars   == <<seen, wired, up, crashes>>
vars == <<entryVars, rowVars, ibVars, structVars, callVars, procVars>>

NoRow == [state |-> None, qty |-> 0, filled |-> 0]
UnwindRows == [state : OrderStates \cup {None}, qty : Nat, filled : Nat]
NoPlan == [cancels |-> {}, unwinds |-> [l \in Legs |-> 0]]
Plans == [cancels : SUBSET Legs, unwinds : [Legs -> Nat]]
CallStates == {"idle", "claim", "insert", "qualify", "place", "stamp", "conflict", "done"}

TypeOK ==
  /\ priced \in SUBSET Legs
  /\ ibEntry \in [Legs -> {"working", "filled", "cancelled", "rejected"}]
  /\ executed \in [Legs -> Nat] /\ cancelReq \in SUBSET Legs
  /\ entryState \in [Legs -> OrderStates] /\ entryFilled \in [Legs -> Nat]
  /\ entryFills \in [Legs -> Nat] /\ mirrored \in SUBSET Legs
  /\ unwind \in [Legs -> UnwindRows]
  /\ rowClaim \in SUBSET Legs /\ rowId \in SUBSET Legs
  /\ ibUnwind \in [Legs -> {"none", "working", "filled", "cancelled"}]
  /\ reffed \in SUBSET Legs
  /\ sent \in [Legs -> Nat] /\ unwound \in [Legs -> Nat]
  /\ started \in BOOLEAN /\ lock \in Calls \cup {None}
  /\ pc \in [Calls -> CallStates]
  /\ plan \in [Calls -> Plans]
  /\ cur \in [Calls -> Legs]
  /\ seen \in SUBSET Legs /\ wired \in SUBSET Legs
  /\ up \in BOOLEAN /\ crashes \in 0..MaxCrashes

\* The entry orders are placed and committed (module LiveSubmit).
Init ==
  /\ priced \in SUBSET Legs
  /\ ibEntry = [l \in Legs |-> "working"]
  /\ executed = [l \in Legs |-> 0] /\ cancelReq = {}
  /\ entryState = [l \in Legs |-> "submitted"]
  /\ entryFilled = [l \in Legs |-> 0] /\ entryFills = [l \in Legs |-> 0] /\ mirrored = {}
  /\ unwind = [l \in Legs |-> NoRow] /\ rowClaim = {} /\ rowId = {}
  /\ ibUnwind = [l \in Legs |-> "none"] /\ reffed = {}
  /\ sent = [l \in Legs |-> 0] /\ unwound = [l \in Legs |-> 0]
  /\ started = FALSE /\ lock = None
  /\ pc = [c \in Calls |-> "idle"]
  /\ plan = [c \in Calls |-> NoPlan]
  /\ cur = [c \in Calls |-> CHOOSE l \in Legs : TRUE]
  /\ seen = {} /\ wired = {} /\ up = TRUE /\ crashes = 0

-----------------------------------------------------------------------------
(* core/execution/rollback.py *)

CANCELLABLE_STATES == {"pending"} \cup REAPABLE_STATES
FAILED_UNWIND_STATES == {"rejected", "cancelled", "expired"}

\* The leg has an unwind row.
HasRow(l) == unwind[l].state # None

\* What an existing unwind row already covers of its leg.
Covered(l) ==
  IF HasRow(l) /\ unwind[l].state \notin FAILED_UNWIND_STATES THEN unwind[l].qty ELSE 0

\* Legs to cancel; per leg the filled quantity that no live unwind covers.
decide_rollback ==
  [cancels |-> {l \in Legs : entryState[l] \in CANCELLABLE_STATES},
   unwinds |-> [l \in Legs |->
     IF entryState[l] \in {"partially_filled", "filled"} /\ entryFilled[l] > Covered(l)
     THEN entryFilled[l] - Covered(l) ELSE 0]]

-----------------------------------------------------------------------------
(* run_rollback *)

Goto(c, step) == pc' = [pc EXCEPT ![c] = step]

\* The legs a call still has to unwind; one without a price is skipped.
ToUnwind(c) == {l \in priced : plan[c].unwinds[l] > 0}

\* load_order_states and decide_rollback: one SELECT, before the claim.
Load(c) ==
  /\ pc[c] = "idle" /\ up
  /\ plan' = [plan EXCEPT ![c] = decide_rollback]
  /\ Goto(c, "claim")
  /\ UNCHANGED <<entryVars, rowVars, ibVars, structVars, cur, procVars>>

\* The UPDATE of rollback_started_at waits for the row.  It matches the first
\* time only, but a re-entry goes on all the same.  The cancels follow at once;
\* a call with nothing to unwind commits and ends.
Claim(c) ==
  /\ pc[c] = "claim" /\ lock = None
  /\ cancelReq' = cancelReq \cup {l \in plan[c].cancels : ibEntry[l] = "working"}
  /\ IF ToUnwind(c) = {}
       THEN started' = TRUE /\ lock' = None /\ Goto(c, "done")
       ELSE /\ lock' = (IF started THEN None ELSE c)
            /\ UNCHANGED started /\ Goto(c, "insert")
  /\ UNCHANGED <<priced, ibEntry, executed, entryState, entryFilled, entryFills, mirrored,
                 rowVars, ibVars, plan, cur, procVars>>

\* The transaction of c ends: committed with the claim it may hold, or undone.
CommitTxn(c) ==
  /\ started' = (started \/ lock = c)
  /\ lock' = IF lock = c THEN None ELSE lock
AbortTxn(c) == lock' = (IF lock = c THEN None ELSE lock) /\ UNCHANGED started

\* Fault: the table has no unique constraint on (structure, leg, role).
InsertUnconstrained(c) ==
  /\ pc[c] = "insert"
  /\ \E l \in ToUnwind(c) :
       /\ unwind' = [unwind EXCEPT ![l] =
                       [state |-> "pending", qty |-> plan[c].unwinds[l], filled |-> 0]]
       /\ rowClaim' = rowClaim \ {l} /\ rowId' = rowId \ {l}
       /\ cur' = [cur EXCEPT ![c] = l]
  /\ CommitTxn(c) /\ Goto(c, "qualify")
  /\ UNCHANGED <<entryVars, ibVars, plan, procVars>>

\* Fault: the row is inserted in a transaction that does not carry the claim.
InsertWithoutClaim(c) ==
  /\ pc[c] = "insert"
  /\ \E l \in ToUnwind(c) :
       /\ ~HasRow(l)
       /\ unwind' = [unwind EXCEPT ![l] =
                       [state |-> "pending", qty |-> plan[c].unwinds[l], filled |-> 0]]
       /\ cur' = [cur EXCEPT ![c] = l]
  /\ AbortTxn(c) /\ Goto(c, "qualify")
  /\ UNCHANGED <<entryVars, rowClaim, rowId, ibVars, plan, procVars>>

\* The unwind row is committed before anything is placed.
InsertUnwind(c) ==
  /\ pc[c] = "insert"
  /\ \E l \in ToUnwind(c) :
       /\ ~HasRow(l)
       /\ unwind' = [unwind EXCEPT ![l] =
                       [state |-> "pending", qty |-> plan[c].unwinds[l], filled |-> 0]]
       /\ cur' = [cur EXCEPT ![c] = l]
  /\ CommitTxn(c) /\ Goto(c, "qualify")
  /\ UNCHANGED <<entryVars, rowClaim, rowId, ibVars, plan, procVars>>

\* The leg already has an unwind row: the INSERT raises IntegrityError and the
\* call dies with it.
InsertConflicts(c) ==
  /\ pc[c] = "insert"
  /\ \E l \in ToUnwind(c) : HasRow(l) /\ cur' = [cur EXCEPT ![c] = l]
  /\ AbortTxn(c) /\ Goto(c, "conflict")
  /\ UNCHANGED <<entryVars, rowVars, ibVars, plan, procVars>>

\* The call goes on with its next leg, or returns.
NextLeg(c) ==
  /\ plan' = [plan EXCEPT ![c].unwinds[cur[c]] = 0]
  /\ Goto(c, IF ToUnwind(c) = {cur[c]} THEN "done" ELSE "insert")

\* qualifyContractsAsync finds no contract: the leg is given up, its row stays.
NotQualified(c) ==
  /\ pc[c] = "qualify" /\ NextLeg(c)
  /\ UNCHANGED <<entryVars, rowVars, ibVars, structVars, cur, procVars>>

\* The contract is qualified and claim_submit takes the row.  AlreadyClaimed needs
\* a second call on the same row, which the constraint above excludes.
ClaimRow(c) ==
  /\ pc[c] = "qualify"
  /\ cur[c] \notin rowClaim /\ cur[c] \notin rowId
  /\ rowClaim' = rowClaim \cup {cur[c]}
  /\ Goto(c, "place")
  /\ UNCHANGED <<entryVars, unwind, rowId, ibVars, structVars, plan, cur, procVars>>

\* Fault: the unwind carries no orderRef.
PlaceWithoutRef(c) ==
  /\ pc[c] = "place"
  /\ sent' = [sent EXCEPT ![cur[c]] = @ + plan[c].unwinds[cur[c]]]
  /\ ibUnwind' = [ibUnwind EXCEPT ![cur[c]] = "working"]
  /\ seen' = seen \cup {cur[c]}
  /\ Goto(c, "stamp")
  /\ UNCHANGED <<entryVars, rowVars, reffed, unwound, structVars, plan, cur, wired, up, crashes>>

\* orderRef and ib.placeOrder.
PlaceUnwind(c) ==
  /\ pc[c] = "place"
  /\ sent' = [sent EXCEPT ![cur[c]] = @ + plan[c].unwinds[cur[c]]]
  /\ ibUnwind' = [ibUnwind EXCEPT ![cur[c]] = "working"]
  /\ reffed' = reffed \cup {cur[c]}
  /\ seen' = seen \cup {cur[c]}
  /\ Goto(c, "stamp")
  /\ UNCHANGED <<entryVars, rowVars, unwound, structVars, plan, cur, wired, up, crashes>>

\* placeOrder raises: the row's claim is released and the call dies.
PlaceRaises(c) ==
  /\ pc[c] = "place"
  /\ rowClaim' = rowClaim \ {cur[c]}
  /\ Goto(c, "done")
  /\ UNCHANGED <<entryVars, unwind, rowId, ibVars, structVars, plan, cur, procVars>>

\* stamp_placement (whatever the row has become meanwhile), then the handlers.
StampUnwind(c) ==
  /\ pc[c] = "stamp"
  /\ rowId' = rowId \cup {cur[c]}
  /\ unwind' = [unwind EXCEPT ![cur[c]].state = "submitted"]
  /\ wired' = wired \cup {cur[c]}
  /\ NextLeg(c)
  /\ UNCHANGED <<entryVars, rowClaim, ibVars, structVars, cur, seen, up, crashes>>

\* The database or IB raises where the call awaits it: its transaction is undone
\* and the call dies; what is at IB goes on working.
CallFails(c) ==
  /\ pc[c] \in {"claim", "insert", "qualify", "stamp"}
  /\ AbortTxn(c) /\ Goto(c, "done")
  /\ UNCHANGED <<entryVars, rowVars, ibVars, plan, cur, procVars>>

-----------------------------------------------------------------------------
(* The entry orders: IB, then the handlers *)

EntryLeavesRest == UNCHANGED <<priced, rowVars, ibVars, structVars, callVars, procVars>>

EntryExecute(l) ==
  /\ ibEntry[l] = "working" /\ executed[l] < Qty[l]
  /\ executed' = [executed EXCEPT ![l] = @ + 1]
  /\ ibEntry' = [ibEntry EXCEPT ![l] = IF executed[l] + 1 = Qty[l] THEN "filled" ELSE @]
  /\ UNCHANGED <<cancelReq, entryState, entryFilled, entryFills, mirrored>> /\ EntryLeavesRest

EntryStops(l) ==
  /\ ibEntry[l] = "working"
  /\ \/ l \in cancelReq /\ ibEntry' = [ibEntry EXCEPT ![l] = "cancelled"]
     \/ ibEntry' = [ibEntry EXCEPT ![l] = "rejected"]
  /\ UNCHANGED <<executed, cancelReq, entryState, entryFilled, entryFills, mirrored>>
  /\ EntryLeavesRest

\* A fill is persisted whatever the row's state; it may come after the status.
OnEntryFill(l) ==
  /\ up /\ entryFills[l] < executed[l]
  /\ entryFills' = [entryFills EXCEPT ![l] = @ + 1]
  /\ entryFilled' = [entryFilled EXCEPT ![l] = entryFills[l] + 1]
  /\ entryState' = [entryState EXCEPT ![l] =
       IF entryFills[l] + 1 >= Qty[l] THEN "filled" ELSE "partially_filled"]
  /\ UNCHANGED <<ibEntry, executed, cancelReq, mirrored>> /\ EntryLeavesRest

OnEntryStatus(l) ==
  /\ up /\ ibEntry[l] \in {"cancelled", "rejected"}
  /\ entryState[l] \notin TERMINAL_STATES
  /\ entryState' = [entryState EXCEPT ![l] = ibEntry[l]]
  /\ UNCHANGED <<ibEntry, executed, cancelReq, entryFilled, entryFills, mirrored>>
  /\ EntryLeavesRest

\* reap_stale_orders, of an entry that no longer works at IB and whose position, if
\* any, the mirror does not show yet.
ReapEntry(l) ==
  /\ up /\ ibEntry[l] # "working" /\ entryState[l] \in REAPABLE_STATES
  /\ entryState' = [entryState EXCEPT ![l] = "expired"]
  /\ UNCHANGED <<ibEntry, executed, cancelReq, entryFilled, entryFills, mirrored>>
  /\ EntryLeavesRest

\* reconcile_stuck_orders, second pass: any position on the leg's side and contract
\* fills the whole row.  The first pass has nothing to say: it would have to find
\* fill rows that the fill handler committed without their state.
MirrorEntry(l) ==
  /\ up /\ entryState[l] \in REAPABLE_STATES /\ executed[l] > 0
  /\ state_from_recorded_fills(entryFills[l], Qty[l], entryState[l]) = None
  /\ entryState' = [entryState EXCEPT ![l] = "filled"]
  /\ entryFilled' = [entryFilled EXCEPT ![l] = Qty[l]]
  /\ mirrored' = mirrored \cup {l}
  /\ UNCHANGED <<ibEntry, executed, cancelReq, entryFills>> /\ EntryLeavesRest

-----------------------------------------------------------------------------
(* The unwind orders: IB, the handlers, the repair loops *)

RowLeavesRest == UNCHANGED <<entryVars, rowClaim, ibVars, structVars, callVars, seen, up, crashes>>

UnwindExecute(l) ==
  /\ ibUnwind[l] = "working" /\ unwound[l] < sent[l]
  /\ unwound' = [unwound EXCEPT ![l] = @ + 1]
  /\ ibUnwind' = [ibUnwind EXCEPT ![l] = IF unwound[l] + 1 = sent[l] THEN "filled" ELSE @]
  /\ UNCHANGED <<entryVars, rowVars, reffed, sent, structVars, callVars, procVars>>

\* Cancelled at IB: by hand, by the kill switch, or at the end of the day.
UnwindCancelled(l) ==
  /\ ibUnwind[l] = "working"
  /\ ibUnwind' = [ibUnwind EXCEPT ![l] = "cancelled"]
  /\ UNCHANGED <<entryVars, rowVars, reffed, sent, unwound, structVars, callVars, procVars>>

\* The row with one more fill.
WithFill(row) ==
  [row EXCEPT !.filled = @ + 1,
              !.state = IF row.filled + 1 >= row.qty THEN "filled" ELSE "partially_filled"]

OnUnwindFill(l) ==
  /\ up /\ l \in wired /\ unwind[l].filled < unwound[l]
  /\ unwind' = [unwind EXCEPT ![l] = WithFill(@)]
  /\ UNCHANGED <<rowId, wired>> /\ RowLeavesRest

OnUnwindStatus(l) ==
  /\ up /\ l \in wired /\ ibUnwind[l] = "cancelled"
  /\ unwind[l].state \notin TERMINAL_STATES
  /\ unwind' = [unwind EXCEPT ![l].state = "cancelled"]
  /\ UNCHANGED <<rowId, wired>> /\ RowLeavesRest

\* Fault: the row gets a state of the structure, which ck_structure_orders_state lacks.
ReapWithStructureState(l) ==
  /\ up /\ l \in rowId /\ ibUnwind[l] # "working"
  /\ unwind[l].state \in REAPABLE_STATES
  /\ unwind' = [unwind EXCEPT ![l].state = "closed"]
  /\ UNCHANGED <<rowId, wired>> /\ RowLeavesRest

\* reap_stale_orders: a stamped order that no longer works at IB.  Its age is left
\* out: any such order may be past REAPER_TAU_STALE_S.
ReapUnwind(l) ==
  /\ up /\ l \in rowId /\ ibUnwind[l] # "working"
  /\ unwind[l].state \in REAPABLE_STATES
  /\ unwind' = [unwind EXCEPT ![l].state = "expired"]
  /\ UNCHANGED <<rowId, wired>> /\ RowLeavesRest

\* reconcile_stuck_orders, first pass: the state the recorded fills call for.
RepairUnwind(l) ==
  LET repaired == state_from_recorded_fills(unwind[l].filled, unwind[l].qty, unwind[l].state) IN
  /\ up /\ unwind[l].state \in REAPABLE_STATES /\ repaired # None
  /\ unwind' = [unwind EXCEPT ![l].state = repaired]
  /\ UNCHANGED <<rowId, wired>> /\ RowLeavesRest

\* _adopt_orphaned_orders: a row without an id whose orderRef the session's
\* trades carry.
AdoptUnwind(l) ==
  /\ up /\ l \in (seen \cap reffed) \ rowId
  /\ rowId' = rowId \cup {l}
  /\ unwind' = [unwind EXCEPT ![l].state = IF @ = "pending" THEN "submitted" ELSE @]
  /\ UNCHANGED wired /\ RowLeavesRest

-----------------------------------------------------------------------------
(* Crash and rehydration *)

Crash ==
  /\ up /\ crashes < MaxCrashes
  /\ up' = FALSE /\ crashes' = crashes + 1 /\ seen' = {} /\ wired' = {}
  /\ lock' = None
  /\ pc' = [c \in Calls |-> IF pc[c] \in {"idle", "conflict"} THEN pc[c] ELSE "done"]
  /\ UNCHANGED <<entryVars, rowVars, ibVars, started, plan, cur>>

\* Restart, or a 1101: open orders get handlers and their row its id; executions
\* are replayed onto the row their orderRef names.
Rehydrate ==
  LET matched == {l \in reffed : /\ ibUnwind[l] = "working"
                                 /\ unwind[l].state \notin TERMINAL_STATES}
      replayed == {l \in reffed : unwind[l].filled < unwound[l]} IN
  /\ up' = TRUE
  /\ seen' = seen \cup {l \in Legs : ibUnwind[l] = "working"}
  /\ rowId' = rowId \cup matched
  /\ wired' = wired \cup matched
  /\ unwind' = [l \in Legs |->
       IF l \in replayed
       THEN [unwind[l] EXCEPT
               !.filled = unwound[l],
               !.state = IF unwound[l] >= unwind[l].qty THEN "filled" ELSE "partially_filled"]
       ELSE IF l \in matched /\ unwind[l].state = "pending"
       THEN [unwind[l] EXCEPT !.state = "submitted"] ELSE unwind[l]]
  /\ UNCHANGED <<entryVars, rowClaim, ibVars, structVars, callVars, crashes>>

-----------------------------------------------------------------------------
CallStep(c) ==
  \/ Load(c) \/ Claim(c) \/ InsertUnwind(c) \/ InsertConflicts(c)
  \/ NotQualified(c) \/ ClaimRow(c) \/ PlaceUnwind(c) \/ PlaceRaises(c)
  \/ StampUnwind(c) \/ CallFails(c)

LegStep(l) ==
  \/ EntryExecute(l) \/ EntryStops(l) \/ OnEntryFill(l) \/ OnEntryStatus(l)
  \/ ReapEntry(l) \/ MirrorEntry(l)
  \/ UnwindExecute(l) \/ UnwindCancelled(l) \/ OnUnwindFill(l) \/ OnUnwindStatus(l)
  \/ ReapUnwind(l) \/ RepairUnwind(l) \/ AdoptUnwind(l)

Next ==
  \/ \E c \in Calls : CallStep(c)
  \/ \E l \in Legs : LegStep(l)
  \/ Crash \/ Rehydrate

\* The supervisor restarts a dead process and its startup pass rehydrates; the
\* reaper's sweep runs every REAPER_INTERVAL_S.
Fairness ==
  /\ WF_vars(~up /\ Rehydrate)
  /\ \A l \in Legs : WF_vars(AdoptUnwind(l))

Spec == Init /\ [][Next]_vars /\ Fairness

-----------------------------------------------------------------------------
(* The instance TLC checks: two contracts on each leg. *)
TwoEach == [l \in Legs |-> 2]

-----------------------------------------------------------------------------
(* Properties *)

\* What a rollback may take a leg for: what IB executed of it; once the reconciler
\* has filled the row from the position mirror, up to the whole order.
Backing(l) == IF l \in mirrored THEN Qty[l] ELSE executed[l]

\* EXEC-3: whatever rollbacks race, fail, are retried or die with the process, and
\* whatever becomes of the unwind orders, a leg is not unwound beyond what IB
\* executed of it: no net inverse position.  The one exception is a row filled from
\* the mirror, and even it is unwound for its quantity at most.
NoInversePosition == \A l \in Legs : sent[l] <= Backing(l) /\ unwound[l] <= sent[l]

\* An unwind reaches IB only after rollback_started_at is durable: the audit
\* trail of a rollback is never behind its orders, also across a crash.
StartedBeforePlaced == (\E l \in Legs : sent[l] > 0) => started

\* EX-11: the row of an unwind that works at IB eventually carries its IB id, by
\* the stamp, the adoption sweep or the rehydration, or it stops working first.
UnwindKnown ==
  \A l \in Legs : (ibUnwind[l] = "working") ~> (l \in rowId \/ ibUnwind[l] # "working")

\* rollback.py: "Unwind orders in these states cover nothing - their qty must be
\* re-unwound": no rollback dies on the constraint over the row of a failed unwind
\* of which nothing was executed.
FailedUnwindIsRetried ==
  [][\A c \in Calls : pc[c] # "conflict" /\ pc'[c] = "conflict"
       => LET l == cur'[c] IN
          ~(unwind[l].state \in FAILED_UNWIND_STATES /\ unwound[l] = 0)]_vars
=============================================================================
