----------------------------- MODULE LiveSubmit -----------------------------
(***************************************************************************)
(* Live submission of ONE structure (engines/execution/live_submit.py):    *)
(* the durable claim, the two phases of the per-leg path, the single-BAG   *)
(* combo path, a process crash between any two of their awaits, and the    *)
(* two paths that re-attach an IB order whose row missed its commit: the   *)
(* rehydration of a new session (ib_session.py) and the reaper's orderRef  *)
(* sweep (reaper.py).                                                      *)
(*                                                                         *)
(* Several POST /structure/submit calls (retries, double clicks) run       *)
(* concurrently on one event loop, so a step of this module is what runs   *)
(* between two awaits.  An IB order is named by the leg its orderRef       *)
(* carries ("fxvol:<structure>:<order>"): the leg itself on the per-leg    *)
(* path, the first leg on the combo path.  Each leg is one contract here;  *)
(* partial fills, the reaper's expiry and the structure cascade are the    *)
(* subject of module OrderLifecycle.                                       *)
(***************************************************************************)
EXTENDS Naturals, FiniteSets

CONSTANTS NLegs,       \* entry legs of the structure, leg_idx 1..NLegs
          Calls,       \* POST /structure/submit requests, each served once
          ComboModes,  \* deployments considered: values of EXECUTION_USE_COMBO
          MaxCrashes   \* bound on process crashes

ASSUME NLegsAssumption == NLegs \in Nat \ {0}
ASSUME ComboModesAssumption == ComboModes \in SUBSET BOOLEAN
ASSUME MaxCrashesAssumption == MaxCrashes \in Nat

Legs == 1..NLegs
NoLeg == 0

VARIABLES
  useCombo,     \* EXECUTION_USE_COMBO of this deployment; fixed at startup
  structState,  \* trade_structure.state
  claimed,      \* trade_structure.submit_claimed_at IS NOT NULL
  rowState,     \* trade_order.state, per leg
  ibOrderId,    \* trade_order.ib_order_id IS NOT NULL, per leg
  submittedAt,  \* trade_order.submitted_at IS NOT NULL, per leg
  pc,           \* where each submit call stands
  orders,       \* each call's `orders` / `prepared`: selected legs not yet placed
  cur,          \* the leg a call has placed and not yet committed
  placed,       \* number of orders ever sent to IB for a leg
  ref,          \* the leg named by the orderRef a leg's IB order carries
  open,         \* IB orders still working, by the leg of their orderRef
  executed,     \* IB orders that executed
  seen,         \* IB orders in ib.trades() of the current session
  wired,        \* IB orders with fill / status handlers in the current session
  phase,        \* "up" | "starting" (connected, no pass yet) | "down"
  crashes

rowVars  == <<rowState, ibOrderId, submittedAt>>
callVars == <<pc, orders, cur>>
ibVars   == <<placed, ref, open, executed>>
sessVars == <<seen, wired, phase, crashes>>
vars == <<useCombo, structState, claimed, rowVars, callVars, ibVars, sessVars>>

RowStates == {"pending", "submitted", "filled", "cancelled"}
\* ib_session._OPEN_ORDER_STATES, restricted to the states of this module
OpenRowStates == {"pending", "submitted"}
\* The steps of submit_structure_live that run while the call owns the claim
Owning == {"select", "prepare", "place", "commit", "commit_combo"}
PcStates == {"idle", "claim", "done"} \cup Owning

TypeOK ==
  /\ useCombo \in BOOLEAN
  /\ structState \in {"submitted", "partial_fail"}
  /\ claimed \in BOOLEAN
  /\ rowState \in [Legs -> RowStates]
  /\ ibOrderId \in [Legs -> BOOLEAN]
  /\ submittedAt \in [Legs -> BOOLEAN]
  /\ pc \in [Calls -> PcStates]
  /\ orders \in [Calls -> SUBSET Legs]
  /\ cur \in [Calls -> Legs \cup {NoLeg}]
  /\ placed \in [Legs -> Nat]
  /\ ref \in [Legs -> Legs \cup {NoLeg}]
  /\ open \in SUBSET Legs /\ executed \in SUBSET Legs
  /\ seen \in SUBSET Legs /\ wired \in SUBSET Legs
  /\ phase \in {"up", "starting", "down"}
  /\ crashes \in 0..MaxCrashes

\* api.routers.trade.submit_preview has persisted the structure and its rows.
Init ==
  /\ useCombo \in ComboModes
  /\ structState = "submitted" /\ claimed = FALSE
  /\ rowState = [l \in Legs |-> "pending"]
  /\ ibOrderId = [l \in Legs |-> FALSE]
  /\ submittedAt = [l \in Legs |-> FALSE]
  /\ pc = [c \in Calls |-> "idle"]
  /\ orders = [c \in Calls |-> {}]
  /\ cur = [c \in Calls |-> NoLeg]
  /\ placed = [l \in Legs |-> 0]
  /\ ref = [l \in Legs |-> NoLeg]
  /\ open = {} /\ executed = {}
  /\ seen = {} /\ wired = {} /\ phase = "up" /\ crashes = 0

-----------------------------------------------------------------------------
(* submit_structure_live *)

Goto(c, step) == pc' = [pc EXCEPT ![c] = step]

\* The call ends (a return or a raise): its session and its locals are gone.
Finish(c) ==
  /\ Goto(c, "done")
  /\ orders' = [orders EXCEPT ![c] = {}]
  /\ cur' = [cur EXCEPT ![c] = NoLeg]

\* Route gate, connection check, then the read of the structure's state.
Start(c) ==
  /\ pc[c] = "idle" /\ phase = "up"
  /\ Goto(c, IF structState = "submitted" THEN "claim" ELSE "done")
  /\ UNCHANGED <<structState, claimed, rowVars, orders, cur, ibVars, sessVars>>

\* Fault: the UPDATE loses its WHERE clause, every call believes it owns the claim.
ClaimUnguarded(c) ==
  /\ pc[c] = "claim"
  /\ claimed' = TRUE
  /\ Goto(c, "select")
  /\ UNCHANGED <<structState, rowVars, orders, cur, ibVars, sessVars>>

\* UPDATE ... WHERE submit_claimed_at IS NULL, committed; the loser gets 409.
Claim(c) ==
  /\ pc[c] = "claim"
  /\ claimed' = TRUE
  /\ Goto(c, IF claimed THEN "done" ELSE "select")
  /\ UNCHANGED <<structState, rowVars, orders, cur, ibVars, sessVars>>

PendingLegs == {l \in Legs : rowState[l] = "pending" /\ ~ibOrderId[l]}

\* The pending-leg filter; with nothing left to place the call is a no-op
\* success and keeps the claim.
Select(c) ==
  /\ pc[c] = "select"
  /\ orders' = [orders EXCEPT ![c] = PendingLegs]
  /\ Goto(c, IF PendingLegs = {} THEN "done" ELSE "prepare")
  /\ UNCHANGED <<structState, claimed, rowVars, cur, ibVars, sessVars>>

\* Phase 1: every leg qualified, allow-listed and inside the price collar.
Prepare(c) ==
  /\ pc[c] = "prepare"
  /\ Goto(c, "place")
  /\ UNCHANGED <<structState, claimed, rowVars, orders, cur, ibVars, sessVars>>

\* A leg fails phase 1: _release_submit_claim, then the error.
PrepareFails(c) ==
  /\ pc[c] = "prepare"
  /\ claimed' = FALSE
  /\ Finish(c)
  /\ UNCHANGED <<structState, rowVars, ibVars, sessVars>>

\* Whether the call's legs (combo-eligible options) go out as one BAG order.
ComboPath(c) == useCombo /\ Cardinality(orders[c]) >= 2

\* Phase 2, before the commit: placeOrder hands one leg to IB.
PlaceLeg(c) ==
  /\ pc[c] = "place" /\ ~ComboPath(c)
  /\ \E l \in orders[c] :
       /\ \A m \in orders[c] : l <= m
       /\ placed' = [placed EXCEPT ![l] = @ + 1]
       /\ ref' = [ref EXCEPT ![l] = l]
       /\ open' = open \cup {l} /\ seen' = seen \cup {l}
       /\ orders' = [orders EXCEPT ![c] = @ \ {l}]
       /\ cur' = [cur EXCEPT ![c] = l]
  /\ Goto(c, "commit")
  /\ UNCHANGED <<structState, claimed, rowVars, executed, wired, phase, crashes>>

\* placeOrder raises on the per-leg path: the structure becomes partial_fail,
\* the claim stays.
PlaceLegFails(c) ==
  /\ pc[c] = "place" /\ ~ComboPath(c)
  /\ structState' = "partial_fail"
  /\ Finish(c)
  /\ UNCHANGED <<claimed, rowVars, ibVars, sessVars>>

\* The per-leg commit; handlers are attached only once it has returned.
CommitLeg(c) ==
  /\ pc[c] = "commit"
  /\ rowState' = [rowState EXCEPT ![cur[c]] = "submitted"]
  /\ ibOrderId' = [ibOrderId EXCEPT ![cur[c]] = TRUE]
  /\ submittedAt' = [submittedAt EXCEPT ![cur[c]] = TRUE]
  /\ wired' = wired \cup {cur[c]}
  /\ cur' = [cur EXCEPT ![c] = NoLeg]
  /\ Goto(c, IF orders[c] = {} THEN "done" ELSE "place")
  /\ UNCHANGED <<structState, claimed, orders, ibVars, seen, phase, crashes>>

\* Fault: the phase-2 error path releases the claim, as the phase-1 one does.
CommitLegFailsReleasing(c) ==
  /\ pc[c] = "commit"
  /\ structState' \in {structState, "partial_fail"}
  /\ claimed' = FALSE
  /\ Finish(c)
  /\ UNCHANGED <<rowVars, ibVars, sessVars>>

\* Fault: a state the schema does not know.
CommitLegFailsBadState(c) ==
  /\ pc[c] = "commit"
  /\ structState' = "failed"
  /\ Finish(c)
  /\ UNCHANGED <<claimed, rowVars, ibVars, sessVars>>

\* The commit fails (database error) with the order already live at IB.  The
\* partial_fail update that follows may fail for the same reason.
CommitLegFails(c) ==
  /\ pc[c] = "commit"
  /\ structState' \in {structState, "partial_fail"}
  /\ Finish(c)
  /\ UNCHANGED <<claimed, rowVars, ibVars, sessVars>>

\* Combo path: one BAG order keyed on the first leg, its handlers attached
\* at once.
PlaceCombo(c) ==
  /\ pc[c] = "place" /\ ComboPath(c)
  /\ \E first \in orders[c] :
       /\ \A m \in orders[c] : first <= m
       /\ placed' = [l \in Legs |-> IF l \in orders[c] THEN placed[l] + 1 ELSE placed[l]]
       /\ ref' = [l \in Legs |-> IF l \in orders[c] THEN first ELSE ref[l]]
       /\ open' = open \cup {first} /\ seen' = seen \cup {first}
       /\ wired' = wired \cup {first}
       /\ cur' = [cur EXCEPT ![c] = first]
  /\ orders' = [orders EXCEPT ![c] = {}]
  /\ Goto(c, "commit_combo")
  /\ UNCHANGED <<structState, claimed, rowVars, executed, phase, crashes>>

\* The BAG's placeOrder sits outside the try block: the error escapes and
\* nothing is written.
PlaceComboFails(c) ==
  /\ pc[c] = "place" /\ ComboPath(c)
  /\ Finish(c)
  /\ UNCHANGED <<structState, claimed, rowVars, ibVars, sessVars>>

\* One commit for every leg of the BAG.
CommitCombo(c) ==
  /\ pc[c] = "commit_combo"
  /\ LET bag == {l \in Legs : ref[l] = cur[c]} IN
       /\ rowState' = [l \in Legs |-> IF l \in bag THEN "submitted" ELSE rowState[l]]
       /\ ibOrderId' = [l \in Legs |-> IF l \in bag THEN TRUE ELSE ibOrderId[l]]
       /\ submittedAt' = [l \in Legs |-> IF l \in bag THEN TRUE ELSE submittedAt[l]]
  /\ Finish(c)
  /\ UNCHANGED <<structState, claimed, ibVars, sessVars>>

\* That commit fails: no handler, the error escapes.
CommitComboFails(c) ==
  /\ pc[c] = "commit_combo"
  /\ Finish(c)
  /\ UNCHANGED <<structState, claimed, rowVars, ibVars, sessVars>>

-----------------------------------------------------------------------------
(* The broker, and its events while handlers are attached *)

\* IB executes, or cancels, a working order.
IbFill(r) ==
  /\ r \in open
  /\ open' = open \ {r} /\ executed' = executed \cup {r}
  /\ UNCHANGED <<structState, claimed, rowVars, callVars, placed, ref, sessVars>>

IbCancel(r) ==
  /\ r \in open
  /\ open' = open \ {r}
  /\ UNCHANGED <<structState, claimed, rowVars, callVars, placed, ref, executed, sessVars>>

\* The handlers of a finished order: a fill takes the row to `filled` whatever
\* its state, a cancel only moves a row that is not terminal.
OnOrderDone(r) ==
  /\ phase # "down" /\ r \in wired \ open
  /\ LET legs == {l \in Legs : ref[l] = r} IN
       /\ rowState' = [l \in Legs |->
            IF l \notin legs THEN rowState[l]
            ELSE IF r \in executed THEN "filled"
            ELSE IF rowState[l] \in OpenRowStates THEN "cancelled" ELSE rowState[l]]
       /\ rowState' # rowState
  /\ UNCHANGED <<structState, claimed, ibOrderId, submittedAt, callVars, ibVars, sessVars>>

-----------------------------------------------------------------------------
(* Crash, restart, rehydration, adoption *)

\* The process dies: the event loop, its calls and its handlers with it.
Crash ==
  /\ phase # "down" /\ crashes < MaxCrashes
  /\ crashes' = crashes + 1 /\ phase' = "down"
  /\ seen' = {} /\ wired' = {}
  /\ pc' = [c \in Calls |-> IF pc[c] = "idle" THEN "idle" ELSE "done"]
  /\ orders' = [c \in Calls |-> {}]
  /\ cur' = [c \in Calls |-> NoLeg]
  /\ UNCHANGED <<structState, claimed, rowVars, ibVars>>

\* OrderExecutor.connect of the new process: IB reports its open orders.
Restart ==
  /\ phase = "down"
  /\ phase' = "starting" /\ seen' = open
  /\ UNCHANGED <<structState, claimed, rowVars, callVars, ibVars, wired, crashes>>

\* rehydrate_session: at startup, and again on every 1101 of a live session.
\* Open IB orders get handlers and their row its ids; executions are replayed
\* onto the row their orderRef names.
Rehydrate ==
  /\ phase # "down"
  /\ LET matched == {r \in open : rowState[r] \in OpenRowStates} IN
       /\ ibOrderId' = [l \in Legs |-> ibOrderId[l] \/ l \in matched]
       /\ rowState' = [l \in Legs |-> IF l \in executed THEN "filled"
                                       ELSE IF l \in matched THEN "submitted"
                                       ELSE rowState[l]]
       /\ wired' = wired \cup matched
  /\ phase' = "up"
  /\ UNCHANGED <<structState, claimed, submittedAt, callVars, ibVars, seen, crashes>>

\* Fault: the sweep only looks at rows that are already `submitted`.
AdoptSubmittedOnly ==
  /\ phase = "up"
  /\ LET rows == {r \in seen : ~ibOrderId[r] /\ rowState[r] = "submitted"} IN
       /\ rows # {}
       /\ ibOrderId' = [l \in Legs |-> ibOrderId[l] \/ l \in rows]
       /\ submittedAt' = [l \in Legs |-> submittedAt[l] \/ l \in rows]
  /\ UNCHANGED <<structState, claimed, rowState, callVars, ibVars, sessVars>>

\* Fault: the sweep drops its orderRef match and stamps every row without an id.
AdoptUnmatched ==
  /\ phase = "up" /\ seen # {}
  /\ ibOrderId' = [l \in Legs |-> TRUE]
  /\ submittedAt' = [l \in Legs |-> TRUE]
  /\ UNCHANGED <<structState, claimed, rowState, callVars, ibVars, sessVars>>

\* reaper._adopt_orphaned_orders: rows without an IB id whose orderRef the
\* session's trades carry.  The loop starts once the startup pass is over.
AdoptOrphanedOrders ==
  /\ phase = "up"
  /\ LET rows == {r \in seen : ~ibOrderId[r]} IN
       /\ rows # {}
       /\ ibOrderId' = [l \in Legs |-> ibOrderId[l] \/ l \in rows]
       /\ submittedAt' = [l \in Legs |-> submittedAt[l] \/ l \in rows]
       /\ rowState' = [l \in Legs |-> IF l \in rows /\ rowState[l] = "pending"
                                       THEN "submitted" ELSE rowState[l]]
  /\ UNCHANGED <<structState, claimed, callVars, ibVars, sessVars>>

-----------------------------------------------------------------------------
CallStep(c) ==
  \/ Start(c) \/ Claim(c) \/ Select(c)
  \/ Prepare(c) \/ PrepareFails(c)
  \/ PlaceLeg(c) \/ PlaceLegFails(c) \/ CommitLeg(c) \/ CommitLegFails(c)
  \/ PlaceCombo(c) \/ PlaceComboFails(c) \/ CommitCombo(c) \/ CommitComboFails(c)

Next ==
  /\ \/ \E c \in Calls : CallStep(c)
     \/ \E r \in Legs : IbFill(r) \/ IbCancel(r) \/ OnOrderDone(r)
     \/ Crash \/ Restart \/ Rehydrate \/ AdoptOrphanedOrders
  /\ UNCHANGED useCombo

\* A supervisor restarts a dead process, its startup pass runs before it serves,
\* and the reaper loop runs every REAPER_INTERVAL_S.  Nothing else is assumed:
\* calls may stall, and IB need not fill or cancel anything.
Fairness ==
  /\ WF_vars(Restart /\ UNCHANGED useCombo)
  /\ WF_vars(phase = "starting" /\ Rehydrate /\ UNCHANGED useCombo)
  /\ WF_vars(AdoptOrphanedOrders /\ UNCHANGED useCombo)

Spec == Init /\ [][Next]_vars /\ Fairness

-----------------------------------------------------------------------------
(* Properties *)

\* What the callers and the account see of all this: one submission.
Once == INSTANCE SubmitOnce WITH
  asBag <- useCombo /\ NLegs >= 2,
  named <- {l \in Legs : ibOrderId[l]}

\* However many calls race, fail between their awaits, are retried or die with the
\* process, IB sees one submission: a prefix of the legs, each once, or the whole
\* BAG; the claim comes back only while nothing is there; no id is ever lost.
SubmitsOnce == Once!Spec

\* EXEC-1: whatever calls race, fail, are retried or die with the process, a leg
\* is sent to IB at most once.
SinglePlacement == \A l \in Legs : placed[l] <= 1

\* A retry is possible (claim free) only while nothing of the structure has
\* ever reached IB: _release_submit_claim is reserved to zero-placement failures.
ClaimFreeMeansNothingPlaced == ~claimed => \A l \in Legs : placed[l] = 0

\* A row carries an IB id only for an order that exists at IB, and no call that
\* still has a leg to place finds that leg already carrying one.
IdsAreReal ==
  /\ \A l \in Legs : ibOrderId[l] => placed[l] >= 1
  /\ \A c \in Calls : \A l \in orders[c] : ~ibOrderId[l]

\* EXEC-2: on the per-leg path, the row of a leg that is working at IB eventually
\* carries its IB id, through the commit, the rehydration or the reaper's sweep
\* (unless the order stops working first).  A BAG's orderRef names its first leg
\* only, so the same cannot be said of a combo's other legs.
TradedLegKnown ==
  \A l \in Legs : (ref[l] = l /\ l \in open) ~> (ibOrderId[l] \/ l \notin open)
=============================================================================
