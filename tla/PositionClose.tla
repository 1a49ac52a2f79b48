---------------------------- MODULE PositionClose ----------------------------
(***************************************************************************)
(* Closing one position: a contract held at IB through one filled entry    *)
(* leg of Lot contracts, the booked_position made of it, and every closing *)
(* order opened against it.                                                *)
(*                                                                         *)
(* close_one_open_position (api/routers/positions.py) opens the closing    *)
(* orders, for the operator's close of the IB mirror row and, leg by leg,  *)
(* for the trade-level close; the closing orders in flight guard it.  The  *)
(* engine answers with close_position_by_symbol, which reads IB's own      *)
(* position.  Fills, reservation and completion follow.  The position      *)
(* leaves "open" by close_manual or by the position sync, which finds it   *)
(* flat at IB.                                                             *)
(*                                                                         *)
(* A closing order is its trade_order row, its structure's state and what  *)
(* IB holds for it.  Long positions only: a short one is the mirror image. *)
(***************************************************************************)
EXTENDS Integers, Sequences, FiniteSets, Functions

CONSTANTS
  Lot,        \* contracts of the entry leg (its qty_filled)
  Callers,    \* requests that may be inside the operator's route at once
  Monitors,   \* monitor instances: the loop, and the one run_monitor_once makes
  Partial,    \* TRUE: the operator also closes less than the whole mirror row
  Faults,     \* TRUE: dispatches, commits, the engine and IB may fail
  Scenarios,  \* who acts: "operator", "monitor" (with its exit rules) or "hedge"
  Outlives,   \* TRUE: a close may still be at work at IB when the window is over
  Unstamped,  \* TRUE: stamp_placement may fail once the order is placed
  MaxOrders,  \* bound: closing orders ever opened
  MaxAlerts   \* bound: exit alerts ever staged

ASSUME LotAssumption == Lot \in Nat \ {0}
ASSUME BoundsAssumption == MaxOrders \in Nat /\ MaxAlerts \in Nat
ASSUME SwitchesAssumption ==
  /\ {Partial, Faults, Outlives, Unstamped} \subseteq BOOLEAN
  /\ Scenarios \subseteq {"operator", "monitor", "hedge"}

VARIABLES
  scenario,
  position,   \* booked_position.state
  readers,    \* who has read the position open and will write it: "manual", "reconcile"
  mirror,     \* open_position.quantity, as the last IB sync left it
  orders,     \* the closing orders, in order of creation
  reserved,   \* leg_position.reserved_qty of the entry leg
  alerts,     \* exit_alert rows, by id
  call        \* the operator's requests

closeVars == <<scenario, position, readers, mirror, orders, reserved, alerts, call>>

Idle == [pc |-> "idle", qty |-> 0, id |-> 0]

Ids == DOMAIN orders
Min2(a, b) == IF a < b THEN a ELSE b

\* What IB holds: the lot less everything the closing orders traded.
Net == Lot - SumFunction([i \in Ids |-> orders[i].traded])

\* A new row: state "pending", its structure "submitted", nothing at IB.
\*   linked  closes_order_id names the entry leg, so that the row reserves on it
\*   req     the request to the engine: sent, checked, ok, refused, lost, or
\*           unstamped: placed, but answered with an error
\*   ib      none, live, filled, cancelled;  traded: contracts executed
\*   aged    its age (submitted_at, else state_updated_at) is past the window
\*   then    the engine's next step after a full fill: complete, finalise
NewOrder(qty, linked) ==
  [qty |-> qty, linked |-> linked, filled |-> 0, state |-> "pending", struct |-> "submitted",
   req |-> "sent", ib |-> "none", traded |-> 0, aged |-> FALSE, then |-> "none"]

OrderType ==
  [qty : 1..Lot, linked : BOOLEAN, filled : 0..Lot,
   state : {"pending", "submitted", "partially_filled", "filled", "rejected",
            "cancelled", "expired"},
   struct : {"submitted", "fully_filled", "partial_fail", "fully_failed"},
   req : {"sent", "checked", "ok", "refused", "lost", "unstamped"},
   ib : {"none", "live", "filled", "cancelled"}, traded : 0..Lot, aged : BOOLEAN,
   then : {"none", "complete", "finalise"}]

AlertType ==
  [by : Monitors \cup {"operator"}, action : {"EXIT", "TRIM"},
   rule : {"signal_reverse", "time_based", "stop_loss_vega", "time_to_expiry_critical",
           "pre_event_regime", "manual_close"},
   urgent : BOOLEAN, recent : BOOLEAN,
   status : {"staged", "rolled_back", "none", "in_progress", "done"},
   closing : 0..MaxOrders]   \* exit_alert.closing_structure_id, 0 for NULL

CloseTypeOK ==
  /\ scenario \in Scenarios
  /\ position \in {"open", "closing", "closed"}
  /\ readers \subseteq {"manual", "reconcile"}
  /\ mirror \in Nat
  /\ orders \in Seq(OrderType) /\ Len(orders) <= MaxOrders
  /\ reserved \in Nat
  /\ alerts \in Seq(AlertType) /\ Len(alerts) <= MaxAlerts
  /\ call \in [Callers -> [pc : {"idle", "admitted", "waiting"}, qty : 0..Lot, id : 0..MaxOrders]]

CloseInit ==
  /\ scenario \in Scenarios
  /\ position = "open"
  /\ readers = {}
  /\ mirror = Lot
  /\ orders = <<>>
  /\ reserved = 0
  /\ alerts = <<>>
  /\ call = [c \in Callers |-> Idle]

Put(i, changes) ==
  orders' = [orders EXCEPT ![i] =
               [f \in DOMAIN @ |-> IF f \in DOMAIN changes THEN changes[f] ELSE @[f]]]
-----------------------------------------------------------------------------
(* The reservation of the entry leg (persistence/reservation.py) *)

\* Fault: a partly filled close no longer reserves.
RESERVING_UNFILLED == {"pending", "submitted", "acknowledged"}

RESERVING == {"pending", "submitted", "acknowledged", "partially_filled"}

\* recompute_reservation over the rows os that name the entry leg, as the caller is
\* about to commit them.
RecomputeReservation(os) ==
  SumFunction([i \in DOMAIN os |->
                 IF os[i].linked /\ os[i].state \in RESERVING /\ os[i].qty > os[i].filled
                 THEN os[i].qty - os[i].filled ELSE 0])

\* Its callers leave the reservation alone for a row that names no entry leg.
Reserve(i) == reserved' = IF orders[i].linked THEN RecomputeReservation(orders') ELSE reserved
-----------------------------------------------------------------------------
(* The operator's close: close_one_open_position *)

\* Fault: a row whose dispatch went unanswered does not count (the code before EX-01).
InflightOfAcked(o) ==
  IF o.state \in {"pending", "partially_filled"} /\ ~o.aged
  THEN o.qty - Min2(o.qty, o.filled) ELSE 0

\* Fault: a row that never had a submitted_at has no age.
InflightUndispatched(o) ==
  IF o.state \in {"pending", "submitted", "partially_filled"} /\ (~o.aged \/ o.state = "pending")
  THEN o.qty - Min2(o.qty, o.filled) ELSE 0

\* close_inflight_remaining of a row the guard's query selects.
CloseInflightRemaining(o) ==
  IF o.state \in {"pending", "submitted", "partially_filled"} /\ ~o.aged
  THEN o.qty - Min2(o.qty, o.filled) ELSE 0

AlreadyClosing == SumFunction([i \in Ids |-> CloseInflightRemaining(orders[i])])

\* The checks on the mirror row and the stacking guard; a refusal (400, 409)
\* changes nothing.  The rows read here are inserted against later, with no lock.
Admit(c) ==
  /\ scenario = "operator"
  /\ call[c].pc = "idle"
  /\ Len(orders) < MaxOrders
  /\ \E qty \in 1..Lot :
       /\ Partial \/ qty = mirror
       /\ qty <= mirror
       /\ AlreadyClosing + qty <= mirror
       /\ call' = [call EXCEPT ![c] = [pc |-> "admitted", qty |-> qty, id |-> 0]]
  /\ UNCHANGED <<scenario, position, readers, mirror, orders, reserved, alerts>>

\* Structure and order rows, the reservation, one commit, and the POST.  The entry leg
\* is found by the mirror row's trade and symbol, or is not: then nothing is reserved.
InsertClose(c) ==
  /\ call[c].pc = "admitted"
  /\ Len(orders) < MaxOrders
  /\ \E linked \in BOOLEAN :
       /\ orders' = Append(orders, NewOrder(call[c].qty, linked))
       /\ reserved' = IF linked THEN RecomputeReservation(orders') ELSE reserved
  /\ call' = [call EXCEPT ![c].pc = "waiting", ![c].id = Len(orders) + 1]
  /\ UNCHANGED <<scenario, position, readers, mirror, alerts>>

\* classify_dispatch_failure says not_sent, or the engine answered with an error: the
\* row is rejected and its structure fails.  The reservation is not recomputed.
CloseRefused(c) ==
  /\ call[c].pc = "waiting"
  /\ orders[call[c].id].req \in {"sent", "refused", "unstamped"}
  /\ Put(call[c].id, [req |-> IF orders[call[c].id].req = "sent" THEN "lost" ELSE orders[call[c].id].req,
                      state |-> "rejected", struct |-> "partial_fail"])
  /\ call' = [call EXCEPT ![c] = Idle]
  /\ UNCHANGED <<scenario, position, readers, mirror, reserved, alerts>>

\* No answer in time (unknown): the row is kept in flight from now on.
CloseTimesOut(c) ==
  /\ call[c].pc = "waiting"
  /\ Put(call[c].id, [state |-> "submitted", aged |-> FALSE])
  /\ call' = [call EXCEPT ![c] = Idle]
  /\ UNCHANGED <<scenario, position, readers, mirror, reserved, alerts>>

\* The engine's acknowledgement: ids are stamped and the row is submitted,
\* whatever the fill handler has made of it meanwhile.
CloseAccepted(c) ==
  /\ call[c].pc = "waiting"
  /\ orders[call[c].id].req = "ok"
  /\ Put(call[c].id, [state |-> "submitted", aged |-> FALSE])
  /\ call' = [call EXCEPT ![c] = Idle]
  /\ UNCHANGED <<scenario, position, readers, mirror, reserved, alerts>>

\* The API stops with the request under way: what was committed stays, and a row whose
\* POST had not left yet is never dispatched.
CloseDies(c) ==
  /\ Faults
  /\ call[c].pc # "idle"
  /\ call' = [call EXCEPT ![c] = Idle]
  /\ \/ UNCHANGED orders
     \/ /\ call[c].pc = "waiting" /\ orders[call[c].id].req = "sent"
        /\ Put(call[c].id, [req |-> "lost"])
  /\ UNCHANGED <<scenario, position, readers, mirror, reserved, alerts>>
-----------------------------------------------------------------------------
(* The booked position, read in one statement and written in a later one *)

\* Fault: a position an hour old is closed whatever IB holds.
ReadPositionUnasked(w) ==
  /\ scenario # "hedge"
  /\ position = "open" /\ w \notin readers
  /\ readers' = readers \cup {w}
  /\ UNCHANGED <<scenario, position, mirror, orders, reserved, alerts, call>>

\* close_manual, and reconcile_trade_positions once IB reports nothing of the entry
\* leg and the position is an hour old, read the position "open".
ReadPosition(w) ==
  /\ scenario # "hedge"
  /\ position = "open" /\ w \notin readers
  /\ w = "reconcile" => Net = 0
  /\ readers' = readers \cup {w}
  /\ UNCHANGED <<scenario, position, mirror, orders, reserved, alerts, call>>

\* close_manual: the state flip and an alert that names no closing structure.
CloseManual ==
  /\ "manual" \in readers
  /\ Len(alerts) < MaxAlerts
  /\ readers' = readers \ {"manual"}
  /\ position' = "closing"
  /\ alerts' = Append(alerts, [by |-> "operator", action |-> "EXIT", rule |-> "manual_close",
                               urgent |-> FALSE, recent |-> TRUE, status |-> "in_progress", closing |-> 0])
  /\ UNCHANGED <<scenario, mirror, orders, reserved, call>>

\* reconcile_trade_positions: flat at IB, the position is closed without a trade; or
\* its commit fails.
ReconcileFlat ==
  /\ "reconcile" \in readers
  /\ readers' = readers \ {"reconcile"}
  /\ position' \in {"closed"} \cup (IF Faults THEN {position} ELSE {})
  /\ UNCHANGED <<scenario, mirror, orders, reserved, alerts, call>>
-----------------------------------------------------------------------------
(* The engine *)

\* Up to the awaits before placeOrder: the claim (always won, a row is posted once)
\* and the quantity against IB's own position.
EngineCheck(i) ==
  /\ orders[i].req = "sent"
  /\ orders[i].qty <= Net
  /\ Put(i, [req |-> "checked"])
  /\ UNCHANGED <<scenario, position, readers, mirror, reserved, alerts, call>>

\* The quantity is too large, or a gate, the qualification or placeOrder fails; the
\* claim is released and nothing is at IB.
EngineRefuse(i) ==
  /\ orders[i].req \in {"sent", "checked"}
  /\ Faults \/ orders[i].qty > Net
  /\ Put(i, [req |-> "refused"])
  /\ UNCHANGED <<scenario, position, readers, mirror, reserved, alerts, call>>

\* placeOrder, stamp_placement and attach_fill_handlers.
EnginePlace(i) ==
  /\ orders[i].req = "checked"
  /\ Put(i, [req |-> "ok", ib |-> "live", state |-> "submitted", aged |-> FALSE])
  /\ UNCHANGED <<scenario, position, readers, mirror, reserved, alerts, call>>

\* placeOrder, and stamp_placement raises: the answer is a 500 and the claim stays; the
\* reaper adopts the order by its orderRef, so that its fills are booked later.
EngineStampFails(i) ==
  /\ Unstamped
  /\ orders[i].req = "checked"
  /\ Put(i, [req |-> "unstamped", ib |-> "live"])
  /\ UNCHANGED <<scenario, position, readers, mirror, reserved, alerts, call>>

\* The engine's route for one closing row, its awaits included.
ClosePositionBySymbol(i) == EngineCheck(i) \/ EngineRefuse(i) \/ EnginePlace(i) \/ EngineStampFails(i)

\* IB executes one contract of a live order, or cancels what is left of it.
IbTrades(i) ==
  /\ orders[i].ib = "live"
  /\ Put(i, [traded |-> orders[i].traded + 1,
             ib |-> IF orders[i].traded + 1 = orders[i].qty THEN "filled" ELSE "live"])
  /\ UNCHANGED <<scenario, position, readers, mirror, reserved, alerts, call>>

IbCancels(i) ==
  /\ Faults
  /\ orders[i].ib = "live"
  /\ Put(i, [ib |-> "cancelled"])
  /\ UNCHANGED <<scenario, position, readers, mirror, reserved, alerts, call>>

\* The fill handler books one execution, and the reservation with it; a full
\* fill goes on to maybe_complete_structure in a transaction of its own.
PersistFill(i) ==
  LET o == orders[i]
      full == o.filled + 1 = o.qty IN
  /\ o.filled < o.traded
  /\ Put(i, [filled |-> o.filled + 1,
             state |-> IF full THEN "filled" ELSE "partially_filled",
             then |-> IF full THEN "complete" ELSE o.then])
  /\ Reserve(i)
  /\ UNCHANGED <<scenario, position, readers, mirror, alerts, call>>

\* The status handler on a cancellation: terminal, the reservation is left.
PersistCancel(i) ==
  /\ orders[i].ib = "cancelled"
  /\ orders[i].filled = orders[i].traded
  /\ orders[i].state \in RESERVING
  /\ Put(i, [state |-> "cancelled"])
  /\ UNCHANGED <<scenario, position, readers, mirror, reserved, alerts, call>>

\* maybe_complete_structure for the one leg of a closing structure; it reads the
\* row again, which CloseAccepted may have put back to submitted.
CompleteStructure(i) ==
  /\ orders[i].then = "complete"
  /\ IF orders[i].struct # "fully_filled" /\ orders[i].state = "filled"
     THEN Put(i, [struct |-> "fully_filled", then |-> "finalise"])
     ELSE Put(i, [then |-> "none"])
  /\ UNCHANGED <<scenario, position, readers, mirror, reserved, alerts, call>>

\* finalise_position_close: only through an alert that names the structure.
Finalise(i) ==
  LET mine == {a \in DOMAIN alerts : alerts[a].closing = i} IN
  /\ orders[i].then = "finalise"
  /\ Put(i, [then |-> "none"])
  /\ IF orders[i].struct = "fully_filled" /\ mine # {} /\ position # "closed"
     THEN /\ position' = "closed"
          /\ alerts' = [a \in DOMAIN alerts |->
                          IF a \in mine /\ alerts[a].status = "in_progress"
                          THEN [alerts[a] EXCEPT !.status = "done"] ELSE alerts[a]]
     ELSE UNCHANGED <<position, alerts>>
  /\ UNCHANGED <<scenario, readers, mirror, reserved, call>>

\* The reaper: an aged order IB no longer works expires and frees its reservation,
\* and its structure fails.
Reap(i) ==
  /\ orders[i].state \in {"submitted", "partially_filled"}
  /\ orders[i].aged
  /\ orders[i].ib # "live"
  /\ orders[i].filled = orders[i].traded
  /\ orders[i].filled < orders[i].qty
  /\ Put(i, [state |-> "expired",
             struct |-> IF orders[i].struct = "submitted" THEN "fully_failed"
                        ELSE orders[i].struct])
  /\ Reserve(i)
  /\ UNCHANGED <<scenario, position, readers, mirror, alerts, call>>

\* position_sync: the mirror row takes IB's quantity.
SyncMirror ==
  /\ mirror # (IF Net < 0 THEN -Net ELSE Net)
  /\ mirror' = IF Net < 0 THEN -Net ELSE Net
  /\ UNCHANGED <<scenario, position, readers, orders, reserved, alerts, call>>

\* Three minutes pass.  Unless Outlives, no order is still at work at IB or on
\* its way there when they have.
Age(i) ==
  /\ ~orders[i].aged
  /\ Outlives \/ (orders[i].ib # "live" /\ orders[i].req \notin {"sent", "checked"})
  /\ \A c \in Callers : call[c].id # i
  /\ Put(i, [aged |-> TRUE])
  /\ UNCHANGED <<scenario, position, readers, mirror, reserved, alerts, call>>

CloseNext ==
  \/ \E w \in {"manual", "reconcile"} : ReadPosition(w)
  \/ CloseManual \/ ReconcileFlat
  \/ SyncMirror
  \/ \E c \in Callers : \/ Admit(c) \/ InsertClose(c) \/ CloseRefused(c)
                        \/ CloseTimesOut(c) \/ CloseAccepted(c) \/ CloseDies(c)
  \/ \E i \in Ids : \/ ClosePositionBySymbol(i)
                    \/ IbTrades(i) \/ IbCancels(i) \/ PersistFill(i) \/ PersistCancel(i)
                    \/ CompleteStructure(i) \/ Finalise(i) \/ Reap(i) \/ Age(i)
=============================================================================
