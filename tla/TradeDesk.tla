------------------------------ MODULE TradeDesk ------------------------------
(***************************************************************************)
(* The trade desk of the API: previews are created, expire, are cancelled  *)
(* or submitted (api/routers/trade.py); a submit takes the Redis lock, the *)
(* preview's row lock, the revalidation and the pre-trade gate, inserts    *)
(* the structure and dispatches it to the execution engine; the operator   *)
(* may throw the kill switch at any time (api/routers/admin.py,            *)
(* engines/execution/halt_guard.py).                                       *)
(*                                                                         *)
(* Each action is one database transaction or one remote call; a session   *)
(* is READ COMMITTED, so a statement sees what has been committed when it  *)
(* starts and an UPDATE or SELECT FOR UPDATE waits for the row's holder.   *)
(* What a handler reads from outside the desk (regime, IB session, risk    *)
(* heartbeat, caps, the time, Redis up or down) may differ at every     *)
(* read: it is chosen at the read.                                         *)
(***************************************************************************)
EXTENDS TradePreview

CONSTANTS
  Previews,        \* preview ids
  Calls,           \* the requests of /trade/submit, one each
  Requests,        \* the preview requests the ticket sends, by preview
  Surfaces,        \* the vol surfaces Redis may hold, with their age
  Modes,           \* subset of {"mock", "live"}
  BaseQty,         \* risk/base_qty, the size of a request that names none
  MaxBookVega,     \* risk/max_book_vega_usd, in calm
  CapVega,         \* the vega cap of compute_live_caps when established
  CapDelta,
  MaxNotional,     \* risk/max_notional_eur, in micro contracts
  MaxFlips         \* bound on the times the kill switch is thrown or reset

ASSUME DeskAssumption ==
  /\ Modes \subseteq {"mock", "live"} /\ BaseQty \in Int
  /\ MaxBookVega \in Nat /\ CapVega \in Nat \ {0} /\ CapDelta \in Nat \ {0}
  /\ MaxNotional \in Nat /\ MaxFlips \in Nat

VARIABLES
  previews,   \* trade_preview rows, NoPreview before the request
  lock,       \* the previews whose trade:submit_lock key exists in Redis
  row,        \* the call that holds each preview's row lock, or NoCall
  calls,      \* the submit requests in progress
  cancels,    \* the previews a cancel request has read as not actioned
  trades,     \* trade_structure by preview (the UNIQUE preview_id), and its life at the engine and at IB
  current,    \* book_state rows with is_current, by the call that wrote them
  flips,      \* times the kill switch was flipped: halted when odd
  mirror,     \* trading:halted in Redis
  admin       \* the admin's halt request

vars == <<previews, lock, row, calls, cancels, trades, current, flips, mirror, admin>>

NoPreview == [state |-> "absent"]
NoCall    == "none"
NoTrade   == [state |-> "absent"]
IdleCall  == [pc |-> "idle"]
DoneCall  == [pc |-> "done"]

ASSUME CallsAssumption == NoCall \notin Calls

\* A request names a template or free legs, and any quantity: PreviewRequest.qty
\* has no lower bound.  A surface has cells on the display grid only.
ASSUME RequestsAssumption ==
  \A p \in Previews : \A req \in Requests[p] :
    /\ req.qty \in Int
    /\ req.legs = <<>> => req.template \in DOMAIN TEMPLATES
    /\ DOMAIN req.legs = 1..Len(req.legs) /\ Len(req.legs) \in Nat
    /\ \A i \in DOMAIN req.legs : req.legs[i].factor \in Int
ASSUME SurfacesAssumption == \A s \in Surfaces : s.iv \subseteq (DOMAIN DTE) \X DELTA_PILLARS

halted == flips % 2 = 1

Init ==
  /\ previews = [p \in Previews |-> NoPreview]
  /\ lock = {} /\ row = [p \in Previews |-> NoCall]
  /\ calls = [c \in Calls |-> IdleCall]
  /\ cancels = {} /\ trades = [p \in Previews |-> NoTrade]
  /\ current = [c \in {} |-> 0]
  /\ flips = 0 /\ mirror = FALSE
  /\ admin = [pc |-> "idle", done |-> FALSE, quiet |-> FALSE]

Exists(p) == previews[p].state # "absent"
Traded(p) == trades[p].state # "absent"

SumOver(S, Val(_)) == MapThenSumSet(Val, S)

-----------------------------------------------------------------------------
(* Previews. *)

\* _load_book: any current row, or an empty book before the first refresh.
LoadBook == IF DOMAIN current = {} THEN {0} ELSE {current[c] : c \in DOMAIN current}

\* A leg with the contracts it trades, leg_quantities of compute_sizing.
Sized(leg, final) ==
  [type |-> leg.type, tenor |-> leg.tenor, strike |-> leg.strike, iv |-> leg.iv, side |-> leg.side,
   factor |-> leg.factor, qty |-> final * leg.factor]

\* create_preview, after the request's validation: the frozen payload keeps
\* the size and the greeks of the whole trade, the legs at the final quantity
\* and the greeks at base_qty.  Without a surface in Redis a complete synthetic
\* one of age 0 is used; its age is not re-read later.
Payload(s, base, final, age) ==
  LET unit == ComputeNetGreeks(s) IN
  [legs |-> [i \in DOMAIN s.legs |-> Sized(s.legs[i], final)], base_qty |-> base,
   size |-> s.size, age |-> age, vega |-> unit.vega * base, delta |-> unit.delta * base]

\* base_qty_eff: the quantity asked for; 0 and no quantity take the default.
BaseQtyEff(req) == IF req.qty = 0 THEN BaseQty ELSE req.qty

SyntheticSurface == [iv |-> (DOMAIN DTE) \X DELTA_PILLARS, interp |-> {}, age |-> "fresh"]

\* The structure of a request: its free legs, or a named template.
StructureOf(req, surface) ==
  IF req.legs = <<>> THEN BuildStructure(req, surface) ELSE BuildFromLegs(req.legs, surface)

CreatePreview(p, req) ==
  /\ ~Exists(p)
  /\ \E surface \in Surfaces \cup {SyntheticSurface},
        regime \in {"calm", "stressed", "pre_event"}, dampener \in BOOLEAN, book \in LoadBook :
       LET s     == StructureOf(req, surface)
           base  == BaseQtyEff(req)
           final == ComputeSizing(base, base, regime, dampener)
           ok    == RunPreSubmitChecks(regime, book, ComputeNetGreeks(s).vega, final, base, MaxBookVega)
       IN /\ req.legs = <<>> \/ ValidLegs(req.legs)
          /\ previews' = [previews EXCEPT ![p] =
               [state |-> IF ok THEN "valid_for_submit" ELSE "blocked", action |-> "",
                payload |-> Payload(s, base, final, surface.age)]]
  /\ UNCHANGED <<lock, row, calls, cancels, trades, current, flips, mirror, admin>>

\* TradePreviewExpirer.run_once: one UPDATE, whose WHERE is evaluated on the
\* row as it is once the holder of its lock has committed.  The preview's two
\* minutes may be over at any time.
Expire(p) ==
  /\ Exists(p) /\ row[p] = NoCall
  /\ previews[p].state \in {"valid_for_submit", "blocked"}
  /\ previews' = [previews EXCEPT ![p].state = "expired"]
  /\ UNCHANGED <<lock, row, calls, cancels, trades, current, flips, mirror, admin>>

\* cancel_preview reads the row without a lock (one such request at a time) ...
CancelRead(p) ==
  /\ Exists(p) /\ previews[p].action = "" /\ cancels = {}
  /\ cancels' = cancels \cup {p}
  /\ UNCHANGED <<previews, lock, row, calls, trades, current, flips, mirror, admin>>

\* ... and writes it by primary key, whatever it holds by then.
CancelWrite(p) ==
  /\ p \in cancels /\ row[p] = NoCall
  /\ cancels' = cancels \ {p}
  /\ previews' = [previews EXCEPT ![p].action = "cancelled", ![p].state = "cancelled"]
  /\ UNCHANGED <<lock, row, calls, trades, current, flips, mirror, admin>>

-----------------------------------------------------------------------------
(* POST /trade/submit. *)

At(c, pc) == calls[c].pc = pc
Move(c, pc) == calls' = [calls EXCEPT ![c].pc = pc]
Done(c) == calls' = [calls EXCEPT ![c] = DoneCall]
Unlock(c) == row' = [row EXCEPT ![calls[c].preview] = NoCall]

\* _acquire_preview_lock: SET NX.  The key held, or Redis unreachable: refused.
AcquirePreviewLock(c, p, mode) ==
  /\ At(c, "idle") /\ Exists(p)
  /\ \/ /\ p \notin lock
        /\ lock' = lock \cup {p}
        /\ calls' = [calls EXCEPT ![c] = [pc |-> "select", preview |-> p, mode |-> mode]]
     \/ /\ calls' = [calls EXCEPT ![c] = [pc |-> "refused", preview |-> p, mode |-> mode]]
        /\ UNCHANGED lock
  /\ UNCHANGED <<previews, row, cancels, trades, current, flips, mirror, admin>>

\* The key's 10 seconds are over; a submit may well take longer.
LockExpires(p) ==
  /\ p \in lock
  /\ lock' = lock \ {p}
  /\ UNCHANGED <<previews, row, calls, cancels, trades, current, flips, mirror, admin>>

\* Fault: a SELECT that does not lock.
SelectUnlocked(c) ==
  /\ At(c, "select") /\ Move(c, "revalidate")
  /\ UNCHANGED <<previews, lock, row, cancels, trades, current, flips, mirror, admin>>

\* SELECT ... FOR UPDATE on the preview.
SelectForUpdate(c) ==
  /\ At(c, "select") /\ row[calls[c].preview] = NoCall
  /\ row' = [row EXCEPT ![calls[c].preview] = c]
  /\ Move(c, "revalidate")
  /\ UNCHANGED <<previews, lock, cancels, trades, current, flips, mirror, admin>>

\* The request is refused: its audit event is committed, or the session rolls
\* back; either way the row is free again.
Refuse(c) == Move(c, "refused") /\ Unlock(c)

RevalidatePreview(v, due, regime) ==
  v.action = "" /\ v.state = "valid_for_submit" /\ ~due /\ regime # "pre_event"

Revalidate(c) ==
  LET v == previews[calls[c].preview] IN
  /\ At(c, "revalidate")
  /\ \E ib \in BOOLEAN, due \in BOOLEAN, regime \in {"calm", "stressed", "pre_event"} :
       IF (calls[c].mode = "live" => ib) /\ RevalidatePreview(v, due, regime)
       THEN Move(c, "gate") /\ UNCHANGED row
       ELSE Refuse(c)
  /\ UNCHANGED <<previews, lock, cancels, trades, current, flips, mirror, admin>>

EUR_FOP_MULTIPLIER == 125000

\* What the orders carry, one order per leg: an option's greeks are those of its
\* contract, whether or not the preview's surface had an IV for it; a leg without
\* a strike names no contract.
Struck(l)    == l.type # "future" /\ l.strike # Unpriced
OrderVega(l) == IF Struck(l) THEN Sign(l) * l.qty * BsVega(l.tenor, l.strike) ELSE 0
OrderDelta(l, size) ==
  Sign(l) * l.qty * (CASE l.type = "future" -> Micro(size) [] Struck(l) -> BsDelta(l.type, l.strike) [] OTHER -> 0)
OrdersVega(t)  == Total(Len(t.legs), [i \in DOMAIN t.legs |-> OrderVega(t.legs[i])])
OrdersDelta(t) == Total(Len(t.legs), [i \in DOMAIN t.legs |-> OrderDelta(t.legs[i], t.size)])

\* The IB mirror's book: the trades whose fills the position sync has seen.
Mirrored == {p \in Previews : Traded(p) /\ trades[p].mirrored}
BookVega == SumOver(Mirrored, LAMBDA p : OrdersVega(trades[p]))
BookDelta == SumOver(Mirrored, LAMBDA p : OrdersDelta(trades[p]))

\* trade_greeks_from_preview: the payload's dollar delta is taken for contract
\* equivalents and scaled once more.
TradeGreeks(pay) ==
  [vega |-> pay.vega, delta |-> pay.delta * EUR_FOP_MULTIPLIER,
   notional |-> Total(Len(pay.legs), [i \in DOMAIN pay.legs |-> pay.legs[i].qty]) * (IF pay.size = "micro" THEN 1 ELSE 10)]

\* evaluate_pretrade: the switch, the live session's checks, then, if the caps
\* are established and the book is read and priced (`known`), the caps on the
\* book with the trade added (gamma is capped as vega is).
EvaluatePretrade(live, session, age, known, g) ==
  /\ ~halted
  /\ live => session /\ age = "fresh"
  /\ known
  /\ Abs(BookVega + g.vega) <= CapVega
  /\ Abs(BookDelta + g.delta) <= CapDelta
  /\ g.notional <= MaxNotional

RunPretradeGate(c) ==
  LET pay == previews[calls[c].preview].payload IN
  /\ At(c, "gate")
  /\ \E session \in BOOLEAN, known \in BOOLEAN :
       IF EvaluatePretrade(calls[c].mode = "live", session, pay.age, known, TradeGreeks(pay))
       THEN Move(c, "insert") /\ UNCHANGED row
       ELSE Refuse(c)
  /\ UNCHANGED <<previews, lock, cancels, trades, current, flips, mirror, admin>>

NewTrade(pay, mode) ==
  [state |-> "submitted", mode |-> mode, legs |-> pay.legs, base_qty |-> pay.base_qty,
   size |-> pay.size, judged |-> pay.vega,
   engine |-> "none", ib |-> "none", mirrored |-> FALSE]

MarkSubmitted(p) == previews' = [previews EXCEPT ![p].action = "submitted", ![p].state = "submitted"]

\* The live path: structure, pending orders and the preview's state in one
\* commit; a structure the preview already has is an IntegrityError, 409.
InsertLive(c) ==
  LET p == calls[c].preview IN
  /\ At(c, "insert") /\ calls[c].mode = "live"
  /\ IF Traded(p) THEN Refuse(c) /\ UNCHANGED <<previews, trades>>
     ELSE /\ trades' = [trades EXCEPT ![p] = NewTrade(previews[p].payload, "live")]
          /\ MarkSubmitted(p)
          /\ Move(c, "dispatch") /\ Unlock(c)
  /\ UNCHANGED <<lock, cancels, current, flips, mirror, admin>>

\* The open booked positions: one per filled structure.
OpenVega == SumOver({p \in Previews : Traded(p) /\ trades[p].state = "fully_filled"}, LAMBDA p : trades[p].judged)

\* The mock path: filled orders and a position, then refresh_book_state sums
\* the committed positions and this one and finds the current rows ...
InsertMock(c) ==
  LET p == calls[c].preview IN
  /\ At(c, "insert") /\ calls[c].mode = "mock"
  /\ IF Traded(p) THEN Refuse(c)
     ELSE /\ calls' = [calls EXCEPT ![c] = [pc |-> "refresh", preview |-> p, mode |-> "mock",
                          total |-> OpenVega + previews[p].payload.vega, old |-> DOMAIN current]]
          /\ UNCHANGED row
  /\ UNCHANGED <<previews, lock, cancels, trades, current, flips, mirror, admin>>

\* ... and the commit replaces those rows by its own.
CommitMock(c) ==
  LET p == calls[c].preview IN
  /\ At(c, "refresh")
  /\ trades' = [trades EXCEPT ![p] = [NewTrade(previews[p].payload, "mock") EXCEPT !.state = "fully_filled"]]
  /\ MarkSubmitted(p)
  /\ current' = [k \in (DOMAIN current \ calls[c].old) \cup {c} |-> IF k = c THEN calls[c].total ELSE current[k]]
  /\ Done(c) /\ Unlock(c)
  /\ UNCHANGED <<lock, cancels, flips, mirror, admin>>

\* _post_execution_engine: the call reaches the engine, or does not (502).
Dispatch(c) ==
  LET p == calls[c].preview IN
  /\ At(c, "dispatch")
  /\ \/ trades' = [trades EXCEPT ![p].engine = "asked"] /\ Move(c, "await")
     \/ Move(c, "refused") /\ UNCHANGED trades
  /\ UNCHANGED <<previews, lock, row, cancels, current, flips, mirror, admin>>

\* The engine's answer: a success is returned, an error or no answer within
\* 45 seconds is a 502.
Answered(c) ==
  /\ At(c, "await")
  /\ \/ trades[calls[c].preview].engine = "placed" /\ Done(c)
     \/ Move(c, "refused")
  /\ UNCHANGED <<previews, lock, row, cancels, trades, current, flips, mirror, admin>>

\* submit_preview's error path deletes the lock's key, whoever set it (when
\* Redis refuses the delete, the key's time runs out instead: LockExpires).
ReleasePreviewLock(c) ==
  /\ At(c, "refused")
  /\ lock' = lock \ {calls[c].preview}
  /\ Done(c)
  /\ UNCHANGED <<previews, row, cancels, trades, current, flips, mirror, admin>>

-----------------------------------------------------------------------------
(* The execution engine and IB, as far as the kill switch reaches. *)

\* Sets some columns of a structure.
Engine(p, changes) ==
  trades' = [trades EXCEPT ![p] = [f \in DOMAIN @ |-> IF f \in DOMAIN changes THEN changes[f] ELSE @[f]]]

\* Fault: the guard trusts the Redis mirror of the flag.
CheckMirror(p) ==
  /\ Traded(p) /\ trades[p].engine = "asked"
  /\ \E ready \in BOOLEAN : Engine(p, [engine |-> IF mirror \/ ~ready THEN "refused" ELSE "admitted"])
  /\ UNCHANGED <<previews, lock, row, calls, cancels, current, flips, mirror, admin>>

\* require_not_halted reads the flag in Postgres, require_ready the IB gate.
CheckNotHalted(p) ==
  /\ Traded(p) /\ trades[p].engine = "asked"
  /\ \E ready \in BOOLEAN : Engine(p, [engine |-> IF halted \/ ~ready THEN "refused" ELSE "admitted"])
  /\ UNCHANGED <<previews, lock, row, calls, cancels, current, flips, mirror, admin>>

\* An option leg without a premium goes out at market, which no collar checks;
\* one without a strike cannot be built.
Placeable(t) == \A i \in DOMAIN t.legs : t.legs[i].type = "future" \/ Struck(t.legs[i])

\* submit_structure_live, as one step: module LiveSubmit has its interior.
PlaceStructure(p) ==
  /\ Traded(p) /\ trades[p].engine = "admitted"
  /\ \/ Placeable(trades[p]) /\ Engine(p, [engine |-> "placed", ib |-> "working"])
     \/ Engine(p, [engine |-> "refused"])
  /\ UNCHANGED <<previews, lock, row, calls, cancels, current, flips, mirror, admin>>

\* The operator posts a refused structure to the engine again.
OperatorRetries(p) ==
  /\ Traded(p) /\ trades[p].mode = "live" /\ trades[p].engine \in {"none", "refused"}
  /\ \A c \in Calls : calls[c].pc = "dispatch" => calls[c].preview # p
  /\ Engine(p, [engine |-> "asked"])
  /\ UNCHANGED <<previews, lock, row, calls, cancels, current, flips, mirror, admin>>

\* IB fills a live order or confirms its cancellation; the fill cascade books
\* the structure and the position sync copies the position.
IbDone(p) ==
  /\ Traded(p) /\ trades[p].ib \in {"working", "cancelling"}
  /\ \/ Engine(p, [ib |-> "filled", state |-> "fully_filled"])
     \/ trades[p].ib = "cancelling" /\ Engine(p, [ib |-> "cancelled"])
  /\ UNCHANGED <<previews, lock, row, calls, cancels, current, flips, mirror, admin>>

SyncMirror(p) ==
  /\ Traded(p) /\ trades[p].ib = "filled" /\ ~trades[p].mirrored
  /\ Engine(p, [mirrored |-> TRUE])
  /\ UNCHANGED <<previews, lock, row, calls, cancels, current, flips, mirror, admin>>

-----------------------------------------------------------------------------
(* The kill switch. *)

\* set_halt and its commit, by POST or DELETE /admin/halt.
SetHalt ==
  /\ admin.pc = "idle" /\ flips < MaxFlips
  /\ flips' = flips + 1
  /\ admin' = [pc |-> "mirror", done |-> FALSE, quiet |-> FALSE]
  /\ UNCHANGED <<previews, lock, row, calls, cancels, trades, current, mirror>>

\* mirror_halt, whose failure is ignored; a resume ends here.
MirrorHalt ==
  /\ admin.pc = "mirror"
  /\ mirror' \in {mirror, halted}
  /\ admin' = [admin EXCEPT !.pc = IF halted THEN "forward" ELSE "idle"]
  /\ UNCHANGED <<previews, lock, row, calls, cancels, trades, current, flips>>

\* The engine asks IB to cancel every order that works.
CancelAllOpen ==
  [p \in Previews |-> IF Traded(p) /\ trades[p].ib = "working"
                      THEN [trades[p] EXCEPT !.ib = "cancelling"] ELSE trades[p]]

\* _forward_halt_to_execution and the engine's cancel_all_open; `done` records
\* that the cancel went through, `quiet` that no submission was admitted then.
ForwardHalt ==
  /\ admin.pc = "forward"
  /\ \/ /\ trades' = CancelAllOpen
        /\ admin' = [pc |-> "idle", done |-> TRUE,
                     quiet |-> \A p \in Previews : Traded(p) => trades[p].engine # "admitted"]
     \/ admin' = [admin EXCEPT !.pc = "idle"] /\ UNCHANGED trades
  /\ UNCHANGED <<previews, lock, row, calls, cancels, current, flips, mirror>>

-----------------------------------------------------------------------------
Submit(c) ==
  \/ \E p \in Previews, mode \in Modes : AcquirePreviewLock(c, p, mode)
  \/ SelectForUpdate(c) \/ Revalidate(c) \/ RunPretradeGate(c)
  \/ InsertLive(c) \/ InsertMock(c) \/ CommitMock(c)
  \/ Dispatch(c) \/ Answered(c) \/ ReleasePreviewLock(c)

Next ==
  \/ \E c \in Calls : Submit(c)
  \/ \E p \in Previews :
       \/ \E req \in Requests[p] : CreatePreview(p, req)
       \/ Expire(p) \/ CancelRead(p) \/ CancelWrite(p) \/ LockExpires(p)
       \/ CheckNotHalted(p) \/ PlaceStructure(p) \/ OperatorRetries(p) \/ IbDone(p) \/ SyncMirror(p)
  \/ SetHalt \/ MirrorHalt \/ ForwardHalt

Spec == Init /\ [][Next]_vars

-----------------------------------------------------------------------------
\* A preview has one outcome: a submit that reaches its insert finds no
\* structure for the preview, so the row lock alone serialises the requests
\* that got past a Redis lock which expired, or which a refused duplicate
\* deleted; and the expirer never calls a preview expired that has a trade.
OneOutcome ==
  /\ \A c \in Calls : calls[c].pc \in {"insert", "refresh"} => ~Traded(calls[c].preview)
  /\ \A p \in Previews : previews[p].state = "expired" => ~Traded(p)

\* The risk the gate judged is the risk the orders carry: the frozen payload's
\* net vega is the vega of the contracts ordered at the quantities sent, whatever
\* regime, dampener and surface the preview was made under.  It is promised of a
\* structure whose base_qty is positive and whose option legs all had an IV: on
\* the others the gate reads a number that is not the orders' (EveryTradeIsJudged).
IvForEveryStrike(t) == \A i \in DOMAIN t.legs : Struck(t.legs[i]) => Priced(t.legs[i])
GateJudgesTheOrders ==
  \A p \in Previews :
    Traded(p) /\ trades[p].base_qty > 0 /\ IvForEveryStrike(trades[p]) =>
      trades[p].judged = OrdersVega(trades[p])

\* A halt holds: once its cancel-all went through with no submission already
\* admitted by the engine, nothing is placed until the switch is reset, though
\* the Redis mirror was lost, dispatches were under way and the operator retries.
QuietHaltHolds ==
  halted /\ admin.quiet => \A p \in Previews : Traded(p) => trades[p].ib # "working"

\* The gate judges every trade, unconditionally.  It does not: a leg struck by
\* hand where the surface has no IV counts as nothing and is sent at market, and a
\* negative quantity is judged with its sign and traded as one structure.
EveryTradeIsJudged == \A p \in Previews : Traded(p) => trades[p].judged = OrdersVega(trades[p])

\* The caps hold on the book with every trade that was let through.
PostTradeBookWithinCaps == Abs(SumOver({p \in Previews : Traded(p)}, LAMBDA p : OrdersVega(trades[p]))) <= CapVega

\* A cancelled preview has no trade.
CancelledHasNoTrade == \A p \in Previews : previews[p].state = "cancelled" => ~Traded(p)
=============================================================================
