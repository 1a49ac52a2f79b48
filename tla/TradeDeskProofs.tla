--------------------------- MODULE TradeDeskProofs ---------------------------
(***************************************************************************)
(* For any previews, requests and calls, whatever the surfaces, the limits *)
(* and the number of times the switch is thrown: a preview has one         *)
(* outcome, a quiet halt holds, and the orders sent carry the risk the     *)
(* gate judged.                                                            *)
(*                                                                         *)
(* OneOutcome rests on the row lock: a call between its SELECT FOR UPDATE  *)
(* and its commit holds its preview's row, so that it is alone, and what   *)
(* it revalidated (no action yet) is still so when it inserts; and a       *)
(* preview with a trade has its action set for good.  The Redis lock has   *)
(* no part in the argument.  QuietHaltHolds rests on the engine's own      *)
(* guard: with nothing admitted and nothing working, only CheckNotHalted   *)
(* could start a placement, and it reads the flag.  GateJudgesTheOrders    *)
(* is about sums: each leg's order carries the quantity times the vega of  *)
(* its leg, a common factor comes out of the sum, and from the preview on  *)
(* the payload, the structure and its legs are copied and never edited.    *)
(***************************************************************************)
EXTENDS TradeDesk, WellFoundedInduction, TLAPS

\* A call that holds its preview's row, and one that has revalidated it.
Holding == {"revalidate", "gate", "insert", "refresh"}
Passed  == {"gate", "insert", "refresh"}

\* The columns each record has, as far as the proofs read them.
PreviewShapes ==
  /\ DOMAIN previews = Previews
  /\ \A p \in Previews : "state" \in DOMAIN previews[p] /\ (Exists(p) => "action" \in DOMAIN previews[p])
CallShapes ==
  /\ DOMAIN calls = Calls
  /\ \A c \in Calls : /\ "pc" \in DOMAIN calls[c]
                      /\ calls[c].pc \notin {"idle", "done"} =>
                           "preview" \in DOMAIN calls[c] /\ calls[c].preview \in Previews
TradeShapes ==
  /\ DOMAIN trades = Previews
  /\ \A p \in Previews : "state" \in DOMAIN trades[p] /\ (Traded(p) => {"engine", "ib"} \subseteq DOMAIN trades[p])
AdminShape == "pc" \in DOMAIN admin /\ "quiet" \in DOMAIN admin

\* A request names a preview the desk knows.
RequestsAreKnown ==
  /\ cancels \subseteq Previews /\ \A p \in cancels : Exists(p)
  /\ \A c \in Calls : calls[c].pc \notin {"idle", "done"} => Exists(calls[c].preview)

\* The row lock: whoever is between SELECT FOR UPDATE and commit has it.
HolderOwnsRow ==
  /\ DOMAIN row = Previews
  /\ \A c \in Calls : calls[c].pc \in Holding => row[calls[c].preview] = c

\* What was revalidated is still so.
PassedIsOpen == \A c \in Calls : calls[c].pc \in Passed => previews[calls[c].preview].action = ""

\* A preview with a trade is settled: it was submitted, and may at most have
\* been overwritten by a late cancellation.
TradedIsSettled ==
  \A p \in Previews : Traded(p) =>
    Exists(p) /\ previews[p].action # "" /\ previews[p].state \in {"submitted", "cancelled"}

OutcomeInv ==
  /\ PreviewShapes /\ CallShapes /\ TradeShapes
  /\ RequestsAreKnown /\ HolderOwnsRow /\ PassedIsOpen /\ TradedIsSettled

\* During a quiet halt no submission is past the engine's guard.
QuietHaltAdmitsNothing ==
  halted /\ admin.quiet => \A p \in Previews : Traded(p) => trades[p].engine # "admitted" /\ trades[p].ib # "working"

HaltInv == CallShapes /\ TradeShapes /\ AdminShape /\ QuietHaltAdmitsNothing

-----------------------------------------------------------------------------
\* The initial states satisfy both invariants.
LEMMA InitInvs == Init => OutcomeInv /\ HaltInv
<1> SUFFICES ASSUME Init PROVE OutcomeInv /\ HaltInv
  OBVIOUS
<1> USE DEF Init
<1>1. PreviewShapes /\ CallShapes /\ TradeShapes /\ AdminShape
  BY DEF PreviewShapes, CallShapes, TradeShapes, AdminShape, NoPreview, NoTrade, IdleCall, Exists, Traded
<1>2. RequestsAreKnown /\ HolderOwnsRow /\ PassedIsOpen
  BY DEF RequestsAreKnown, HolderOwnsRow, PassedIsOpen, Holding, Passed, IdleCall
<1>3. TradedIsSettled /\ QuietHaltAdmitsNothing
  BY DEF TradedIsSettled, QuietHaltAdmitsNothing, Traded, NoTrade
<1>4. QED
  BY <1>1, <1>2, <1>3 DEF OutcomeInv, HaltInv

\* A new preview has no action, and its state is neither settled nor expired.
LEMMA CreatedIsOpen ==
  ASSUME NEW p \in Previews, NEW req, CreatePreview(p, req)
  PROVE  \E v : /\ previews' = [previews EXCEPT ![p] = v]
                /\ {"state", "action"} \subseteq DOMAIN v
                /\ v.state \in {"valid_for_submit", "blocked"} /\ v.action = ""
<1>1. PICK surface \in Surfaces \cup {SyntheticSurface},
        regime \in {"calm", "stressed", "pre_event"}, dampener \in BOOLEAN, book \in LoadBook :
          CreatePreview(p, req)!2!(surface, regime, dampener, book)
  BY DEF CreatePreview
<1> DEFINE s     == StructureOf(req, surface)
           base  == BaseQtyEff(req)
           final == ComputeSizing(base, base, regime, dampener)
           ok    == RunPreSubmitChecks(regime, book, ComputeNetGreeks(s).vega, final, base, MaxBookVega)
           v     == [state |-> IF ok THEN "valid_for_submit" ELSE "blocked", action |-> "",
                     payload |-> Payload(s, base, final, surface.age)]
<1>2. previews' = [previews EXCEPT ![p] = v]
  BY <1>1
<1>3. {"state", "action"} \subseteq DOMAIN v /\ v.state \in {"valid_for_submit", "blocked"} /\ v.action = ""
  OBVIOUS
<1>4. QED
  BY <1>2, <1>3

\* Every step keeps the columns of the previews, and no preview vanishes.
LEMMA PreviewStep ==
  PreviewShapes /\ CallShapes /\ RequestsAreKnown /\ [Next]_vars =>
    PreviewShapes' /\ \A p \in Previews : Exists(p) => Exists(p)'
<1> SUFFICES ASSUME PreviewShapes, CallShapes, RequestsAreKnown, [Next]_vars
             PROVE  PreviewShapes' /\ \A p \in Previews : Exists(p) => Exists(p)'
  OBVIOUS
<1> DEFINE Goal == PreviewShapes' /\ \A p \in Previews : Exists(p) => Exists(p)'
<1> USE DEF PreviewShapes, CallShapes, Exists
<1>1. CASE UNCHANGED previews
  BY <1>1
<1>2. ASSUME NEW c \in Calls, InsertLive(c) PROVE Goal
  BY <1>2 DEF InsertLive, At, MarkSubmitted, RequestsAreKnown
<1>3. ASSUME NEW c \in Calls, CommitMock(c) PROVE Goal
  BY <1>3 DEF CommitMock, At, MarkSubmitted, RequestsAreKnown
<1>4. ASSUME NEW p \in Previews, NEW req \in Requests[p], CreatePreview(p, req) PROVE Goal
  <2>1. PICK v : /\ previews' = [previews EXCEPT ![p] = v]
                 /\ {"state", "action"} \subseteq DOMAIN v
                 /\ v.state \in {"valid_for_submit", "blocked"} /\ v.action = ""
    BY <1>4, CreatedIsOpen
  <2>2. QED
    BY <1>4, <2>1 DEF CreatePreview
<1>5. ASSUME NEW p \in Previews, Expire(p) PROVE Goal
  BY <1>5 DEF Expire
<1>6. ASSUME NEW p \in Previews, CancelWrite(p) PROVE Goal
  BY <1>6 DEF CancelWrite, RequestsAreKnown
<1>7. QED
  BY <1>1, <1>2, <1>3, <1>4, <1>5, <1>6
  DEF Next, Submit, vars, AcquirePreviewLock, SelectForUpdate, Revalidate, RunPretradeGate,
      InsertMock, Dispatch, Answered, ReleasePreviewLock, CancelRead, LockExpires,
      CheckNotHalted, PlaceStructure, OperatorRetries, IbDone, SyncMirror, SetHalt,
      MirrorHalt, ForwardHalt

\* Every step keeps the columns of the calls.
LEMMA CallStep == CallShapes /\ [Next]_vars => CallShapes'
<1> SUFFICES ASSUME CallShapes, [Next]_vars PROVE CallShapes'
  OBVIOUS
<1> USE DEF CallShapes
<1>1. CASE UNCHANGED calls
  BY <1>1
<1>2. ASSUME NEW c \in Calls, NEW p \in Previews, NEW mode \in Modes, AcquirePreviewLock(c, p, mode) PROVE CallShapes'
  BY <1>2 DEF AcquirePreviewLock, At
<1>3. ASSUME NEW c \in Calls, SelectForUpdate(c) PROVE CallShapes'
  BY <1>3 DEF SelectForUpdate, At, Move
<1>4. ASSUME NEW c \in Calls, Revalidate(c) PROVE CallShapes'
  BY <1>4 DEF Revalidate, At, Move, Refuse, Unlock
<1>5. ASSUME NEW c \in Calls, RunPretradeGate(c) PROVE CallShapes'
  BY <1>5 DEF RunPretradeGate, At, Move, Refuse, Unlock
<1>6. ASSUME NEW c \in Calls, InsertLive(c) PROVE CallShapes'
  BY <1>6 DEF InsertLive, At, Move, Refuse, Unlock, MarkSubmitted, NewTrade
<1>7. ASSUME NEW c \in Calls, InsertMock(c) PROVE CallShapes'
  BY <1>7 DEF InsertMock, At, Move, Refuse, Unlock
<1>8. ASSUME NEW c \in Calls, CommitMock(c) PROVE CallShapes'
  BY <1>8 DEF CommitMock, At, Done, Unlock, DoneCall, MarkSubmitted, NewTrade
<1>9. ASSUME NEW c \in Calls, Dispatch(c) PROVE CallShapes'
  BY <1>9 DEF Dispatch, At, Move
<1>10. ASSUME NEW c \in Calls, Answered(c) PROVE CallShapes'
  BY <1>10 DEF Answered, At, Move, Done, DoneCall
<1>11. ASSUME NEW c \in Calls, ReleasePreviewLock(c) PROVE CallShapes'
  BY <1>11 DEF ReleasePreviewLock, At, Done, DoneCall
<1>12. QED
  BY <1>1, <1>2, <1>3, <1>4, <1>5, <1>6, <1>7, <1>8, <1>9, <1>10, <1>11
  DEF Next, Submit, vars, CreatePreview, Expire, CancelRead, CancelWrite, LockExpires,
      CheckNotHalted, PlaceStructure, OperatorRetries, IbDone, SyncMirror, SetHalt,
      MirrorHalt, ForwardHalt

\* Every step keeps the columns of the trades.
LEMMA TradeStep == CallShapes /\ TradeShapes /\ [Next]_vars => TradeShapes'
<1> SUFFICES ASSUME CallShapes, TradeShapes, [Next]_vars PROVE TradeShapes'
  OBVIOUS
<1> USE DEF TradeShapes, CallShapes, Traded
<1>1. CASE UNCHANGED trades
  BY <1>1
<1>2. ASSUME NEW c \in Calls, InsertLive(c) PROVE TradeShapes'
  BY <1>2 DEF InsertLive, At, Move, Refuse, Unlock, MarkSubmitted, NewTrade
<1>3. ASSUME NEW c \in Calls, CommitMock(c) PROVE TradeShapes'
  BY <1>3 DEF CommitMock, At, Done, Unlock, DoneCall, MarkSubmitted, NewTrade
<1>4. ASSUME NEW c \in Calls, Dispatch(c) PROVE TradeShapes'
  BY <1>4 DEF Dispatch, At, Move
<1>5. ASSUME NEW p \in Previews, CheckNotHalted(p) PROVE TradeShapes'
  BY <1>5 DEF CheckNotHalted, Engine
<1>6. ASSUME NEW p \in Previews, PlaceStructure(p) PROVE TradeShapes'
  BY <1>6 DEF PlaceStructure, Engine
<1>7. ASSUME NEW p \in Previews, OperatorRetries(p) PROVE TradeShapes'
  BY <1>7 DEF OperatorRetries, Engine
<1>8. ASSUME NEW p \in Previews, IbDone(p) PROVE TradeShapes'
  BY <1>8 DEF IbDone, Engine
<1>9. ASSUME NEW p \in Previews, SyncMirror(p) PROVE TradeShapes'
  BY <1>9 DEF SyncMirror, Engine
<1>10. CASE ForwardHalt
  BY <1>10 DEF ForwardHalt, CancelAllOpen
<1>11. QED
  BY <1>1, <1>2, <1>3, <1>4, <1>5, <1>6, <1>7, <1>8, <1>9, <1>10
  DEF Next, Submit, vars, AcquirePreviewLock, SelectForUpdate, Revalidate, RunPretradeGate,
      InsertMock, Answered, ReleasePreviewLock, CreatePreview, Expire, CancelRead,
      CancelWrite, LockExpires, SetHalt, MirrorHalt

\* Every step keeps the requests on known previews.
LEMMA KnownStep == OutcomeInv /\ [Next]_vars => RequestsAreKnown'
<1> SUFFICES ASSUME CallShapes, RequestsAreKnown, [Next]_vars,
                    \A p \in Previews : Exists(p) => Exists(p)'
             PROVE  RequestsAreKnown'
  BY PreviewStep DEF OutcomeInv
<1> USE DEF CallShapes, RequestsAreKnown, Exists
<1>1. CASE UNCHANGED <<calls, cancels>>
  BY <1>1
<1>2. ASSUME NEW c \in Calls, NEW p \in Previews, NEW mode \in Modes, AcquirePreviewLock(c, p, mode) PROVE RequestsAreKnown'
  BY <1>2 DEF AcquirePreviewLock, At
<1>3. ASSUME NEW c \in Calls, SelectForUpdate(c) PROVE RequestsAreKnown'
  BY <1>3 DEF SelectForUpdate, At, Move
<1>4. ASSUME NEW c \in Calls, Revalidate(c) PROVE RequestsAreKnown'
  BY <1>4 DEF Revalidate, At, Move, Refuse, Unlock
<1>5. ASSUME NEW c \in Calls, RunPretradeGate(c) PROVE RequestsAreKnown'
  BY <1>5 DEF RunPretradeGate, At, Move, Refuse, Unlock
<1>6. ASSUME NEW c \in Calls, InsertLive(c) PROVE RequestsAreKnown'
  BY <1>6 DEF InsertLive, At, Move, Refuse
<1>7. ASSUME NEW c \in Calls, InsertMock(c) PROVE RequestsAreKnown'
  BY <1>7 DEF InsertMock, At, Move, Refuse, Unlock
<1>8. ASSUME NEW c \in Calls, CommitMock(c) PROVE RequestsAreKnown'
  BY <1>8 DEF CommitMock, At, Done, DoneCall
<1>9. ASSUME NEW c \in Calls, Dispatch(c) PROVE RequestsAreKnown'
  BY <1>9 DEF Dispatch, At, Move
<1>10. ASSUME NEW c \in Calls, Answered(c) PROVE RequestsAreKnown'
  BY <1>10 DEF Answered, At, Move, Done, DoneCall
<1>11. ASSUME NEW c \in Calls, ReleasePreviewLock(c) PROVE RequestsAreKnown'
  BY <1>11 DEF ReleasePreviewLock, At, Done, DoneCall
<1>12. ASSUME NEW p \in Previews, CancelRead(p) PROVE RequestsAreKnown'
  BY <1>12 DEF CancelRead
<1>13. ASSUME NEW p \in Previews, CancelWrite(p) PROVE RequestsAreKnown'
  BY <1>13 DEF CancelWrite
<1>14. QED
  BY <1>1, <1>2, <1>3, <1>4, <1>5, <1>6, <1>7, <1>8, <1>9, <1>10, <1>11, <1>12, <1>13
  DEF Next, Submit, vars, CreatePreview, Expire, LockExpires, CheckNotHalted, PlaceStructure,
      OperatorRetries, IbDone, SyncMirror, SetHalt, MirrorHalt, ForwardHalt

\* Every step leaves a preview's row with the call that is between its SELECT
\* and its commit.
LEMMA HolderStep == OutcomeInv /\ [Next]_vars => HolderOwnsRow'
<1> SUFFICES ASSUME CallShapes, HolderOwnsRow, [Next]_vars PROVE HolderOwnsRow'
  BY DEF OutcomeInv
<1> USE CallsAssumption DEF CallShapes, HolderOwnsRow, Holding
<1>1. CASE UNCHANGED <<calls, row>>
  BY <1>1
<1>2. ASSUME NEW c \in Calls, NEW p \in Previews, NEW mode \in Modes, AcquirePreviewLock(c, p, mode) PROVE HolderOwnsRow'
  BY <1>2 DEF AcquirePreviewLock, At
<1>3. ASSUME NEW c \in Calls, SelectForUpdate(c) PROVE HolderOwnsRow'
  BY <1>3 DEF SelectForUpdate, At, Move
<1>4. ASSUME NEW c \in Calls, Revalidate(c) PROVE HolderOwnsRow'
  BY <1>4 DEF Revalidate, At, Move, Refuse, Unlock
<1>5. ASSUME NEW c \in Calls, RunPretradeGate(c) PROVE HolderOwnsRow'
  BY <1>5 DEF RunPretradeGate, At, Move, Refuse, Unlock
<1>6. ASSUME NEW c \in Calls, InsertLive(c) PROVE HolderOwnsRow'
  BY <1>6 DEF InsertLive, At, Move, Refuse, Unlock
<1>7. ASSUME NEW c \in Calls, InsertMock(c) PROVE HolderOwnsRow'
  BY <1>7 DEF InsertMock, At, Move, Refuse, Unlock
<1>8. ASSUME NEW c \in Calls, CommitMock(c) PROVE HolderOwnsRow'
  BY <1>8 DEF CommitMock, At, Done, Unlock, DoneCall
<1>9. ASSUME NEW c \in Calls, Dispatch(c) PROVE HolderOwnsRow'
  BY <1>9 DEF Dispatch, At, Move
<1>10. ASSUME NEW c \in Calls, Answered(c) PROVE HolderOwnsRow'
  BY <1>10 DEF Answered, At, Move, Done, DoneCall
<1>11. ASSUME NEW c \in Calls, ReleasePreviewLock(c) PROVE HolderOwnsRow'
  BY <1>11 DEF ReleasePreviewLock, At, Done, DoneCall
<1>12. QED
  BY <1>1, <1>2, <1>3, <1>4, <1>5, <1>6, <1>7, <1>8, <1>9, <1>10, <1>11
  DEF Next, Submit, vars, CreatePreview, Expire, CancelRead, CancelWrite, LockExpires,
      CheckNotHalted, PlaceStructure, OperatorRetries, IbDone, SyncMirror, SetHalt,
      MirrorHalt, ForwardHalt

\* A call that asks for the Redis lock goes on to its SELECT or is refused.
LEMMA AcquireMoves ==
  ASSUME NEW c \in Calls, NEW p, NEW mode, DOMAIN calls = Calls, AcquirePreviewLock(c, p, mode)
  PROVE  calls'[c].pc \in {"select", "refused"} /\ \A d \in Calls : d # c => calls'[d] = calls[d]
  BY DEF AcquirePreviewLock

\* A call that awaits the engine's answer is done or refused.
LEMMA AnsweredMoves ==
  ASSUME NEW c \in Calls, DOMAIN calls = Calls, "pc" \in DOMAIN calls[c], Answered(c)
  PROVE  calls'[c].pc \in {"done", "refused"} /\ \A d \in Calls : d # c => calls'[d] = calls[d]
  BY DEF Answered, Done, DoneCall, Move

\* A mock insert goes on to its commit, or is refused as a duplicate.
LEMMA InsertMockMoves ==
  ASSUME NEW c \in Calls, DOMAIN calls = Calls, {"pc", "preview"} \subseteq DOMAIN calls[c], InsertMock(c)
  PROVE  /\ calls'[c].pc \in {"refresh", "refused"} /\ calls'[c].preview = calls[c].preview
         /\ \A d \in Calls : d # c => calls'[d] = calls[d]
<1>1. CASE Traded(calls[c].preview)
  BY <1>1 DEF InsertMock, Refuse, Move
<1>2. CASE ~Traded(calls[c].preview)
  BY <1>2 DEF InsertMock
<1>3. QED
  BY <1>1, <1>2

\* Every step keeps what was revalidated: the expirer and the canceller wait
\* for the row, and a call that submits is the only one past its SELECT.
LEMMA PassedStep == OutcomeInv /\ [Next]_vars => PassedIsOpen'
<1> SUFFICES ASSUME PreviewShapes, CallShapes, RequestsAreKnown, HolderOwnsRow, PassedIsOpen, [Next]_vars,
                    NEW d \in Calls, calls'[d].pc \in Passed
             PROVE  previews'[calls'[d].preview].action = ""
  BY DEF OutcomeInv, PassedIsOpen
<1> DEFINE Goal == previews'[calls'[d].preview].action = ""
<1> USE DEF CallShapes, PassedIsOpen, Passed
<1>1. CASE UNCHANGED <<calls, previews>>
  BY <1>1
<1>2. ASSUME NEW c \in Calls, NEW p \in Previews, NEW mode \in Modes, AcquirePreviewLock(c, p, mode) PROVE Goal
  BY <1>2, AcquireMoves DEF AcquirePreviewLock
<1>3. ASSUME NEW c \in Calls, SelectForUpdate(c) PROVE Goal
  <2>1. calls'[c].pc \notin Passed /\ (d # c => calls'[d] = calls[d])
    BY <1>3 DEF SelectForUpdate, At, Move
  <2>2. UNCHANGED previews
    BY <1>3 DEF SelectForUpdate
  <2>3. QED
    BY <2>1, <2>2
<1>4. ASSUME NEW c \in Calls, Revalidate(c) PROVE Goal
  BY <1>4 DEF Revalidate, At, Move, Refuse, RevalidatePreview
<1>5. ASSUME NEW c \in Calls, RunPretradeGate(c) PROVE Goal
  BY <1>5 DEF RunPretradeGate, At, Move, Refuse
<1>6. ASSUME NEW c \in Calls, InsertLive(c) PROVE Goal
  <2>1. CASE Traded(calls[c].preview)
    BY <1>6, <2>1 DEF InsertLive, At, Move, Refuse
  <2>2. CASE ~Traded(calls[c].preview)
    <3>1. /\ d # c => calls'[d] = calls[d]
          /\ calls'[c].pc \notin Passed /\ calls[c].pc \in Passed
      BY <1>6, <2>2 DEF InsertLive, At, Move
    <3>2. d # c /\ calls[d].pc \in Passed /\ calls'[d] = calls[d]
      BY <3>1
    <3>3. row[calls[c].preview] = c /\ row[calls[d].preview] = d
      BY <3>1, <3>2 DEF HolderOwnsRow, Holding
    <3>4. previews'[calls[d].preview] = previews[calls[d].preview]
      BY <1>6, <2>2, <3>2, <3>3 DEF InsertLive, MarkSubmitted, PreviewShapes
    <3>5. QED
      BY <3>2, <3>4
  <2>3. QED
    BY <2>1, <2>2
<1>7. ASSUME NEW c \in Calls, InsertMock(c) PROVE Goal
  <2>1. /\ calls'[c].preview = calls[c].preview /\ calls[c].pc \in Passed
        /\ \A b \in Calls : b # c => calls'[b] = calls[b]
    <3>1. {"pc", "preview"} \subseteq DOMAIN calls[c]
      BY <1>7 DEF InsertMock, At
    <3>2. QED
      BY <1>7, <3>1, InsertMockMoves DEF InsertMock, At
  <2>2. UNCHANGED previews
    BY <1>7 DEF InsertMock
  <2>3. calls[d].pc \in Passed /\ calls'[d].preview = calls[d].preview
    BY <2>1
  <2>4. QED
    BY <2>2, <2>3
<1>8. ASSUME NEW c \in Calls, CommitMock(c) PROVE Goal
  <2>1. /\ d # c => calls'[d] = calls[d]
        /\ calls'[c].pc \notin Passed /\ calls[c].pc \in Passed
    BY <1>8 DEF CommitMock, At, Done, DoneCall
  <2>2. d # c /\ calls[d].pc \in Passed /\ calls'[d] = calls[d]
    BY <2>1
  <2>3. row[calls[c].preview] = c /\ row[calls[d].preview] = d
    BY <2>1, <2>2 DEF HolderOwnsRow, Holding
  <2>4. previews'[calls[d].preview] = previews[calls[d].preview]
    BY <1>8, <2>2, <2>3 DEF CommitMock, MarkSubmitted, PreviewShapes
  <2>5. QED
    BY <2>2, <2>4
<1>9. ASSUME NEW c \in Calls, Dispatch(c) PROVE Goal
  <2>1. calls'[c].pc \notin Passed /\ (d # c => calls'[d] = calls[d])
    BY <1>9 DEF Dispatch, At, Move
  <2>2. UNCHANGED previews
    BY <1>9 DEF Dispatch
  <2>3. QED
    BY <2>1, <2>2
<1>10. ASSUME NEW c \in Calls, Answered(c) PROVE Goal
  BY <1>10, AnsweredMoves DEF Answered
<1>11. ASSUME NEW c \in Calls, ReleasePreviewLock(c) PROVE Goal
  <2>1. calls'[c].pc \notin Passed /\ (d # c => calls'[d] = calls[d])
    BY <1>11 DEF ReleasePreviewLock, At, Done, DoneCall
  <2>2. UNCHANGED previews
    BY <1>11 DEF ReleasePreviewLock
  <2>3. QED
    BY <2>1, <2>2
<1>12. ASSUME NEW p \in Previews, NEW req \in Requests[p], CreatePreview(p, req) PROVE Goal
  <2>1. PICK v : previews' = [previews EXCEPT ![p] = v] /\ v.action = ""
    BY <1>12, CreatedIsOpen
  <2>2. QED
    BY <1>12, <2>1 DEF CreatePreview, PreviewShapes
<1>13. ASSUME NEW p \in Previews, Expire(p) PROVE Goal
  <2>1. calls[d].pc \in Passed /\ calls'[d] = calls[d] /\ row[p] = NoCall
    BY <1>13 DEF Expire
  <2>2. row[calls[d].preview] = d /\ calls[d].preview # p
    BY <2>1, CallsAssumption DEF HolderOwnsRow, Holding
  <2>3. previews'[calls[d].preview] = previews[calls[d].preview]
    BY <1>13, <2>2 DEF Expire, PreviewShapes
  <2>4. QED
    BY <2>1, <2>3
<1>14. ASSUME NEW p \in Previews, CancelWrite(p) PROVE Goal
  <2>1. calls[d].pc \in Passed /\ calls'[d] = calls[d] /\ row[p] = NoCall
    BY <1>14 DEF CancelWrite
  <2>2. row[calls[d].preview] = d /\ calls[d].preview # p
    BY <2>1, CallsAssumption DEF HolderOwnsRow, Holding
  <2>3. previews'[calls[d].preview] = previews[calls[d].preview]
    BY <1>14, <2>2 DEF CancelWrite, PreviewShapes
  <2>4. QED
    BY <2>1, <2>3
<1>15. QED
  BY <1>1, <1>2, <1>3, <1>4, <1>5, <1>6, <1>7, <1>8, <1>9, <1>10, <1>11, <1>12, <1>13,
     <1>14
  DEF Next, Submit, vars, CancelRead, LockExpires, CheckNotHalted, PlaceStructure,
      OperatorRetries, IbDone, SyncMirror, SetHalt, MirrorHalt, ForwardHalt

\* Only the insert and the commit of a submit create a trade.
LEMMA TradesFromSubmits ==
  CallShapes /\ TradeShapes /\ [Next]_vars =>
    \/ \E c \in Calls : InsertLive(c) \/ CommitMock(c)
    \/ \A p \in Previews : Traded(p)' => Traded(p)
<1> SUFFICES ASSUME CallShapes, TradeShapes, [Next]_vars, \A c \in Calls : ~InsertLive(c) /\ ~CommitMock(c)
             PROVE  \A p \in Previews : Traded(p)' => Traded(p)
  OBVIOUS
<1> DEFINE Goal == \A p \in Previews : Traded(p)' => Traded(p)
<1> USE DEF TradeShapes, CallShapes, Traded
<1>1. CASE UNCHANGED trades
  BY <1>1
<1>2. ASSUME NEW c \in Calls, Dispatch(c) PROVE Goal
  BY <1>2 DEF Dispatch, At, Move
<1>3. ASSUME NEW p \in Previews, CheckNotHalted(p) PROVE Goal
  BY <1>3 DEF CheckNotHalted, Engine
<1>4. ASSUME NEW p \in Previews, PlaceStructure(p) PROVE Goal
  BY <1>4 DEF PlaceStructure, Engine
<1>5. ASSUME NEW p \in Previews, OperatorRetries(p) PROVE Goal
  BY <1>5 DEF OperatorRetries, Engine
<1>6. ASSUME NEW p \in Previews, IbDone(p) PROVE Goal
  BY <1>6 DEF IbDone, Engine
<1>7. ASSUME NEW p \in Previews, SyncMirror(p) PROVE Goal
  BY <1>7 DEF SyncMirror, Engine
<1>8. CASE ForwardHalt
  BY <1>8 DEF ForwardHalt, CancelAllOpen
<1>9. QED
  BY <1>1, <1>2, <1>3, <1>4, <1>5, <1>6, <1>7, <1>8
  DEF Next, Submit, vars, AcquirePreviewLock, SelectForUpdate, Revalidate, RunPretradeGate,
      InsertLive, InsertMock, CommitMock, Answered, ReleasePreviewLock, CreatePreview,
      Expire, CancelRead, CancelWrite, LockExpires, SetHalt, MirrorHalt

\* Every step keeps the previews that have a trade settled.
LEMMA SettledStep == OutcomeInv /\ [Next]_vars => TradedIsSettled'
<1> SUFFICES ASSUME PreviewShapes, CallShapes, TradeShapes, RequestsAreKnown, TradedIsSettled, [Next]_vars
             PROVE  TradedIsSettled'
  BY DEF OutcomeInv
<1> USE DEF PreviewShapes, CallShapes, TradeShapes, TradedIsSettled, Exists
<1>1. ASSUME NEW c \in Calls, InsertLive(c) PROVE TradedIsSettled'
  <2>1. CASE Traded(calls[c].preview)
    BY <1>1, <2>1 DEF InsertLive, Traded
  <2>2. CASE ~Traded(calls[c].preview)
    <3>1. /\ calls[c].preview \in Previews /\ Exists(calls[c].preview)
          /\ previews' = [previews EXCEPT ![calls[c].preview].action = "submitted",
                                          ![calls[c].preview].state = "submitted"]
          /\ \A p \in Previews : p # calls[c].preview => trades'[p] = trades[p]
      BY <1>1, <2>2 DEF InsertLive, At, MarkSubmitted, RequestsAreKnown, CallShapes
    <3>2. QED
      BY <3>1 DEF Traded
  <2>3. QED
    BY <2>1, <2>2
<1>2. ASSUME NEW c \in Calls, CommitMock(c) PROVE TradedIsSettled'
  BY <1>2 DEF CommitMock, At, MarkSubmitted, RequestsAreKnown, Traded
<1>3. ASSUME \A p \in Previews : Traded(p)' => Traded(p), UNCHANGED previews PROVE TradedIsSettled'
  BY <1>3
<1>4. ASSUME NEW p \in Previews, NEW req \in Requests[p], CreatePreview(p, req) PROVE TradedIsSettled'
  <2>1. PICK v : previews' = [previews EXCEPT ![p] = v]
    BY <1>4, CreatedIsOpen
  <2>2. QED
    BY <1>4, <2>1 DEF CreatePreview, Traded
<1>5. ASSUME NEW p \in Previews, Expire(p) PROVE TradedIsSettled'
  BY <1>5 DEF Expire, Traded
<1>6. ASSUME NEW p \in Previews, CancelWrite(p) PROVE TradedIsSettled'
  BY <1>6 DEF CancelWrite, RequestsAreKnown, Traded
<1>7. QED
  BY <1>1, <1>2, <1>3, <1>4, <1>5, <1>6, TradesFromSubmits
  DEF Next, Submit, vars, AcquirePreviewLock, SelectForUpdate, Revalidate, RunPretradeGate,
      InsertMock, Dispatch, Answered, ReleasePreviewLock, CancelRead, LockExpires,
      CheckNotHalted, PlaceStructure, OperatorRetries, IbDone, SyncMirror, SetHalt,
      MirrorHalt, ForwardHalt

\* Every step keeps the halt quiet.
LEMMA HaltStep == HaltInv /\ [Next]_vars => HaltInv'
<1> SUFFICES ASSUME CallShapes, TradeShapes, AdminShape, QuietHaltAdmitsNothing, [Next]_vars
             PROVE  AdminShape' /\ QuietHaltAdmitsNothing'
  BY CallStep, TradeStep DEF HaltInv
<1> DEFINE Goal == AdminShape' /\ QuietHaltAdmitsNothing'
<1> USE DEF CallShapes, TradeShapes, AdminShape, QuietHaltAdmitsNothing, halted, Traded
<1>1. CASE UNCHANGED <<trades, flips, admin>>
  BY <1>1
<1>2. ASSUME NEW c \in Calls, InsertLive(c) PROVE Goal
  BY <1>2 DEF InsertLive, At, Move, Refuse, Unlock, NewTrade
<1>3. ASSUME NEW c \in Calls, CommitMock(c) PROVE Goal
  BY <1>3 DEF CommitMock, At, Done, Unlock, DoneCall, NewTrade
<1>4. ASSUME NEW c \in Calls, Dispatch(c) PROVE Goal
  BY <1>4 DEF Dispatch, At, Move
<1>5. ASSUME NEW p \in Previews, CheckNotHalted(p) PROVE Goal
  BY <1>5 DEF CheckNotHalted, Engine
<1>6. ASSUME NEW p \in Previews, PlaceStructure(p) PROVE Goal
  BY <1>6 DEF PlaceStructure, Engine
<1>7. ASSUME NEW p \in Previews, OperatorRetries(p) PROVE Goal
  BY <1>7 DEF OperatorRetries, Engine
<1>8. ASSUME NEW p \in Previews, IbDone(p) PROVE Goal
  BY <1>8 DEF IbDone, Engine
<1>9. ASSUME NEW p \in Previews, SyncMirror(p) PROVE Goal
  BY <1>9 DEF SyncMirror, Engine
<1>10. CASE SetHalt
  BY <1>10 DEF SetHalt
<1>11. CASE MirrorHalt
  BY <1>11 DEF MirrorHalt
<1>12. CASE ForwardHalt
  BY <1>12 DEF ForwardHalt, CancelAllOpen
<1>13. QED
  BY <1>1, <1>2, <1>3, <1>4, <1>5, <1>6, <1>7, <1>8, <1>9, <1>10, <1>11, <1>12
  DEF Next, Submit, vars, AcquirePreviewLock, SelectForUpdate, Revalidate, RunPretradeGate,
      InsertMock, Answered, ReleasePreviewLock, CreatePreview, Expire, CancelRead,
      CancelWrite, LockExpires

\* OutcomeInv is an invariant of the desk.
LEMMA OutcomeInvariance == Spec => []OutcomeInv
<1>1. OutcomeInv /\ [Next]_vars => OutcomeInv'
  BY PreviewStep, CallStep, TradeStep, KnownStep, HolderStep, PassedStep, SettledStep DEF OutcomeInv
<1>2. QED
  BY InitInvs, <1>1, PTL DEF Spec

-----------------------------------------------------------------------------
\* A preview has one outcome, for any number of concurrent submits, expiries
\* and cancellations: the row lock of _submit_locked alone serialises them.
THEOREM OneOutcomeHolds == Spec => []OneOutcome
<1>1. OutcomeInv => OneOutcome
  BY DEF OutcomeInv, CallShapes, PassedIsOpen, Passed, TradedIsSettled, OneOutcome
<1>2. QED
  BY OutcomeInvariance, <1>1, PTL

\* A call that reached the gate of _submit_locked holds its preview's row, alone,
\* and the preview it revalidated still has no action.
THEOREM RowLockSerialises == Spec => [](HolderOwnsRow /\ PassedIsOpen)
<1>1. OutcomeInv => HolderOwnsRow /\ PassedIsOpen
  BY DEF OutcomeInv
<1>2. QED
  BY OutcomeInvariance, <1>1, PTL

\* Once a cancel-all went through with nothing admitted by require_not_halted,
\* nothing is placed at IB until the switch is reset.
THEOREM QuietHaltHoldsAlways == Spec => []QuietHaltHolds
<1>1. HaltInv => QuietHaltHolds
  BY DEF HaltInv, QuietHaltAdmitsNothing, QuietHaltHolds
<1>2. QED
  BY InitInvs, HaltStep, <1>1, PTL DEF Spec

-----------------------------------------------------------------------------
(* Sums over the legs, as Total adds them up *)

\* Induction over the naturals, for a set instead of a predicate: a number outside it
\* would have a least one.
LEMMA NatSetInduction ==
  ASSUME NEW P \in SUBSET Nat, 0 \in P, \A n \in P : n + 1 \in P
  PROVE  P = Nat
<1> SUFFICES ASSUME Nat \ P # {} PROVE FALSE
  OBVIOUS
<1> DEFINE T == Nat \ P
<1>1. PICK x \in T : \A y \in T : <<y, x>> \notin OpToRel(<, Nat)
  <2>1. IsWellFoundedOn(OpToRel(<, Nat), Nat)
    BY NatLessThanWellFounded
  <2>2. T \subseteq Nat /\ T # {}
    OBVIOUS
  <2>3. \E x \in T : \A y \in T : ~(<<y, x>> \in OpToRel(<, Nat))
    BY <2>1, <2>2, WFMin
  <2>4. QED
    BY <2>3
<1>2. x # 0 /\ x - 1 \in Nat
  OBVIOUS
<1>3. <<x - 1, x>> \in OpToRel(<, Nat)
  BY <1>2 DEF OpToRel
<1>4. x - 1 \in P
  BY <1>1, <1>2, <1>3
<1>5. QED
  BY <1>4, <1>2

\* The function of partial sums that Total chooses.
IsTotal(s, n, f) == s = [k \in 0..n |-> IF k = 0 THEN 0 ELSE s[k - 1] + f[k]]

\* There is one, for every number of summands.
LEMMA TotalExists ==
  ASSUME NEW n \in Nat, NEW f
  PROVE  \E s : IsTotal(s, n, f)
<1> DEFINE P == {m \in Nat : \E s : IsTotal(s, m, f)}
<1>1. 0 \in P
  <2>1. IsTotal([k \in 0..0 |-> 0], 0, f)
    BY DEF IsTotal
  <2>2. QED
    BY <2>1
<1>2. ASSUME NEW m \in P PROVE m + 1 \in P
  <2>1. PICK s : IsTotal(s, m, f)
    OBVIOUS
  <2>2. m \in Nat
    OBVIOUS
  <2> DEFINE t == [k \in 0..(m + 1) |-> IF k = m + 1 THEN s[m] + f[m + 1] ELSE s[k]]
             u == [k \in 0..(m + 1) |-> IF k = 0 THEN 0 ELSE t[k - 1] + f[k]]
  <2>3. ASSUME NEW k \in 0..(m + 1) PROVE t[k] = u[k]
    <3>1. CASE k = m + 1
      <4>1. t[k] = s[m] + f[k] /\ k # 0 /\ k - 1 = m /\ k - 1 \in 0..(m + 1) /\ k - 1 # m + 1
        BY <2>2, <3>1
      <4>2. t[k - 1] = s[m]
        BY <4>1
      <4>3. QED
        BY <4>1, <4>2
    <3>2. CASE k # m + 1
      <4>1. k \in 0..m /\ t[k] = s[k]
        BY <2>2, <3>2
      <4>2. s[k] = IF k = 0 THEN 0 ELSE s[k - 1] + f[k]
        BY <2>1, <4>1 DEF IsTotal
      <4>3. k # 0 => k - 1 \in 0..(m + 1) /\ k - 1 # m + 1 /\ t[k - 1] = s[k - 1]
        BY <2>2, <4>1
      <4>4. QED
        BY <4>1, <4>2, <4>3
    <3>3. QED
      BY <3>1, <3>2
  <2>4. t = u
    BY <2>3
  <2>5. IsTotal(t, m + 1, f)
    BY <2>4 DEF IsTotal
  <2>6. QED
    BY <2>2, <2>5
<1>3. P = Nat
  <2>1. P \in SUBSET Nat
    OBVIOUS
  <2> HIDE DEF P
  <2>2. QED
    BY <2>1, <1>1, <1>2, NatSetInduction
<1>4. QED
  BY <1>3

\* Total is the last of the partial sums.
LEMMA TotalIs ==
  ASSUME NEW n \in Nat, NEW f
  PROVE  \E s : IsTotal(s, n, f) /\ Total(n, f) = s[n]
<1> DEFINE s == CHOOSE s : s = [k \in 0..n |-> IF k = 0 THEN 0 ELSE s[k - 1] + f[k]]
<1>1. IsTotal(s, n, f)
  <2>1. \E t : t = [k \in 0..n |-> IF k = 0 THEN 0 ELSE t[k - 1] + f[k]]
    BY TotalExists DEF IsTotal
  <2>2. s = [k \in 0..n |-> IF k = 0 THEN 0 ELSE s[k - 1] + f[k]]
    BY <2>1
  <2>3. QED
    BY <2>2 DEF IsTotal
<1>2. Total(n, f) = s[n]
  BY DEF Total
<1>3. QED
  BY <1>1, <1>2

\* Multiplication distributes over addition.
LEMMA Distributes ==
  ASSUME NEW q \in Int, NEW a \in Int, NEW b \in Int
  PROVE  q * (a + b) = q * a + q * b
  OBVIOUS

\* A common factor can be taken out of a sum.
LEMMA TotalScales ==
  ASSUME NEW n \in Nat, NEW q \in Int, NEW f, NEW g,
         \A k \in 1..n : f[k] \in Int /\ g[k] = q * f[k]
  PROVE  Total(n, g) = q * Total(n, f) /\ Total(n, f) \in Int
<1>1. PICK s : IsTotal(s, n, f) /\ Total(n, f) = s[n]
  BY TotalIs
<1>2. PICK t : IsTotal(t, n, g) /\ Total(n, g) = t[n]
  BY TotalIs
<1>3. /\ s[0] = 0 /\ t[0] = 0
      /\ \A k \in 1..n : s[k] = s[k - 1] + f[k] /\ t[k] = t[k - 1] + g[k]
  BY <1>1, <1>2 DEF IsTotal
<1> DEFINE P == {m \in Nat : m <= n => s[m] \in Int /\ t[m] = q * s[m]}
<1>4. 0 \in P
  BY <1>3
<1>5. ASSUME NEW m \in P PROVE m + 1 \in P
  <2>1. CASE m + 1 <= n
    <3>1. m \in Nat /\ m + 1 \in 1..n /\ (m + 1) - 1 = m /\ s[m] \in Int /\ t[m] = q * s[m]
      BY <2>1
    <3>2. s[m + 1] = s[m] + f[m + 1] /\ t[m + 1] = t[m] + g[m + 1]
      BY <1>3, <3>1
    <3>3. f[m + 1] \in Int /\ g[m + 1] = q * f[m + 1]
      BY <3>1
    <3>4. s[m + 1] \in Int
      BY <3>1, <3>2, <3>3
    <3>5. t[m + 1] = q * s[m + 1]
      <4>1. q * (s[m] + f[m + 1]) = q * s[m] + q * f[m + 1]
        BY <3>1, <3>3, Distributes
      <4>2. QED
        BY <3>1, <3>2, <3>3, <4>1
    <3>6. QED
      BY <3>1, <3>4, <3>5
  <2>2. CASE ~(m + 1 <= n)
    BY <2>2
  <2>3. QED
    BY <2>1, <2>2
<1>6. n \in P
  <2>1. P \in SUBSET Nat
    OBVIOUS
  <2> HIDE DEF P
  <2>2. QED
    BY <2>1, <1>4, <1>5, NatSetInduction
<1>7. QED
  BY <1>1, <1>2, <1>6

\* A function on 1..n is a sequence of length n.
LEMMA SequenceOf ==
  ASSUME NEW n \in Nat, NEW f, f = [i \in 1..n |-> f[i]]
  PROVE  Len(f) = n /\ DOMAIN f = 1..n
<1> DEFINE S == {f[i] : i \in 1..n}
<1>1. DOMAIN f = 1..n
  OBVIOUS
<1>2. f \in [1..n -> S]
  OBVIOUS
<1>3. f \in Seq(S)
  BY <1>2
<1>4. QED
  BY <1>1, <1>3

\* A factor moves out of a product.
LEMMA Associates ==
  ASSUME NEW q \in Int, NEW a \in Int, NEW b \in Int, NEW c \in Int
  PROVE  a * (q * b) * c = q * (a * b * c)
  OBVIOUS

\* The vega table holds integers.
LEMMA BsVegaType ==
  ASSUME NEW tenor \in DOMAIN DTE, NEW strike
  PROVE  BsVega(tenor, strike) \in Int
<1>1. DTE[tenor] \in Int
  BY DEF DTE
<1>2. DTE[tenor] \div 30 \in Int
  BY <1>1
<1>3. (CASE strike = "atm" -> 4 [] strike \in {"25dp", "25dc"} -> 3 [] OTHER -> 2) \in Int
  OBVIOUS
<1>4. QED
  BY <1>2, <1>3 DEF BsVega

\* A leg with whole contracts, whose cell, if it has one, is on the grid.
GoodLeg(l) == l.factor \in Int /\ l.iv \in BOOLEAN /\ (l.iv => l.tenor \in DOMAIN DTE)

\* An order of q structures carries q times the vega of its leg, if the leg is a
\* contract with an IV or no option contract at all.
LEMMA OrderScales ==
  ASSUME NEW l, GoodLeg(l), Struck(l) => Priced(l), NEW q \in Int, NEW size
  PROVE  /\ LegGreeks(l, size).vega \in Int
         /\ OrderVega(Sized(l, q)) = q * LegGreeks(l, size).vega
<1> DEFINE o == Sized(l, q)
<1>1. /\ o.type = l.type /\ o.strike = l.strike /\ o.iv = l.iv /\ o.tenor = l.tenor
      /\ o.side = l.side /\ o.qty = q * l.factor
  BY DEF Sized
<1> HIDE DEF o
<1>2. Sign(o) = Sign(l) /\ Sign(l) \in Int /\ (Struck(o) <=> Priced(l))
  BY <1>1 DEF Sign, Priced, Struck
<1>3. CASE Priced(l)
  <2>1. l.type # "future" /\ l.tenor \in DOMAIN DTE
    BY <1>3 DEF Priced, GoodLeg
  <2>2. LegGreeks(l, size).vega = Sign(l) * l.factor * BsVega(l.tenor, l.strike)
    BY <1>3, <2>1 DEF LegGreeks
  <2>3. BsVega(l.tenor, l.strike) \in Int /\ l.factor \in Int
    BY <2>1, BsVegaType DEF GoodLeg
  <2>4. OrderVega(o) = Sign(l) * (q * l.factor) * BsVega(l.tenor, l.strike)
    BY <1>1, <1>2, <1>3 DEF OrderVega
  <2>5. Sign(l) * (q * l.factor) * BsVega(l.tenor, l.strike)
          = q * (Sign(l) * l.factor * BsVega(l.tenor, l.strike))
    BY <1>2, <2>3, Associates
  <2>6. Sign(l) * l.factor * BsVega(l.tenor, l.strike) \in Int
    BY <1>2, <2>3
  <2>7. QED
    BY <2>2, <2>4, <2>5, <2>6 DEF o
<1>4. CASE ~Priced(l)
  <2>1. LegGreeks(l, size).vega = 0
    BY <1>4 DEF LegGreeks
  <2>2. OrderVega(o) = 0
    BY <1>2, <1>4 DEF OrderVega
  <2>3. QED
    BY <2>1, <2>2 DEF o
<1>5. QED
  BY <1>3, <1>4

\* A sequence of such legs.
GoodLegs(legs) ==
  /\ Len(legs) \in Nat /\ DOMAIN legs = 1..Len(legs)
  /\ \A i \in DOMAIN legs : GoodLeg(legs[i])

\* The orders of a payload carry the vega the payload states, when the size that was
\* traded is the size that was judged and every contract has an IV.
LEMMA PayloadScales ==
  ASSUME NEW s, GoodLegs(s.legs), NEW q \in Int, NEW age,
         \A i \in DOMAIN s.legs : Struck(s.legs[i]) => Priced(s.legs[i])
  PROVE  OrdersVega(Payload(s, q, q, age)) = Payload(s, q, q, age).vega
<1> DEFINE n    == Len(s.legs)
           unit == [i \in DOMAIN s.legs |-> LegGreeks(s.legs[i], s.size)]
           f    == [i \in DOMAIN s.legs |-> unit[i].vega]
           legs == [i \in DOMAIN s.legs |-> Sized(s.legs[i], q)]
           g    == [i \in DOMAIN legs |-> OrderVega(legs[i])]
<1>1. n \in Nat /\ DOMAIN s.legs = 1..n
      /\ \A i \in 1..n : GoodLeg(s.legs[i]) /\ (Struck(s.legs[i]) => Priced(s.legs[i]))
  BY DEF GoodLegs
<1>2. ComputeNetGreeks(s).vega = Total(n, f)
  BY DEF ComputeNetGreeks
<1>3. Payload(s, q, q, age).vega = Total(n, f) * q /\ Payload(s, q, q, age).legs = legs
  BY <1>2 DEF Payload
<1>4. Len(legs) = n
  BY <1>1, SequenceOf
<1>5. OrdersVega(Payload(s, q, q, age)) = Total(n, g)
  BY <1>3, <1>4 DEF OrdersVega
<1>6. \A i \in 1..n : f[i] \in Int /\ g[i] = q * f[i]
  <2> SUFFICES ASSUME NEW i \in 1..n PROVE f[i] \in Int /\ g[i] = q * f[i]
    OBVIOUS
  <2>1. f[i] = LegGreeks(s.legs[i], s.size).vega /\ g[i] = OrderVega(Sized(s.legs[i], q))
    BY <1>1
  <2>2. QED
    BY <1>1, <2>1, OrderScales
<1> HIDE DEF n, f, g
<1>7. Total(n, g) = q * Total(n, f) /\ Total(n, f) \in Int
  BY <1>1, <1>6, TotalScales
<1>8. QED
  BY <1>3, <1>5, <1>7

-----------------------------------------------------------------------------
(* What the structure builder returns *)

\* Each template is a sequence of legs with whole weights.
LEMMA TemplatesAreGood ==
  ASSUME NEW name \in DOMAIN TEMPLATES
  PROVE  \E n \in Nat : /\ DOMAIN TEMPLATES[name] = 1..n
                        /\ \A i \in 1..n : TEMPLATES[name][i].factor \in Int
<1>1. CASE name \in {"future_buy", "future_sell", "vanilla_call", "short_vanilla_call", "vanilla_put", "short_vanilla_put"}
  <2>1. \E l : TEMPLATES[name] = <<l>> /\ l.factor \in Int
    BY <1>1 DEF TEMPLATES, L
  <2>2. QED
    BY <2>1
<1>2. CASE name \in {"straddle_atm", "short_strangle", "short_straddle_atm", "long_strangle_25d"}
  <2>1. \E l, m : TEMPLATES[name] = <<l, m>> /\ l.factor \in Int /\ m.factor \in Int
    BY <1>2 DEF TEMPLATES, L
  <2>2. QED
    BY <2>1
<1>3. CASE name \in {"calendar_long", "calendar_short"}
  <2>1. \E l, m : TEMPLATES[name] = <<l, m>> /\ l.factor \in Int /\ m.factor \in Int
    BY <1>3 DEF TEMPLATES, L, Far
  <2>2. QED
    BY <2>1
<1>4. CASE name \in {"long_butterfly_25d", "short_butterfly_25d"}
  <2>1. \E k, l, m : TEMPLATES[name] = <<k, l, m>> /\ k.factor \in Int /\ l.factor \in Int /\ m.factor \in Int
    BY <1>4 DEF TEMPLATES, L, Body
  <2>2. QED
    BY <2>1
<1>5. QED
  BY <1>1, <1>2, <1>3, <1>4 DEF TEMPLATES

\* A surface has cells for the display tenors only.
LEMMA CellsAreOnGrid ==
  ASSUME NEW surface \in Surfaces \cup {SyntheticSurface}, NEW tenor, NEW pillar, <<tenor, pillar>> \in surface.iv
  PROVE  tenor \in DOMAIN DTE
<1>1. surface.iv \subseteq (DOMAIN DTE) \X DELTA_PILLARS
  BY SurfacesAssumption DEF SyntheticSurface
<1>2. <<tenor, pillar>> \in (DOMAIN DTE) \X DELTA_PILLARS
  BY <1>1
<1>3. QED
  BY <1>2

\* A leg built with a cell of the surface, or without one.
LEMMA LegIsGood ==
  ASSUME NEW type, NEW tenor, NEW strike, NEW iv \in BOOLEAN, NEW side, NEW factor \in Int,
         iv => tenor \in DOMAIN DTE
  PROVE  GoodLeg(Leg(type, tenor, strike, iv, side, factor))
  BY DEF GoodLeg, Leg

\* build_structure: the legs of a template on any surface.
LEMMA BuiltIsGood ==
  ASSUME NEW req, req.template \in DOMAIN TEMPLATES, NEW surface \in Surfaces \cup {SyntheticSurface}
  PROVE  GoodLegs(BuildStructure(req, surface).legs)
<1> DEFINE tpl == TEMPLATES[req.template]
           Pillar(lt) == IF req.pillar # "" /\ ~lt.fixed THEN MirrorPillar(req.pillar, lt.pillar, lt.type) ELSE lt.pillar
           Tenor(lt) == ResolveTenor(lt, req.near, req.far)
           Cell(lt) == <<Tenor(lt), Pillar(lt)>> \in surface.iv
           Strike(lt) == IF Len(tpl) = 1 /\ req.strike # "" THEN req.strike ELSE IF Cell(lt) THEN Pillar(lt) ELSE Unpriced
           Built(lt) == IF lt.type = "future" THEN Leg("future", Tenor(lt), Unpriced, FALSE, lt.side, lt.factor)
                        ELSE Leg(lt.type, Tenor(lt), Strike(lt), Cell(lt), lt.side, lt.factor)
           legs == [i \in DOMAIN tpl |-> Built(tpl[i])]
<1>1. BuildStructure(req, surface).legs = legs
  BY DEF BuildStructure
<1>2. PICK n \in Nat : DOMAIN tpl = 1..n /\ \A i \in 1..n : tpl[i].factor \in Int
  BY TemplatesAreGood
<1>3. ASSUME NEW lt, lt.factor \in Int PROVE GoodLeg(Built(lt))
  <2>1. CASE lt.type = "future"
    <3>1. Built(lt) = Leg("future", Tenor(lt), Unpriced, FALSE, lt.side, lt.factor)
      BY <2>1
    <3> HIDE DEF Tenor, Built
    <3>2. QED
      BY <1>3, <3>1, LegIsGood
  <2>2. CASE lt.type # "future"
    <3>1. Built(lt) = Leg(lt.type, Tenor(lt), Strike(lt), Cell(lt), lt.side, lt.factor)
      BY <2>2
    <3>2. Cell(lt) \in BOOLEAN
      OBVIOUS
    <3>3. Cell(lt) => Tenor(lt) \in DOMAIN DTE
      <4> HIDE DEF Tenor, Pillar
      <4>1. QED
        BY CellsAreOnGrid
    <3> HIDE DEF Tenor, Built, Strike, Cell
    <3>4. QED
      BY <1>3, <3>1, <3>2, <3>3, LegIsGood
  <2>3. QED
    BY <2>1, <2>2
<1> HIDE DEF Built, tpl
<1>4. Len(legs) = n /\ DOMAIN legs = 1..n
  BY <1>2, SequenceOf
<1>5. \A i \in 1..n : GoodLeg(legs[i])
  BY <1>2, <1>3
<1>6. QED
  BY <1>1, <1>4, <1>5 DEF GoodLegs

\* build_from_legs: the free legs of the ticket on any surface, snapped or not.
LEMMA FreeIsGood ==
  ASSUME NEW specs, NEW surface \in Surfaces \cup {SyntheticSurface},
         DOMAIN specs = 1..Len(specs), Len(specs) \in Nat, \A i \in DOMAIN specs : specs[i].factor \in Int
  PROVE  GoodLegs(BuildFromLegs(specs, surface).legs)
<1> DEFINE n == Len(specs)
           Tenor(s) == SnapTenor(s.tenor, surface)
           Cell(s) == <<Tenor(s), s.pillar>> \in surface.iv
           Strike(s) == IF s.strike # "" THEN s.strike ELSE IF Cell(s) THEN s.pillar ELSE Unpriced
           Built(s) == IF s.type = "future" THEN Leg("future", s.tenor, Unpriced, FALSE, s.side, s.factor)
                       ELSE Leg(s.type, Tenor(s), Strike(s), Cell(s), s.side, s.factor)
           legs == [i \in DOMAIN specs |-> Built(specs[i])]
<1>1. BuildFromLegs(specs, surface).legs = legs
  BY DEF BuildFromLegs
<1>3. ASSUME NEW s, s.factor \in Int PROVE GoodLeg(Built(s))
  <2>1. CASE s.type = "future"
    <3>1. Built(s) = Leg("future", s.tenor, Unpriced, FALSE, s.side, s.factor)
      BY <2>1
    <3> HIDE DEF Built
    <3>2. QED
      BY <1>3, <3>1, LegIsGood
  <2>2. CASE s.type # "future"
    <3>1. Built(s) = Leg(s.type, Tenor(s), Strike(s), Cell(s), s.side, s.factor)
      BY <2>2
    <3>2. Cell(s) \in BOOLEAN
      OBVIOUS
    <3>3. Cell(s) => Tenor(s) \in DOMAIN DTE
      <4> HIDE DEF Tenor
      <4>1. QED
        BY CellsAreOnGrid
    <3> HIDE DEF Tenor, Built, Strike, Cell
    <3>4. QED
      BY <1>3, <3>1, <3>2, <3>3, LegIsGood
  <2>3. QED
    BY <2>1, <2>2
<1> HIDE DEF Built
<1>4. Len(legs) = n /\ DOMAIN legs = 1..n
  <2>1. DOMAIN specs = 1..n /\ n \in Nat
    OBVIOUS
  <2> HIDE DEF n
  <2>2. QED
    BY <2>1, SequenceOf
<1>5. \A i \in DOMAIN specs : GoodLeg(legs[i])
  BY <1>3
<1>6. QED
  BY <1>1, <1>4, <1>5 DEF GoodLegs

\* The manual path trades a positive quantity as it was asked for, whatever the regime.
LEMMA JudgedAtSize ==
  ASSUME NEW base \in Int, base > 0, NEW regime, NEW dampener
  PROVE  ComputeSizing(base, base, regime, dampener) = base
  BY DEF ComputeSizing

\* The vega of a record's orders, and whether its contracts have an IV, depend on its
\* legs alone.
LEMMA SameLegsSameVega ==
  ASSUME NEW s, NEW t, s.legs = t.legs
  PROVE  OrdersVega(s) = OrdersVega(t) /\ (IvForEveryStrike(s) <=> IvForEveryStrike(t))
  BY DEF OrdersVega, IvForEveryStrike

-----------------------------------------------------------------------------
(* What the gate judged *)

\* The payload of a preview, and the structure made from it, state the vega their
\* legs carry, when base_qty is positive and every contract had an IV.
Truthful(t, vega) == t.base_qty > 0 /\ IvForEveryStrike(t) => vega = OrdersVega(t)
PayloadsAreTrue ==
  \A p \in Previews : Exists(p) =>
    "payload" \in DOMAIN previews[p] /\ Truthful(previews[p].payload, previews[p].payload.vega)
JUDGED == {"legs", "judged", "base_qty"}
TradesAreJudged ==
  \A p \in Previews : Traded(p) =>
    JUDGED \subseteq DOMAIN trades[p] /\ Truthful(trades[p], trades[p].judged)

\* A new preview states the vega of its orders.
LEMMA CreatedIsTrue ==
  ASSUME NEW p \in Previews, NEW req \in Requests[p], CreatePreview(p, req)
  PROVE  \E v : /\ previews' = [previews EXCEPT ![p] = v]
                /\ "payload" \in DOMAIN v /\ Truthful(v.payload, v.payload.vega)
<1>1. PICK surface \in Surfaces \cup {SyntheticSurface},
        regime \in {"calm", "stressed", "pre_event"}, dampener \in BOOLEAN, book \in LoadBook :
          CreatePreview(p, req)!2!(surface, regime, dampener, book)
  BY DEF CreatePreview
<1> DEFINE s     == StructureOf(req, surface)
           base  == BaseQtyEff(req)
           final == ComputeSizing(base, base, regime, dampener)
           ok    == RunPreSubmitChecks(regime, book, ComputeNetGreeks(s).vega, final, base, MaxBookVega)
           v     == [state |-> IF ok THEN "valid_for_submit" ELSE "blocked", action |-> "",
                     payload |-> Payload(s, base, final, surface.age)]
<1>2. previews' = [previews EXCEPT ![p] = v] /\ (req.legs = <<>> \/ ValidLegs(req.legs))
  BY <1>1
<1>3. /\ req.qty \in Int /\ (req.legs = <<>> => req.template \in DOMAIN TEMPLATES)
      /\ DOMAIN req.legs = 1..Len(req.legs) /\ Len(req.legs) \in Nat
      /\ \A i \in DOMAIN req.legs : req.legs[i].factor \in Int
  BY RequestsAssumption
<1>4. GoodLegs(s.legs)
  <2>1. CASE req.legs = <<>>
    BY <1>3, <2>1, BuiltIsGood DEF StructureOf
  <2>2. CASE req.legs # <<>>
    <3>1. s = BuildFromLegs(req.legs, surface)
      BY <2>2 DEF StructureOf
    <3>2. QED
      BY <1>3, <3>1, FreeIsGood
  <2>3. QED
    BY <2>1, <2>2
<1>5. base \in Int
  BY <1>3, DeskAssumption DEF BaseQtyEff
<1>6. base > 0 => final = base
  BY <1>5, JudgedAtSize
<1> HIDE DEF s, final, base
<1>7. /\ v.payload = Payload(s, base, final, surface.age) /\ "payload" \in DOMAIN v
      /\ v.payload.base_qty = base /\ v.payload.legs = [i \in DOMAIN s.legs |-> Sized(s.legs[i], final)]
  BY DEF Payload
<1>8. Truthful(v.payload, v.payload.vega)
  <2> HIDE DEF v
  <2> SUFFICES ASSUME base > 0, IvForEveryStrike(v.payload) PROVE v.payload.vega = OrdersVega(v.payload)
    BY <1>7 DEF Truthful
  <2>1. \A i \in DOMAIN s.legs : Struck(s.legs[i]) => Priced(s.legs[i])
    <3> SUFFICES ASSUME NEW i \in DOMAIN s.legs, Struck(s.legs[i]) PROVE Priced(s.legs[i])
      OBVIOUS
    <3>1. v.payload.legs[i] = Sized(s.legs[i], final) /\ i \in DOMAIN v.payload.legs
      BY <1>7
    <3>2. Struck(Sized(s.legs[i], final)) => Priced(Sized(s.legs[i], final))
      BY <3>1 DEF IvForEveryStrike
    <3>3. QED
      BY <3>2 DEF Sized, Struck, Priced
  <2>2. v.payload = Payload(s, base, base, surface.age)
    BY <1>6, <1>7
  <2>3. OrdersVega(Payload(s, base, base, surface.age)) = Payload(s, base, base, surface.age).vega
    BY <1>4, <1>5, <2>1, PayloadScales
  <2>4. QED
    BY <2>2, <2>3
<1> HIDE DEF v
<1>9. QED
  BY <1>2, <1>7, <1>8

\* Every step leaves the previews' payloads as they are, or creates one that is true.
LEMMA PayloadStep == OutcomeInv /\ PayloadsAreTrue /\ [Next]_vars => PayloadsAreTrue'
<1> SUFFICES ASSUME OutcomeInv, PayloadsAreTrue, [Next]_vars PROVE PayloadsAreTrue'
  OBVIOUS
<1>0. PreviewShapes /\ CallShapes /\ RequestsAreKnown
  BY DEF OutcomeInv
<1> DEFINE Same(p) == "payload" \in DOMAIN previews[p] =>
                        "payload" \in DOMAIN previews'[p] /\ previews'[p].payload = previews[p].payload
<1>1. ASSUME \A p \in Previews : Exists(p)' => Exists(p) /\ Same(p) PROVE PayloadsAreTrue'
  BY <1>1 DEF PayloadsAreTrue
<1> USE <1>0 DEF PreviewShapes, CallShapes, Exists
<1>2. CASE UNCHANGED previews
  BY <1>1, <1>2
<1>3. ASSUME NEW c \in Calls, InsertLive(c) PROVE PayloadsAreTrue'
  BY <1>1, <1>3 DEF InsertLive, At, MarkSubmitted, RequestsAreKnown
<1>4. ASSUME NEW c \in Calls, CommitMock(c) PROVE PayloadsAreTrue'
  BY <1>1, <1>4 DEF CommitMock, At, MarkSubmitted, RequestsAreKnown
<1>5. ASSUME NEW p \in Previews, NEW req \in Requests[p], CreatePreview(p, req) PROVE PayloadsAreTrue'
  <2>1. PICK v : /\ previews' = [previews EXCEPT ![p] = v]
                 /\ "payload" \in DOMAIN v /\ Truthful(v.payload, v.payload.vega)
    BY <1>5, CreatedIsTrue
  <2>2. ASSUME NEW q \in Previews, Exists(q)'
        PROVE  "payload" \in DOMAIN previews'[q] /\ Truthful(previews'[q].payload, previews'[q].payload.vega)
    <3>1. CASE q = p
      <4>1. previews'[q] = v
        BY <2>1, <3>1
      <4>2. QED
        BY <2>1, <4>1
    <3>2. CASE q # p
      <4>1. previews'[q] = previews[q] /\ Exists(q)
        BY <2>1, <2>2, <3>2
      <4>2. QED
        BY <4>1 DEF PayloadsAreTrue
    <3>3. QED
      BY <3>1, <3>2
  <2>3. QED
    BY <2>2 DEF PayloadsAreTrue
<1>6. ASSUME NEW p \in Previews, Expire(p) PROVE PayloadsAreTrue'
  BY <1>1, <1>6 DEF Expire
<1>7. ASSUME NEW p \in Previews, CancelWrite(p) PROVE PayloadsAreTrue'
  BY <1>1, <1>7 DEF CancelWrite, RequestsAreKnown
<1>8. QED
  BY <1>2, <1>3, <1>4, <1>5, <1>6, <1>7
  DEF Next, Submit, vars, AcquirePreviewLock, SelectForUpdate, Revalidate, RunPretradeGate,
      InsertMock, Dispatch, Answered, ReleasePreviewLock, CancelRead, LockExpires,
      CheckNotHalted, PlaceStructure, OperatorRetries, IbDone, SyncMirror, SetHalt,
      MirrorHalt, ForwardHalt

\* The structure a payload becomes carries what the payload states.
LEMMA NewTradeIsJudged ==
  ASSUME NEW pay, NEW mode, Truthful(pay, pay.vega)
  PROVE  /\ JUDGED \subseteq DOMAIN NewTrade(pay, mode)
         /\ Truthful(NewTrade(pay, mode), NewTrade(pay, mode).judged)
         /\ LET t == [NewTrade(pay, mode) EXCEPT !.state = "fully_filled"]
            IN  JUDGED \subseteq DOMAIN t /\ Truthful(t, t.judged)
<1> DEFINE t == NewTrade(pay, mode)
           u == [t EXCEPT !.state = "fully_filled"]
<1>1. /\ JUDGED \subseteq DOMAIN t /\ t.legs = pay.legs /\ t.judged = pay.vega /\ t.base_qty = pay.base_qty
      /\ JUDGED \subseteq DOMAIN u /\ u.legs = pay.legs /\ u.judged = pay.vega /\ u.base_qty = pay.base_qty
  BY DEF NewTrade, JUDGED
<1> HIDE DEF t, u
<1>2. ASSUME NEW x, x.legs = pay.legs, x.judged = pay.vega, x.base_qty = pay.base_qty
      PROVE  Truthful(x, x.judged)
  BY <1>2, SameLegsSameVega DEF Truthful
<1>3. Truthful(t, t.judged) /\ Truthful(u, u.judged)
  BY <1>1, <1>2
<1>4. QED
  BY <1>1, <1>3 DEF t, u

\* Every step keeps the legs and the judged vega of a structure, or makes one from a
\* payload that is true.
LEMMA JudgedStep == OutcomeInv /\ PayloadsAreTrue /\ TradesAreJudged /\ [Next]_vars => TradesAreJudged'
<1> SUFFICES ASSUME OutcomeInv, PayloadsAreTrue, TradesAreJudged, [Next]_vars PROVE TradesAreJudged'
  OBVIOUS
<1>0. CallShapes /\ TradeShapes /\ RequestsAreKnown
  BY DEF OutcomeInv
<1> DEFINE Good(t) == JUDGED \subseteq DOMAIN t /\ Truthful(t, t.judged)
           Same(p) == JUDGED \subseteq DOMAIN trades[p] =>
                        /\ JUDGED \subseteq DOMAIN trades'[p] /\ trades'[p].legs = trades[p].legs
                        /\ trades'[p].judged = trades[p].judged /\ trades'[p].base_qty = trades[p].base_qty
<1>1. ASSUME \A p \in Previews : Traded(p)' => Traded(p) /\ Same(p) PROVE TradesAreJudged'
  <2> SUFFICES ASSUME NEW p \in Previews, Traded(p)' PROVE Good(trades'[p])
    BY DEF TradesAreJudged
  <2>1. Traded(p) /\ Same(p)
    BY <1>1
  <2>2. Good(trades[p])
    BY <2>1 DEF TradesAreJudged
  <2>3. /\ JUDGED \subseteq DOMAIN trades'[p] /\ trades'[p].legs = trades[p].legs
        /\ trades'[p].judged = trades[p].judged /\ trades'[p].base_qty = trades[p].base_qty
    BY <2>1, <2>2
  <2>4. /\ OrdersVega(trades'[p]) = OrdersVega(trades[p])
        /\ IvForEveryStrike(trades'[p]) <=> IvForEveryStrike(trades[p])
    BY <2>3, SameLegsSameVega
  <2>5. QED
    BY <2>2, <2>3, <2>4 DEF Truthful
<1>2. ASSUME NEW p \in Previews, NEW t, Good(t), trades' = [trades EXCEPT ![p] = t] PROVE TradesAreJudged'
  BY <1>0, <1>2 DEF TradesAreJudged, TradeShapes, Traded
<1> HIDE DEF Good
<1> USE <1>0 DEF CallShapes, TradeShapes, Traded
<1>3. ASSUME NEW c \in Calls, calls[c].pc \in {"insert", "refresh"}
      PROVE  LET p == calls[c].preview IN p \in Previews /\ Truthful(previews[p].payload, previews[p].payload.vega)
  BY <1>3 DEF RequestsAreKnown, PayloadsAreTrue
<1>4. CASE UNCHANGED trades
  BY <1>1, <1>4
<1>5. ASSUME NEW c \in Calls, InsertLive(c) PROVE TradesAreJudged'
  <2>1. CASE Traded(calls[c].preview)
    BY <1>4, <1>5, <2>1 DEF InsertLive
  <2>2. CASE ~Traded(calls[c].preview)
    <3>1. calls[c].pc = "insert" /\ trades' = [trades EXCEPT ![calls[c].preview] = NewTrade(previews[calls[c].preview].payload, "live")]
      BY <1>5, <2>2 DEF InsertLive, At
    <3>2. Good(NewTrade(previews[calls[c].preview].payload, "live"))
      BY <1>3, <3>1, NewTradeIsJudged DEF Good
    <3>3. QED
      BY <1>2, <1>3, <3>1, <3>2
  <2>3. QED
    BY <2>1, <2>2
<1>6. ASSUME NEW c \in Calls, CommitMock(c) PROVE TradesAreJudged'
  <2> DEFINE t == [NewTrade(previews[calls[c].preview].payload, "mock") EXCEPT !.state = "fully_filled"]
  <2>1. calls[c].pc = "refresh" /\ trades' = [trades EXCEPT ![calls[c].preview] = t]
    BY <1>6 DEF CommitMock, At
  <2>2. Good(t)
    BY <1>3, <2>1, NewTradeIsJudged DEF Good
  <2> HIDE DEF t
  <2>3. QED
    BY <1>2, <1>3, <2>1, <2>2
<1>7. ASSUME NEW c \in Calls, Dispatch(c) PROVE TradesAreJudged'
  <2>1. CASE UNCHANGED trades
    BY <1>4, <2>1
  <2>2. CASE trades' = [trades EXCEPT ![calls[c].preview].engine = "asked"]
    <3>1. ASSUME NEW p \in Previews PROVE Same(p) /\ (Traded(p)' => Traded(p))
      BY <2>2
    <3>2. QED
      BY <1>1, <3>1
  <2>3. QED
    BY <1>7, <2>1, <2>2 DEF Dispatch
<1>8. ASSUME NEW p \in Previews, NEW changes, Engine(p, changes), Traded(p),
             JUDGED \cap DOMAIN changes = {} PROVE TradesAreJudged'
  BY <1>1, <1>8 DEF Engine, JUDGED
<1>9. ASSUME NEW p \in Previews, CheckNotHalted(p) PROVE TradesAreJudged'
  BY <1>8, <1>9 DEF CheckNotHalted, JUDGED
<1>10. ASSUME NEW p \in Previews, PlaceStructure(p) PROVE TradesAreJudged'
  BY <1>8, <1>10 DEF PlaceStructure, JUDGED
<1>11. ASSUME NEW p \in Previews, OperatorRetries(p) PROVE TradesAreJudged'
  BY <1>8, <1>11 DEF OperatorRetries, JUDGED
<1>12. ASSUME NEW p \in Previews, IbDone(p) PROVE TradesAreJudged'
  BY <1>8, <1>12 DEF IbDone, JUDGED
<1>13. ASSUME NEW p \in Previews, SyncMirror(p) PROVE TradesAreJudged'
  BY <1>8, <1>13 DEF SyncMirror, JUDGED
<1>14. CASE ForwardHalt
  <2>1. CASE UNCHANGED trades
    BY <1>4, <2>1
  <2>2. CASE trades' = CancelAllOpen
    <3>1. ASSUME NEW p \in Previews PROVE Same(p) /\ (Traded(p)' => Traded(p))
      <4>1. trades'[p] = trades[p] \/ trades'[p] = [trades[p] EXCEPT !.ib = "cancelling"]
        BY <2>2 DEF CancelAllOpen
      <4>2. QED
        BY <4>1 DEF JUDGED
    <3>2. QED
      BY <1>1, <3>1
  <2>3. QED
    BY <1>14, <2>1, <2>2 DEF ForwardHalt
<1>15. QED
  BY <1>4, <1>5, <1>6, <1>7, <1>9, <1>10, <1>11, <1>12, <1>13, <1>14
  DEF Next, Submit, vars, AcquirePreviewLock, SelectForUpdate, Revalidate, RunPretradeGate,
      InsertMock, Answered, ReleasePreviewLock, CreatePreview, Expire, CancelRead,
      CancelWrite, LockExpires, SetHalt, MirrorHalt

\* For any requests, surfaces, regimes and calls, the net vega run_pretrade_gate read
\* from the frozen payload is the vega of the orders that were inserted, when base_qty
\* is positive and the surface had an IV for every contract ordered.
THEOREM GateJudgesTheOrdersHolds == Spec => []GateJudgesTheOrders
<1>1. Init => PayloadsAreTrue /\ TradesAreJudged
  BY DEF Init, PayloadsAreTrue, TradesAreJudged, Exists, Traded, NoPreview, NoTrade
<1>2. OutcomeInv /\ PayloadsAreTrue /\ TradesAreJudged /\ [Next]_vars
        => (PayloadsAreTrue /\ TradesAreJudged)'
  BY PayloadStep, JudgedStep
<1>3. TradesAreJudged => GateJudgesTheOrders
  BY DEF TradesAreJudged, Truthful, GateJudgesTheOrders
<1>4. QED
  BY OutcomeInvariance, <1>1, <1>2, <1>3, PTL DEF Spec
=============================================================================
