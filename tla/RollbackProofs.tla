--------------------------- MODULE RollbackProofs ---------------------------
(***************************************************************************)
(* For any legs, quantities, calls and crashes: the types of Rollback,     *)
(* that no more contracts of a leg are unwound than were executed, and     *)
(* that nothing is placed before the rollback is recorded.  What carries   *)
(* the first is that a leg's unwind row, once there, stays, so that the    *)
(* one call that inserted it is the only one that ever places it, and      *)
(* that plans are made from executed contracts only; what carries the      *)
(* second is that the first row is committed with the claim.               *)
(***************************************************************************)
EXTENDS Rollback, TLAPS

\* What the entry rows, and hence the plans, count is backed.
PlansBacked ==
  /\ \A l \in Legs : /\ entryFills[l] <= executed[l] /\ executed[l] <= Qty[l]
                     /\ entryFilled[l] <= Backing(l)
  /\ \A c \in Calls, l \in Legs : plan[c].unwinds[l] <= Backing(l)

\* A call about to place is alone on its leg, whose row exists and of which
\* nothing was ever sent.
Placing == {"qualify", "place"}
PlacerAlone ==
  /\ \A c \in Calls : pc[c] \in Placing => HasRow(cur[c]) /\ sent[cur[c]] = 0
  /\ \A c, d \in Calls : pc[c] \in Placing /\ pc[d] \in Placing /\ cur[c] = cur[d] => c = d

\* Whatever is at IB has its row.
PlacedHasRow ==
  /\ \A l \in Legs : sent[l] > 0 \/ l \in reffed \/ ibUnwind[l] # "none" => HasRow(l)
  /\ \A c \in Calls : pc[c] = "stamp" => HasRow(cur[c])

\* A row exists only once the rollback is recorded; a call that inserts one has
\* found it recorded or records it with its row.
RowMeansStarted ==
  /\ \A l \in Legs : HasRow(l) => started
  /\ \A c \in Calls : pc[c] = "insert" => started \/ lock = c

Protocol == PlansBacked /\ PlacerAlone /\ PlacedHasRow /\ RowMeansStarted /\ NoInversePosition

Inv == TypeOK /\ Protocol

-----------------------------------------------------------------------------
\* The states the modelled code writes.
LEMMA KnownStates ==
  /\ {"pending", "submitted", "partially_filled", "filled", "cancelled", "rejected", "expired"}
       \subseteq OrderStates
  /\ None \notin OrderStates
BY DEF OrderStates, REAPABLE_STATES, TERMINAL_STATES, None

\* The states the reconciler's first pass may call for.
LEMMA RepairedStates ==
  \A n, q \in Nat, s \in OrderStates :
    state_from_recorded_fills(n, q, s) \in {"filled", "partially_filled", None}
BY DEF state_from_recorded_fills

\* What the operations on an unwind row return.
LEMMA RowOps ==
  /\ NoRow \in UnwindRows
  /\ \A q \in Nat : [state |-> "pending", qty |-> q, filled |-> 0] \in UnwindRows
  /\ \A r \in UnwindRows :
       /\ r.state \in OrderStates \cup {None} /\ r.qty \in Nat /\ r.filled \in Nat
       /\ WithFill(r) \in UnwindRows /\ WithFill(r).state # None
       /\ \A s \in OrderStates \cup {None} : /\ [r EXCEPT !.state = s] \in UnwindRows
                                           /\ [r EXCEPT !.state = s].state = s
       /\ \A s \in OrderStates, n \in Nat :
            /\ [r EXCEPT !.filled = n, !.state = s] \in UnwindRows
            /\ [r EXCEPT !.filled = n, !.state = s].state = s
<1> USE KnownStates DEF UnwindRows
<1>1. NoRow \in UnwindRows
  BY DEF NoRow
<1>2. ASSUME NEW r \in UnwindRows, NEW s \in OrderStates \cup {None}, NEW n \in Nat
      PROVE  /\ [r EXCEPT !.filled = n, !.state = s] \in UnwindRows
             /\ [r EXCEPT !.filled = n, !.state = s].state = s
             /\ [r EXCEPT !.state = s] \in UnwindRows
             /\ [r EXCEPT !.state = s].state = s
  OBVIOUS
<1>3. ASSUME NEW r \in UnwindRows
      PROVE  WithFill(r) \in UnwindRows /\ WithFill(r).state # None
  <2>1. r.filled + 1 \in Nat
    OBVIOUS
  <2>2. CASE r.filled + 1 >= r.qty
    <3>1. WithFill(r) = [r EXCEPT !.filled = r.filled + 1, !.state = "filled"]
      BY <2>2 DEF WithFill
    <3>2. QED
      BY <3>1, <2>1
  <2>3. CASE ~(r.filled + 1 >= r.qty)
    <3>1. WithFill(r) = [r EXCEPT !.filled = r.filled + 1, !.state = "partially_filled"]
      BY <2>3 DEF WithFill
    <3>2. QED
      BY <3>1, <2>1
  <2>4. QED
    BY <2>2, <2>3
<1>4. QED
  BY <1>1, <1>2, <1>3

\* What the operations on a plan return.
LEMMA PlanOps ==
  /\ NoPlan \in Plans
  /\ \A p \in Plans : p.unwinds \in [Legs -> Nat] /\ p.cancels \in SUBSET Legs
  /\ \A p \in Plans, l \in Legs :
       /\ [p EXCEPT !.unwinds[l] = 0] \in Plans
       /\ \A k \in Legs : [p EXCEPT !.unwinds[l] = 0].unwinds[k] <= p.unwinds[k]
<1>1. NoPlan \in Plans
  BY DEF Plans, NoPlan
<1>2. ASSUME NEW p \in Plans PROVE p.unwinds \in [Legs -> Nat] /\ p.cancels \in SUBSET Legs
  BY DEF Plans
<1>3. ASSUME NEW p \in Plans, NEW l \in Legs
      PROVE  /\ [p EXCEPT !.unwinds[l] = 0] \in Plans
             /\ \A k \in Legs : [p EXCEPT !.unwinds[l] = 0].unwinds[k] <= p.unwinds[k]
  <2>1. p = [cancels |-> p.cancels, unwinds |-> p.unwinds]
    BY DEF Plans
  <2>2. [p EXCEPT !.unwinds[l] = 0] = [cancels |-> p.cancels, unwinds |-> [p.unwinds EXCEPT ![l] = 0]]
    BY <2>1
  <2>3. QED
    BY <2>2, <1>2 DEF Plans
<1>4. QED
  BY <1>1, <1>2, <1>3

\* The initial states satisfy Inv.
LEMMA InitInv == Init => Inv
<1> SUFFICES ASSUME Init PROVE Inv
  OBVIOUS
<1> USE LegsAssumption, QtyAssumption, CallsAssumption, MaxCrashesAssumption
<1>1. TypeOK
  <2>1. /\ entryState \in [Legs -> OrderStates]
        /\ unwind \in [Legs -> UnwindRows] /\ plan \in [Calls -> Plans]
    BY RowOps, PlanOps, KnownStates DEF Init
  <2>2. cur \in [Calls -> Legs]
    BY DEF Init
  <2>3. started \in BOOLEAN /\ up \in BOOLEAN
    BY DEF Init
  <2>4. QED
    BY <2>1, <2>2, <2>3 DEF Init, TypeOK, CallStates
<1>2. Protocol
  BY DEF Init, Protocol, PlansBacked, PlacerAlone, Placing, PlacedHasRow, RowMeansStarted,
         NoInversePosition, Backing, HasRow, NoRow, NoPlan, None
<1>3. QED
  BY <1>1, <1>2 DEF Inv

\* A plan is a record of the right type, made of recorded fills only.
LEMMA PlanBounded ==
  ASSUME TypeOK
  PROVE  /\ decide_rollback \in Plans
         /\ \A l \in Legs : decide_rollback.unwinds[l] <= entryFilled[l]
<1>1. \A l \in Legs : Covered(l) \in Nat /\ entryFilled[l] \in Nat
  BY RowOps DEF TypeOK, Covered, HasRow
<1>2. QED
  BY <1>1 DEF decide_rollback, Plans

\* Every step keeps the types.
LEMMA TypeStep == TypeOK /\ [Next]_vars => TypeOK'
<1> SUFFICES ASSUME TypeOK, [Next]_vars PROVE TypeOK'
  OBVIOUS
<1> USE DEF TypeOK, entryVars, rowVars, ibVars, structVars, callVars, procVars
<1>a. \A l \in Legs : unwind[l] \in UnwindRows
  OBVIOUS
<1>b. \A c \in Calls : plan[c] \in Plans /\ cur[c] \in Legs
  OBVIOUS
<1>c. \A l \in Legs, s \in OrderStates \cup {None} :
        [unwind EXCEPT ![l].state = s] \in [Legs -> UnwindRows]
  BY <1>a, RowOps
<1>1. ASSUME NEW c \in Calls, CallStep(c) PROVE TypeOK'
  <2>a. \A l \in Legs : plan[c].unwinds[l] \in Nat
    BY <1>b, PlanOps
  <2>b. [plan[c] EXCEPT !.unwinds[cur[c]] = 0] \in Plans
    BY <1>b, PlanOps
  <2>1. CASE Load(c)
    BY <2>1, PlanBounded DEF Load, Goto, CallStates
  <2>2. CASE Claim(c)
    <3>1. started' \in BOOLEAN /\ lock' \in Calls \cup {None} /\ pc' \in [Calls -> CallStates]
      <4>1. CASE ToUnwind(c) = {}
        BY <2>2, <4>1 DEF Claim, Goto, CallStates
      <4>2. CASE ToUnwind(c) # {}
        BY <2>2, <4>2 DEF Claim, Goto, CallStates
      <4>3. QED
        BY <4>1, <4>2
    <3>2. cancelReq' \in SUBSET Legs
      BY <2>2, <1>b, PlanOps DEF Claim
    <3>3. QED
      BY <2>2, <3>1, <3>2 DEF Claim
  <2>3. CASE InsertUnwind(c)
    <3>1. PICK l \in Legs :
            /\ unwind' = [unwind EXCEPT ![l] =
                            [state |-> "pending", qty |-> plan[c].unwinds[l], filled |-> 0]]
            /\ cur' = [cur EXCEPT ![c] = l]
      BY <2>3 DEF InsertUnwind, ToUnwind
    <3>2. unwind' \in [Legs -> UnwindRows]
      BY <3>1, <2>a, RowOps
    <3>3. QED
      BY <2>3, <3>1, <3>2 DEF InsertUnwind, CommitTxn, Goto, CallStates
  <2>4. CASE InsertConflicts(c)
    BY <2>4 DEF InsertConflicts, Goto, AbortTxn, ToUnwind, CallStates
  <2>5. CASE NotQualified(c)
    <3>1. plan' \in [Calls -> Plans]
      BY <2>5, <2>b DEF NotQualified, NextLeg
    <3>2. QED
      BY <2>5, <3>1 DEF NotQualified, NextLeg, Goto, CallStates
  <2>6. CASE ClaimRow(c)
    BY <2>6 DEF ClaimRow, Goto, CallStates
  <2>7. CASE PlaceUnwind(c)
    BY <2>7, <2>a DEF PlaceUnwind, Goto, CallStates
  <2>8. CASE PlaceRaises(c)
    BY <2>8 DEF PlaceRaises, Goto, CallStates
  <2>9. CASE StampUnwind(c)
    <3>1. plan' \in [Calls -> Plans]
      BY <2>9, <2>b DEF StampUnwind, NextLeg
    <3>2. unwind' \in [Legs -> UnwindRows]
      BY <2>9, <1>b, <1>c, KnownStates DEF StampUnwind
    <3>3. QED
      BY <2>9, <3>1, <3>2 DEF StampUnwind, NextLeg, Goto, CallStates
  <2>10. CASE CallFails(c)
    BY <2>10 DEF CallFails, AbortTxn, Goto, CallStates
  <2>11. QED
    BY <1>1, <2>1, <2>2, <2>3, <2>4, <2>5, <2>6, <2>7, <2>8, <2>9, <2>10 DEF CallStep
<1>2. ASSUME NEW l \in Legs, LegStep(l) PROVE TypeOK'
  <2>1. CASE EntryExecute(l)
    BY <2>1 DEF EntryExecute, EntryLeavesRest
  <2>2. CASE EntryStops(l)
    BY <2>2 DEF EntryStops, EntryLeavesRest
  <2>3. CASE OnEntryFill(l)
    BY <2>3, KnownStates DEF OnEntryFill, EntryLeavesRest
  <2>4. CASE OnEntryStatus(l)
    BY <2>4, KnownStates DEF OnEntryStatus, EntryLeavesRest
  <2>e. CASE ReapEntry(l)
    BY <2>e, KnownStates DEF ReapEntry, EntryLeavesRest
  <2>m. CASE MirrorEntry(l)
    BY <2>m, KnownStates, QtyAssumption DEF MirrorEntry, EntryLeavesRest
  <2>5. CASE UnwindExecute(l)
    BY <2>5 DEF UnwindExecute
  <2>6. CASE UnwindCancelled(l)
    BY <2>6 DEF UnwindCancelled
  <2>7. CASE OnUnwindFill(l)
    <3>1. unwind' \in [Legs -> UnwindRows]
      BY <2>7, <1>a, RowOps DEF OnUnwindFill
    <3>2. QED
      BY <2>7, <3>1 DEF OnUnwindFill, RowLeavesRest
  <2>8. CASE OnUnwindStatus(l) \/ ReapUnwind(l)
    <3>1. unwind' \in [Legs -> UnwindRows]
      BY <2>8, <1>c, KnownStates DEF OnUnwindStatus, ReapUnwind
    <3>2. QED
      BY <2>8, <3>1 DEF OnUnwindStatus, ReapUnwind, RowLeavesRest
  <2>r. CASE RepairUnwind(l)
    <3>1. unwind[l].filled \in Nat /\ unwind[l].qty \in Nat /\ unwind[l].state \in OrderStates
      BY <2>r, <1>a, RowOps DEF RepairUnwind, OrderStates
    <3>2. state_from_recorded_fills(unwind[l].filled, unwind[l].qty, unwind[l].state) \in OrderStates
      BY <2>r, <3>1, RepairedStates, KnownStates DEF RepairUnwind
    <3>3. unwind' \in [Legs -> UnwindRows]
      BY <2>r, <3>2, <1>c DEF RepairUnwind
    <3>4. QED
      BY <2>r, <3>3 DEF RepairUnwind, RowLeavesRest
  <2>9. CASE AdoptUnwind(l)
    <3>1. unwind' \in [Legs -> UnwindRows]
      <4>1. (IF unwind[l].state = "pending" THEN "submitted" ELSE unwind[l].state)
              \in OrderStates \cup {None}
        BY <1>a, RowOps, KnownStates
      <4>2. unwind' = [unwind EXCEPT ![l].state =
              IF unwind[l].state = "pending" THEN "submitted" ELSE unwind[l].state]
        BY <2>9 DEF AdoptUnwind
      <4>3. QED
        BY <4>1, <4>2, <1>c
    <3>2. QED
      BY <2>9, <3>1 DEF AdoptUnwind, RowLeavesRest
  <2>10. QED
    BY <1>2, <2>1, <2>2, <2>3, <2>4, <2>5, <2>6, <2>7, <2>8, <2>9, <2>e, <2>m, <2>r DEF LegStep
<1>3. CASE Crash
  <2>1. crashes' \in 0..MaxCrashes
    BY <1>3, MaxCrashesAssumption DEF Crash
  <2>2. pc' \in [Calls -> CallStates] /\ lock' \in Calls \cup {None} /\ up' \in BOOLEAN
    BY <1>3 DEF Crash, CallStates
  <2>3. QED
    BY <1>3, <2>1, <2>2 DEF Crash
<1>4. CASE Rehydrate
  <2>1. unwind' \in [Legs -> UnwindRows]
    <3>1. \A l \in Legs : unwound[l] \in Nat
      OBVIOUS
    <3>2. ASSUME NEW l \in Legs PROVE unwind'[l] \in UnwindRows
      BY <1>4, <1>a, <3>1, RowOps, KnownStates DEF Rehydrate
    <3>3. QED
      BY <1>4, <3>2 DEF Rehydrate
  <2>2. QED
    BY <1>4, <2>1 DEF Rehydrate
<1>5. CASE UNCHANGED vars
  BY <1>5 DEF vars
<1>6. QED
  BY <1>1, <1>2, <1>3, <1>4, <1>5 DEF Next

-----------------------------------------------------------------------------
\* Only an insertion gives a leg its row, and no step takes it away.
LEMMA RowStep ==
  ASSUME Inv, [Next]_vars
  PROVE  \/ /\ \A l \in Legs : HasRow(l)' <=> HasRow(l)
            /\ \A c \in Calls : ~InsertUnwind(c)
         \/ \E c \in Calls : /\ InsertUnwind(c)
                             /\ \A l \in Legs : HasRow(l)' <=> HasRow(l) \/ l = cur'[c]
<1> USE DEF Inv, Protocol, HasRow
<1>a. \A l \in Legs : unwind[l] \in UnwindRows
  BY DEF TypeOK
<1>b. unwind \in [Legs -> UnwindRows] /\ cur \in [Calls -> Legs] /\ pc \in [Calls -> CallStates]
  BY DEF TypeOK
<1>c. \A l \in Legs : unwound[l] > 0 => sent[l] > 0
  BY DEF TypeOK, NoInversePosition
<1>1. CASE \E c \in Calls : InsertUnwind(c)
  <2>1. PICK c \in Calls : InsertUnwind(c)
    BY <1>1
  <2>2. PICK l \in Legs :
          /\ unwind' = [unwind EXCEPT ![l] =
                          [state |-> "pending", qty |-> plan[c].unwinds[l], filled |-> 0]]
          /\ cur' = [cur EXCEPT ![c] = l]
    BY <2>1 DEF InsertUnwind, ToUnwind, TypeOK
  <2>3. QED
    BY <2>1, <2>2, <1>b DEF None
<1>2. CASE \A c \in Calls : ~InsertUnwind(c)
  <2> SUFFICES \A l \in Legs : HasRow(l)' <=> HasRow(l)
    BY <1>2
  <2>1. CASE UNCHANGED unwind
    BY <2>1
  <2>2. ASSUME NEW k \in Legs, NEW s \in OrderStates, HasRow(k),
               unwind' = [unwind EXCEPT ![k].state = s]
        PROVE  \A l \in Legs : HasRow(l)' <=> HasRow(l)
    <3>1. unwind'[k].state = s
      BY <2>2, <1>a, <1>b, RowOps
    <3>2. \A l \in Legs \ {k} : unwind'[l] = unwind[l]
      BY <2>2, <1>b
    <3>3. QED
      BY <2>2, <3>1, <3>2, KnownStates
  <2>3. ASSUME NEW c \in Calls, StampUnwind(c) PROVE \A l \in Legs : HasRow(l)' <=> HasRow(l)
    <3>1. cur[c] \in Legs /\ HasRow(cur[c]) /\ unwind' = [unwind EXCEPT ![cur[c]].state = "submitted"]
      BY <2>3, <1>b DEF StampUnwind, PlacedHasRow
    <3>2. QED
      BY <2>2, <3>1, KnownStates
  <2>4. ASSUME NEW k \in Legs, OnUnwindFill(k) PROVE \A l \in Legs : HasRow(l)' <=> HasRow(l)
    <3>1. HasRow(k)
      <4>1. unwind[k].filled \in Nat /\ unwound[k] \in Nat
        BY <1>a, RowOps DEF TypeOK
      <4>2. unwound[k] > 0
        BY <4>1, <2>4 DEF OnUnwindFill
      <4>3. QED
        BY <4>2, <1>c DEF PlacedHasRow
    <3>2. unwind' = [unwind EXCEPT ![k] = WithFill(unwind[k])]
      BY <2>4 DEF OnUnwindFill
    <3>3. QED
      BY <3>1, <3>2, <1>a, <1>b, RowOps
  <2>5. ASSUME NEW k \in Legs, OnUnwindStatus(k)
        PROVE  \A l \in Legs : HasRow(l)' <=> HasRow(l)
    BY <2>2, <2>5, KnownStates DEF OnUnwindStatus, PlacedHasRow
  <2>6. ASSUME NEW k \in Legs, ReapUnwind(k)
        PROVE  \A l \in Legs : HasRow(l)' <=> HasRow(l)
    BY <2>2, <2>6, KnownStates DEF ReapUnwind, REAPABLE_STATES, None
  <2>r. ASSUME NEW k \in Legs, RepairUnwind(k)
        PROVE  \A l \in Legs : HasRow(l)' <=> HasRow(l)
    <3>1. unwind[k].filled \in Nat /\ unwind[k].qty \in Nat /\ unwind[k].state \in OrderStates
      BY <2>r, <1>a, RowOps DEF RepairUnwind, OrderStates
    <3>2. state_from_recorded_fills(unwind[k].filled, unwind[k].qty, unwind[k].state) \in OrderStates
      BY <2>r, <3>1, RepairedStates, KnownStates DEF RepairUnwind
    <3>3. QED
      BY <2>2, <2>r, <3>1, <3>2, KnownStates DEF RepairUnwind
  <2>7. ASSUME NEW k \in Legs, AdoptUnwind(k)
        PROVE  \A l \in Legs : HasRow(l)' <=> HasRow(l)
    <3>1. HasRow(k)
      BY <2>7 DEF AdoptUnwind, PlacedHasRow
    <3>2. (IF unwind[k].state = "pending" THEN "submitted" ELSE unwind[k].state) \in OrderStates
      BY <3>1, <1>a, RowOps, KnownStates
    <3>3. unwind' = [unwind EXCEPT ![k].state =
                       IF unwind[k].state = "pending" THEN "submitted" ELSE unwind[k].state]
      BY <2>7 DEF AdoptUnwind
    <3>4. QED
      BY <2>2, <3>1, <3>2, <3>3
  <2>8. CASE Rehydrate
    <3>1. ASSUME NEW l \in Legs PROVE HasRow(l)' <=> HasRow(l)
      <4>1. CASE l \notin reffed
        BY <4>1, <2>8 DEF Rehydrate
      <4>2. CASE l \in reffed
        <5>1. HasRow(l) /\ unwound[l] \in Nat
          BY <4>2 DEF PlacedHasRow, TypeOK
        <5>2. unwind[l] \in UnwindRows
          BY <1>a
        <5>3. CASE unwind[l].filled < unwound[l] /\ unwound[l] >= unwind[l].qty
          <6>1. unwind'[l] = [unwind[l] EXCEPT !.filled = unwound[l], !.state = "filled"]
            BY <2>8, <4>2, <5>3 DEF Rehydrate
          <6>2. unwind'[l].state = "filled"
            BY <5>1, <5>2, <6>1 DEF UnwindRows
          <6>3. QED
            BY <5>1, <6>2, KnownStates
        <5>4. CASE unwind[l].filled < unwound[l] /\ ~(unwound[l] >= unwind[l].qty)
          <6>1. unwind'[l] = [unwind[l] EXCEPT !.filled = unwound[l], !.state = "partially_filled"]
            BY <2>8, <4>2, <5>4 DEF Rehydrate
          <6>2. unwind'[l].state = "partially_filled"
            BY <5>1, <5>2, <6>1 DEF UnwindRows
          <6>3. QED
            BY <5>1, <6>2, KnownStates
        <5>5. CASE ~(unwind[l].filled < unwound[l])
          <6>1. unwind'[l] = unwind[l] \/ unwind'[l] = [unwind[l] EXCEPT !.state = "submitted"]
            BY <2>8, <5>5 DEF Rehydrate
          <6>2. unwind'[l] = unwind[l] \/ unwind'[l].state = "submitted"
            BY <5>2, <6>1 DEF UnwindRows
          <6>3. QED
            BY <5>1, <6>2, KnownStates
        <5>6. QED
          BY <5>3, <5>4, <5>5
      <4>3. QED
        BY <4>1, <4>2
    <3>2. QED
      BY <3>1
  <2>9. QED
    BY <1>2, <2>1, <2>3, <2>4, <2>5, <2>6, <2>7, <2>8, <2>r
    DEF Next, CallStep, LegStep, vars, rowVars, Load, Claim, InsertConflicts, NotQualified,
        ClaimRow, PlaceUnwind, PlaceRaises, CallFails, EntryExecute, EntryStops, OnEntryFill,
        OnEntryStatus, ReapEntry, MirrorEntry, EntryLeavesRest, UnwindExecute, UnwindCancelled, Crash
<1>3. QED
  BY <1>1, <1>2

-----------------------------------------------------------------------------
\* Every step keeps the protocol.
LEMMA ProtocolStep ==
  ASSUME Inv, [Next]_vars
  PROVE  Protocol'
<1>a. TypeOK /\ TypeOK'
  BY TypeStep DEF Inv
<1>b. \A l \in Legs : HasRow(l) => HasRow(l)'
  BY RowStep
<1> USE DEF Inv, Protocol
<1>f. \A l \in Legs : /\ Qty[l] \in Nat /\ executed[l] \in Nat /\ executed'[l] \in Nat
                     /\ entryFills[l] \in Nat /\ entryFills'[l] \in Nat
                     /\ entryFilled[l] \in Nat /\ entryFilled'[l] \in Nat
                     /\ Backing(l) \in Nat /\ Backing(l)' \in Nat
  BY <1>a, QtyAssumption DEF TypeOK, Backing
\* The entry side of a step: one of the three entry writers that count, or nothing.
<1>g. \/ UNCHANGED <<executed, entryFills, entryFilled, mirrored>>
      \/ \E l \in Legs : EntryExecute(l) \/ OnEntryFill(l) \/ MirrorEntry(l)
  <2> DEFINE Same == UNCHANGED <<executed, entryFills, entryFilled, mirrored>>
  <2>1. CASE UNCHANGED vars
    BY <2>1 DEF vars, entryVars
  <2>2. ASSUME NEW c \in Calls, CallStep(c) PROVE Same
    BY <2>2 DEF CallStep, entryVars, Load, Claim, InsertUnwind, InsertConflicts, NotQualified, ClaimRow,
       PlaceUnwind, PlaceRaises, StampUnwind, CallFails
  <2>3. ASSUME NEW l \in Legs, EntryStops(l) \/ OnEntryStatus(l) \/ ReapEntry(l) PROVE Same
    BY <2>3 DEF entryVars, EntryStops, OnEntryStatus, ReapEntry
  <2>4. ASSUME NEW l \in Legs, \/ UnwindExecute(l) \/ UnwindCancelled(l) \/ OnUnwindFill(l) \/ OnUnwindStatus(l)
                              \/ ReapUnwind(l) \/ RepairUnwind(l) \/ AdoptUnwind(l)
        PROVE  Same
    BY <2>4 DEF entryVars, UnwindExecute, UnwindCancelled, OnUnwindFill, OnUnwindStatus, ReapUnwind,
       RepairUnwind, AdoptUnwind, RowLeavesRest
  <2>5. ASSUME Crash \/ Rehydrate PROVE Same
    BY <2>5 DEF entryVars, Crash, Rehydrate
  <2> HIDE DEF Same
  <2>6. Same \/ \E l \in Legs : EntryExecute(l) \/ OnEntryFill(l) \/ MirrorEntry(l)
    <3>1. CASE UNCHANGED vars
      BY <3>1, <2>1 DEF Same
    <3>2. QED
      BY <3>1, <2>2, <2>3, <2>4, <2>5 DEF Next, LegStep
  <2>7. QED
    BY <2>6 DEF Same
<1>e. /\ \A l \in Legs : Backing(l) <= Backing(l)'
      /\ \A l \in Legs : /\ entryFills'[l] <= executed'[l] /\ executed'[l] <= Qty[l]
                         /\ entryFilled'[l] <= Backing(l)'
  <2>1. CASE UNCHANGED <<executed, entryFills, entryFilled, mirrored>>
    BY <2>1, <1>f DEF Backing, PlansBacked
  <2>2. ASSUME NEW k \in Legs, EntryExecute(k), NEW l \in Legs
        PROVE  /\ Backing(l) <= Backing(l)' /\ entryFills'[l] <= executed'[l]
               /\ executed'[l] <= Qty[l] /\ entryFilled'[l] <= Backing(l)'
    <3>1. UNCHANGED <<entryFills, entryFilled, mirrored>>
      BY <2>2 DEF EntryExecute
    <3>2. executed[l] <= executed'[l] /\ executed'[l] <= Qty[l]
      BY <2>2, <1>a, <1>f DEF EntryExecute, TypeOK, PlansBacked
    <3>3. Backing(l) <= Backing(l)'
      BY <3>1, <3>2, <1>f DEF Backing
    <3>4. QED
      BY <3>1, <3>2, <3>3, <1>f DEF PlansBacked
  <2>3. ASSUME NEW k \in Legs, OnEntryFill(k), NEW l \in Legs
        PROVE  /\ Backing(l) <= Backing(l)' /\ entryFills'[l] <= executed'[l]
               /\ executed'[l] <= Qty[l] /\ entryFilled'[l] <= Backing(l)'
    <3>1. UNCHANGED <<executed, mirrored>> /\ Backing(l)' = Backing(l)
      BY <2>3 DEF OnEntryFill, Backing
    <3>2. executed[l] <= Backing(l)
      BY <1>f DEF Backing, PlansBacked
    <3>3. entryFills'[l] <= executed[l]
      BY <2>3, <1>a, <1>f DEF OnEntryFill, TypeOK, PlansBacked
    <3>4. entryFilled'[l] = entryFilled[l] \/ entryFilled'[l] = entryFills'[l]
      BY <2>3, <1>a DEF OnEntryFill, TypeOK
    <3>5. QED
      BY <3>1, <3>2, <3>3, <3>4, <1>f DEF PlansBacked
  <2>4. ASSUME NEW k \in Legs, MirrorEntry(k), NEW l \in Legs
        PROVE  /\ Backing(l) <= Backing(l)' /\ entryFills'[l] <= executed'[l]
               /\ executed'[l] <= Qty[l] /\ entryFilled'[l] <= Backing(l)'
    <3>1. UNCHANGED <<executed, entryFills>> /\ mirrored' = mirrored \cup {k}
          /\ entryFilled' = [entryFilled EXCEPT ![k] = Qty[k]]
      BY <2>4 DEF MirrorEntry
    <3>2. Backing(l) <= Backing(l)' /\ (l = k => Backing(l)' = Qty[k])
      BY <3>1, <1>f DEF Backing, PlansBacked
    <3>3. entryFilled'[l] = IF l = k THEN Qty[k] ELSE entryFilled[l]
      BY <3>1, <1>a DEF TypeOK
    <3>4. QED
      BY <3>1, <3>2, <3>3, <1>f DEF PlansBacked
  <2>5. QED
    BY <1>g, <2>1, <2>2, <2>3, <2>4
<1>1. PlansBacked'
  <2>1. ASSUME NEW c \in Calls, NEW l \in Legs PROVE plan'[c].unwinds[l] <= Backing(l)'
    <3>a. plan[c].unwinds[l] \in Nat /\ plan'[c].unwinds[l] \in Nat
      BY <1>a, PlanOps DEF TypeOK
    <3>b. plan[c].unwinds[l] <= Backing(l)'
      BY <3>a, <1>e, <1>f DEF PlansBacked
    <3>1. \/ UNCHANGED plan
          \/ \E d \in Calls : Load(d) \/ NextLeg(d)
      BY DEF Next, CallStep, LegStep, vars, callVars, Claim, InsertUnwind,
         InsertConflicts, NotQualified, ClaimRow, PlaceUnwind, PlaceRaises, StampUnwind, CallFails,
         EntryExecute, EntryStops, OnEntryFill, OnEntryStatus, ReapEntry, MirrorEntry,
         EntryLeavesRest, UnwindExecute, UnwindCancelled, OnUnwindFill, OnUnwindStatus, ReapUnwind,
         RepairUnwind, AdoptUnwind, RowLeavesRest, Crash, Rehydrate
    <3>2. CASE UNCHANGED plan
      BY <3>b, <3>2
    <3>3. ASSUME NEW d \in Calls, Load(d) PROVE plan'[c].unwinds[l] <= Backing(l)'
      <4>1. plan' = [plan EXCEPT ![d] = decide_rollback]
        BY <3>3 DEF Load
      <4>2. decide_rollback.unwinds[l] <= entryFilled[l] /\ decide_rollback.unwinds[l] \in Nat
        BY <1>a, PlanBounded, PlanOps
      <4>3. decide_rollback.unwinds[l] <= Backing(l)'
        BY <4>2, <1>e, <1>f DEF PlansBacked
      <4>4. QED
        BY <4>1, <4>3, <3>b, <1>a DEF TypeOK
    <3>4. ASSUME NEW d \in Calls, NextLeg(d) PROVE plan'[c].unwinds[l] <= Backing(l)'
      <4>1. plan[d] \in Plans /\ cur[d] \in Legs
        BY <1>a DEF TypeOK
      <4>2. plan'[d] = [plan[d] EXCEPT !.unwinds[cur[d]] = 0] /\ (c # d => plan'[c] = plan[c])
        BY <3>4, <1>a DEF NextLeg, TypeOK
      <4>3. plan'[c].unwinds[l] <= plan[c].unwinds[l]
        <5>1. CASE c # d
          BY <4>2, <5>1, <3>a
        <5>2. CASE c = d
          <6>1. plan'[d].unwinds = [plan[d].unwinds EXCEPT ![cur[d]] = 0]
            BY <4>1, <4>2 DEF Plans
          <6>2. plan[d].unwinds \in [Legs -> Nat]
            BY <4>1 DEF Plans
          <6>3. QED
            BY <4>1, <5>2, <6>1, <6>2
        <5>3. QED
          BY <5>1, <5>2
      <4>4. QED
        BY <4>3, <3>a, <3>b, <1>f
    <3>5. QED
      BY <3>1, <3>2, <3>3, <3>4
  <2>2. QED
    BY <1>e, <2>1 DEF PlansBacked
<1>c. /\ \A l \in Legs : /\ sent[l] \in Nat /\ unwound[l] \in Nat /\ executed[l] \in Nat
                         /\ sent'[l] \in Nat /\ unwound'[l] \in Nat /\ executed'[l] \in Nat
      /\ \A c \in Calls : cur[c] \in Legs /\ cur'[c] \in Legs /\ c # None
      /\ \A c \in Calls, l \in Legs : plan[c].unwinds[l] \in Nat
  BY <1>a, PlanOps, CallsAssumption DEF TypeOK
<1>d. pc \in [Calls -> CallStates] /\ cur \in [Calls -> Legs] /\ sent \in [Legs -> Nat]
      /\ unwound \in [Legs -> Nat] /\ executed \in [Legs -> Nat]
  BY <1>a DEF TypeOK
<1>h. ASSUME \A l \in Legs : sent'[l] = sent[l] /\ unwound'[l] <= sent[l]
      PROVE  NoInversePosition'
  <2>1. \A l \in Legs : sent[l] <= Backing(l)'
    BY <1>c, <1>e, <1>f DEF NoInversePosition
  <2>2. QED
    BY <1>h, <2>1 DEF NoInversePosition
<1>2. ASSUME UNCHANGED <<pc, cur, ibVars, structVars>>,
             \A l \in Legs : HasRow(l)' <=> HasRow(l)
      PROVE  PlacerAlone' /\ PlacedHasRow' /\ RowMeansStarted' /\ NoInversePosition'
  <2>1. PlacerAlone'
    BY <1>2, <1>c DEF PlacerAlone, ibVars
  <2>2. PlacedHasRow' /\ RowMeansStarted'
    BY <1>2, <1>c DEF PlacedHasRow, RowMeansStarted, ibVars, structVars
  <2>3. NoInversePosition'
    BY <1>2, <1>c, <1>h DEF NoInversePosition, ibVars
  <2>4. QED
    BY <2>1, <2>2, <2>3
<1>3. ASSUME NEW c \in Calls, InsertUnwind(c)
      PROVE  PlacerAlone' /\ PlacedHasRow' /\ RowMeansStarted' /\ NoInversePosition'
  <2>1. PICK l \in Legs : /\ ~HasRow(l)
                          /\ cur' = [cur EXCEPT ![c] = l]
                          /\ pc' = [pc EXCEPT ![c] = "qualify"]
                          /\ unwind' = [unwind EXCEPT ![l] =
                               [state |-> "pending", qty |-> plan[c].unwinds[l], filled |-> 0]]
    BY <1>3, <1>a DEF InsertUnwind, ToUnwind, Goto, TypeOK
  <2>2. HasRow(l)'
    BY <2>1, <1>a DEF TypeOK, HasRow, None
  <2>3. UNCHANGED <<sent, unwound, reffed, ibUnwind>> /\ started' = TRUE
    BY <1>3, <1>a DEF InsertUnwind, CommitTxn, RowMeansStarted, ibVars, TypeOK
  <2>4. PlacerAlone'
    <3>1. sent[l] = 0
      BY <2>1, <1>c DEF PlacedHasRow
    <3>2. \A d \in Calls : pc[d] \in Placing => cur[d] # l
      BY <2>1 DEF PlacerAlone
    <3>3. \A d \in Calls \ {c} : pc'[d] = pc[d] /\ cur'[d] = cur[d]
      BY <2>1, <1>d
    <3>4. pc'[c] = "qualify" /\ cur'[c] = l
      BY <2>1, <1>d
    <3>5. \A d \in Calls : pc'[d] \in Placing => (HasRow(cur[d]) /\ sent[cur[d]] = 0)'
      <4>1. ASSUME NEW d \in Calls \ {c}, pc'[d] \in Placing PROVE (HasRow(cur[d]) /\ sent[cur[d]] = 0)'
        <5>1. HasRow(cur[d]) /\ sent[cur[d]] = 0 /\ cur[d] \in Legs
          BY <3>3, <4>1, <1>c DEF PlacerAlone
        <5>2. QED
          BY <1>b, <2>3, <3>3, <5>1 DEF HasRow
      <4>2. (HasRow(cur[c]) /\ sent[cur[c]] = 0)'
        BY <2>2, <2>3, <3>1, <3>4 DEF HasRow
      <4>3. QED
        BY <4>1, <4>2
    <3>6. \A d, e \in Calls : pc'[d] \in Placing /\ pc'[e] \in Placing /\ cur'[d] = cur'[e] => d = e
      BY <3>2, <3>3, <3>4 DEF PlacerAlone
    <3>7. QED
      BY <3>5, <3>6 DEF PlacerAlone
  <2>5. PlacedHasRow'
    BY <1>b, <1>c, <1>d, <2>1, <2>3 DEF PlacedHasRow, HasRow
  <2>6. RowMeansStarted'
    BY <2>3 DEF RowMeansStarted
  <2>7. NoInversePosition'
    BY <2>3, <1>h DEF NoInversePosition
  <2>8. QED
    BY <2>4, <2>5, <2>6, <2>7
<1>4. ASSUME NEW c \in Calls, PlaceUnwind(c)
      PROVE  PlacerAlone' /\ PlacedHasRow' /\ RowMeansStarted' /\ NoInversePosition'
  <2> DEFINE k == cur[c]
  <2>1. /\ k \in Legs /\ HasRow(k) /\ sent[k] = 0
        /\ pc' = [pc EXCEPT ![c] = "stamp"] /\ pc[c] = "place"
        /\ \A d \in Calls \ {c} : pc[d] \in Placing => cur[d] # k
    BY <1>4, <1>c DEF PlaceUnwind, Goto, PlacerAlone, Placing
  <2>2. UNCHANGED <<unwind, cur, unwound, structVars>>
    BY <1>4 DEF PlaceUnwind, rowVars
  <2>3. sent' = [sent EXCEPT ![k] = plan[c].unwinds[k]] /\ reffed' = reffed \cup {k}
        /\ ibUnwind' = [ibUnwind EXCEPT ![k] = "working"]
    <3>1. sent[k] + plan[c].unwinds[k] = plan[c].unwinds[k]
      BY <2>1, <1>c
    <3>2. QED
      BY <1>4, <3>1 DEF PlaceUnwind
  <2>4. PlacerAlone'
    <3>1. \A d \in Calls : pc'[d] \in Placing => d # c /\ pc[d] \in Placing
      BY <2>1, <1>d DEF Placing
    <3>2. QED
      BY <2>1, <2>2, <2>3, <3>1, <1>c, <1>d DEF PlacerAlone, HasRow
  <2>5. PlacedHasRow'
    <3>1. \A l \in Legs \ {k} : sent'[l] = sent[l] /\ ibUnwind'[l] = ibUnwind[l]
      BY <2>3, <1>a DEF TypeOK
    <3>2. \A l \in Legs : HasRow(l)' <=> HasRow(l)
      BY <2>2 DEF HasRow
    <3>3. \A l \in Legs : sent'[l] > 0 \/ l \in reffed' \/ ibUnwind'[l] # "none" => HasRow(l)'
      BY <2>1, <2>3, <3>1, <3>2 DEF PlacedHasRow
    <3>4. \A d \in Calls : pc'[d] = "stamp" => HasRow(cur[d])'
      BY <2>1, <2>2, <3>2, <1>c, <1>d DEF PlacedHasRow
    <3>5. QED
      BY <2>2, <3>3, <3>4 DEF PlacedHasRow, HasRow
  <2>6. RowMeansStarted'
    BY <2>1, <2>2, <1>d DEF RowMeansStarted, HasRow, structVars
  <2>7. NoInversePosition'
    <3>1. sent'[k] = plan[c].unwinds[k] /\ unwound[k] = 0
          /\ \A l \in Legs \ {k} : sent'[l] = sent[l]
      BY <2>1, <2>3, <1>c, <1>d DEF NoInversePosition
    <3>2. \A l \in Legs : plan[c].unwinds[l] <= Backing(l)' /\ sent[l] <= Backing(l)'
      BY <1>c, <1>e, <1>f DEF PlansBacked, NoInversePosition
    <3>3. ASSUME NEW l \in Legs PROVE sent'[l] <= Backing(l)' /\ unwound'[l] <= sent'[l]
      <4>1. CASE l = k
        BY <2>2, <3>1, <3>2, <4>1, <1>c
      <4>2. CASE l # k
        BY <2>2, <3>1, <3>2, <4>2, <1>c DEF NoInversePosition
      <4>3. QED
        BY <4>1, <4>2
    <3>4. QED
      BY <3>3 DEF NoInversePosition
  <2>8. QED
    BY <2>4, <2>5, <2>6, <2>7
<1>5. ASSUME NEW c \in Calls, Claim(c)
      PROVE  PlacerAlone' /\ PlacedHasRow' /\ RowMeansStarted' /\ NoInversePosition'
  <2>1. UNCHANGED <<unwind, cur, ibVars>> /\ pc[c] = "claim" /\ lock = None
    BY <1>5 DEF Claim, rowVars
  <2>2. \/ pc' = [pc EXCEPT ![c] = "done"] /\ started' = TRUE
        \/ pc' = [pc EXCEPT ![c] = "insert"] /\ started' = started /\ (started \/ lock' = c)
    <3>1. CASE ToUnwind(c) = {}
      BY <1>5, <3>1 DEF Claim, Goto
    <3>2. CASE ToUnwind(c) # {}
      BY <1>5, <3>2 DEF Claim, Goto
    <3>3. QED
      BY <3>1, <3>2
  <2>3. \A d \in Calls \ {c} : pc'[d] = pc[d]
    BY <2>2, <1>d
  <2>4. pc'[c] \in {"done", "insert"}
    BY <2>2, <1>d
  <2>5. PlacerAlone'
    BY <2>1, <2>3, <2>4 DEF PlacerAlone, Placing, HasRow, ibVars
  <2>6. PlacedHasRow' /\ NoInversePosition'
    BY <2>1, <2>3, <2>4, <1>h DEF PlacedHasRow, NoInversePosition, HasRow, ibVars
  <2>7. RowMeansStarted'
    <3>1. \A d \in Calls : pc[d] = "insert" => started
      BY <2>1, <1>c DEF RowMeansStarted
    <3>2. QED
      BY <2>1, <2>2, <2>3, <2>4, <3>1 DEF RowMeansStarted, HasRow
  <2>8. QED
    BY <2>5, <2>6, <2>7
<1>6. ASSUME NEW c \in Calls, UNCHANGED ibVars,
             \A l \in Legs : HasRow(l)' <=> HasRow(l),
             UNCHANGED cur, UNCHANGED structVars,
             \A d \in Calls \ {c} : pc'[d] = pc[d],
             \/ pc'[c] \in {"claim", "done"}
             \/ pc[c] = "qualify" /\ pc'[c] = "place"
             \/ pc[c] \in {"qualify", "stamp"} /\ pc'[c] = "insert"
      PROVE  PlacerAlone' /\ PlacedHasRow' /\ RowMeansStarted' /\ NoInversePosition'
  <2>1. PlacerAlone'
    <3>1. \A d \in Calls : pc'[d] \in Placing => pc[d] \in Placing
      BY <1>6 DEF Placing
    <3>2. QED
      BY <1>6, <3>1, <1>c DEF PlacerAlone, ibVars
  <2>2. PlacedHasRow' /\ NoInversePosition'
    BY <1>6, <1>c, <1>h DEF PlacedHasRow, NoInversePosition, ibVars
  <2>3. RowMeansStarted'
    <3>1. pc'[c] = "insert" => started
      BY <1>6, <1>c DEF RowMeansStarted, PlacerAlone, Placing, PlacedHasRow
    <3>2. QED
      BY <1>6, <3>1 DEF RowMeansStarted, structVars
  <2>4. QED
    BY <2>1, <2>2, <2>3
<1>7. ASSUME NEW c \in Calls, InsertConflicts(c) \/ CallFails(c)
      PROVE  PlacerAlone' /\ PlacedHasRow' /\ RowMeansStarted' /\ NoInversePosition'
  <2>1. UNCHANGED <<unwind, ibVars, started>> /\ lock' = (IF lock = c THEN None ELSE lock)
    BY <1>7 DEF InsertConflicts, CallFails, AbortTxn, rowVars
  <2>2. /\ pc'[c] \in {"conflict", "done"}
        /\ \A d \in Calls \ {c} : pc'[d] = pc[d] /\ cur'[d] = cur[d]
    <3>1. CASE InsertConflicts(c)
      BY <3>1, <1>d DEF InsertConflicts, Goto
    <3>2. CASE CallFails(c)
      BY <3>2, <1>d DEF CallFails, Goto
    <3>3. QED
      BY <1>7, <3>1, <3>2
  <2>3. PlacerAlone'
    BY <2>1, <2>2 DEF PlacerAlone, Placing, HasRow, ibVars
  <2>4. PlacedHasRow' /\ NoInversePosition'
    BY <2>1, <2>2, <1>h DEF PlacedHasRow, NoInversePosition, HasRow, ibVars
  <2>5. RowMeansStarted'
    BY <2>1, <2>2 DEF RowMeansStarted, HasRow
  <2>6. QED
    BY <2>3, <2>4, <2>5
<1>8. ASSUME Crash
      PROVE  PlacerAlone' /\ PlacedHasRow' /\ RowMeansStarted' /\ NoInversePosition'
  <2>1. UNCHANGED <<unwind, cur, ibVars, started>>
        /\ \A d \in Calls : pc'[d] \in {"idle", "conflict", "done"}
    BY <1>8, <1>d DEF Crash, rowVars
  <2>2. QED
    BY <2>1, <1>h DEF PlacerAlone, Placing, PlacedHasRow, RowMeansStarted, NoInversePosition,
       HasRow, ibVars
<1>9. ASSUME NEW k \in Legs, UnwindExecute(k) \/ UnwindCancelled(k)
      PROVE  PlacerAlone' /\ PlacedHasRow' /\ RowMeansStarted' /\ NoInversePosition'
  <2>1. UNCHANGED <<unwind, sent, reffed, pc, cur, structVars>> /\ ibUnwind[k] = "working"
    BY <1>9 DEF UnwindExecute, UnwindCancelled, rowVars, callVars
  <2>2. \A l \in Legs \ {k} : ibUnwind'[l] = ibUnwind[l] /\ unwound'[l] = unwound[l]
    BY <1>9, <1>a DEF UnwindExecute, UnwindCancelled, TypeOK
  <2>3. unwound'[k] <= sent[k]
    BY <1>9, <1>c, <1>d DEF UnwindExecute, UnwindCancelled, NoInversePosition
  <2>4. PlacerAlone' /\ RowMeansStarted'
    BY <2>1 DEF PlacerAlone, RowMeansStarted, HasRow, structVars
  <2>5. PlacedHasRow'
    BY <2>1, <2>2 DEF PlacedHasRow, HasRow
  <2>6. NoInversePosition'
    BY <2>1, <2>2, <2>3, <1>h DEF NoInversePosition
  <2>7. QED
    BY <2>4, <2>5, <2>6
<1>10. CASE \E c \in Calls : InsertUnwind(c)
  BY <1>1, <1>3, <1>10
<1>11. CASE \A c \in Calls : ~InsertUnwind(c)
  <2>1. \A l \in Legs : HasRow(l)' <=> HasRow(l)
    BY <1>11, RowStep
  <2>2. ASSUME NEW c \in Calls,
               \/ Load(c) \/ NotQualified(c) \/ ClaimRow(c)
               \/ PlaceRaises(c) \/ StampUnwind(c)
        PROVE  PlacerAlone' /\ PlacedHasRow' /\ RowMeansStarted' /\ NoInversePosition'
    <3>1. UNCHANGED <<ibVars, cur, structVars>>
      BY <2>2 DEF Load, NotQualified, ClaimRow, PlaceRaises, StampUnwind
    <3>2. \/ pc' = [pc EXCEPT ![c] = "claim"] \/ pc' = [pc EXCEPT ![c] = "done"]
          \/ pc[c] = "qualify" /\ pc' = [pc EXCEPT ![c] = "place"]
          \/ pc[c] \in {"qualify", "stamp"} /\ pc' = [pc EXCEPT ![c] = "insert"]
      BY <2>2 DEF Load, NotQualified, ClaimRow, PlaceRaises, StampUnwind, NextLeg, Goto
    <3>3. /\ \A d \in Calls \ {c} : pc'[d] = pc[d]
          /\ \/ pc'[c] \in {"claim", "done"}
             \/ pc[c] = "qualify" /\ pc'[c] = "place"
             \/ pc[c] \in {"qualify", "stamp"} /\ pc'[c] = "insert"
      BY <3>2, <1>d
    <3>4. QED
      BY <1>6, <2>1, <3>1, <3>3
  <2>3. ASSUME NEW l \in Legs,
               \/ EntryExecute(l) \/ EntryStops(l) \/ OnEntryFill(l) \/ OnEntryStatus(l)
               \/ ReapEntry(l) \/ MirrorEntry(l)
               \/ OnUnwindFill(l) \/ OnUnwindStatus(l)
               \/ ReapUnwind(l) \/ RepairUnwind(l) \/ AdoptUnwind(l)
        PROVE  UNCHANGED <<pc, cur, ibVars, structVars>>
    BY <2>3 DEF EntryExecute, EntryStops, OnEntryFill, OnEntryStatus, ReapEntry, MirrorEntry,
       EntryLeavesRest, OnUnwindFill, OnUnwindStatus, ReapUnwind, RepairUnwind, AdoptUnwind, RowLeavesRest, callVars
  <2>4. ASSUME Rehydrate \/ UNCHANGED vars
        PROVE  UNCHANGED <<pc, cur, ibVars, structVars>>
    BY <2>4 DEF Rehydrate, vars, callVars
  <2>5. CASE UNCHANGED <<pc, cur, ibVars, structVars>>
    BY <1>1, <1>2, <2>1, <2>5
  <2>6. QED
    BY <1>1, <1>4, <1>5, <1>7, <1>8, <1>9, <1>11, <2>2, <2>3, <2>4, <2>5
    DEF Next, CallStep, LegStep
<1>12. QED
  BY <1>10, <1>11

-----------------------------------------------------------------------------
\* The invariant is inductive, hence holds throughout.
THEOREM InvHolds == Spec => []Inv
<1>1. Init => Inv
  BY InitInv
<1>2. Inv /\ [Next]_vars => Inv'
  BY TypeStep, ProtocolStep DEF Inv
<1>3. QED
  BY <1>1, <1>2, PTL DEF Spec

\* The rows, the IB orders and the calls of a rollback keep their types.
THEOREM TypeCorrect == Spec => []TypeOK
<1>1. Inv => TypeOK
  BY DEF Inv
<1>2. QED
  BY <1>1, InvHolds, PTL

\* EXEC-3 for any number of legs, contracts, racing calls and crashes: a leg is
\* never unwound beyond what IB executed of its entry order, or, once the reconciler
\* filled its row from the mirror, beyond the order's quantity.
THEOREM NoInverseHolds == Spec => []NoInversePosition
<1>1. Inv => NoInversePosition
  BY DEF Inv, Protocol
<1>2. QED
  BY <1>1, InvHolds, PTL

\* No unwind is handed to IB before rollback_started_at is committed.
THEOREM StartedFirstHolds == Spec => []StartedBeforePlaced
<1>1. Inv => StartedBeforePlaced
  BY DEF Inv, Protocol, PlacedHasRow, RowMeansStarted, StartedBeforePlaced
<1>2. QED
  BY <1>1, InvHolds, PTL
=============================================================================
