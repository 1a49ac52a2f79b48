-------------------------- MODULE LiveSubmitProofs --------------------------
(***************************************************************************)
(* For any number of legs, calls and crashes, whatever the deployment: the *)
(* type invariant of LiveSubmit, and that a leg is sent to IB at most      *)
(* once, that a free claim means nothing was placed and that IB ids are    *)
(* real.  The claim alone is not inductive: what carries the argument is   *)
(* that one call at most is between its claim and its last commit, and     *)
(* that the legs it still has to place were never placed.                  *)
(***************************************************************************)
EXTENDS LiveSubmit, FiniteSetTheorems, TLAPS

\* A call past its claim owns it, alone.
OneOwner ==
  /\ \A c \in Calls : pc[c] \in Owning => claimed
  /\ \A c, d \in Calls : pc[c] \in Owning /\ pc[d] \in Owning => c = d

\* Until its first placement, the owner's structure has nothing at IB.
OwnerStartsClean ==
  \A c \in Calls : pc[c] \in {"select", "prepare"} => \A l \in Legs : placed[l] = 0

\* The legs a call still holds are its owner's, and none was ever placed.
HeldLegsUnplaced ==
  \A c \in Calls : \A l \in orders[c] : pc[c] \in {"prepare", "place", "commit"} /\ placed[l] = 0

\* Whatever names an IB order names one that was placed.
NamedMeansPlaced ==
  /\ \A l \in open \cup seen : placed[l] >= 1
  /\ \A l \in Legs : ref[l] # NoLeg => placed[l] >= 1
  /\ \A l \in Legs : ibOrderId[l] => placed[l] >= 1
  /\ \A c \in Calls : pc[c] \in {"commit", "commit_combo"} =>
                        cur[c] \in Legs /\ placed[cur[c]] >= 1

Inv ==
  /\ TypeOK
  /\ ClaimFreeMeansNothingPlaced
  /\ OneOwner
  /\ OwnerStartsClean
  /\ HeldLegsUnplaced
  /\ SinglePlacement
  /\ NamedMeansPlaced

-----------------------------------------------------------------------------
\* The initial states satisfy Inv.
LEMMA InitInv == Init => Inv
<1> SUFFICES ASSUME Init PROVE Inv
  OBVIOUS
<1>1. TypeOK
  <2>1. useCombo \in BOOLEAN
    BY ComboModesAssumption DEF Init
  <2>2. crashes \in 0..MaxCrashes
    BY MaxCrashesAssumption DEF Init
  <2>3. QED
    BY <2>1, <2>2 DEF Init, TypeOK, PcStates, RowStates, NoLeg
<1>2. ClaimFreeMeansNothingPlaced /\ SinglePlacement
  BY DEF Init, ClaimFreeMeansNothingPlaced, SinglePlacement
<1>3. OneOwner /\ OwnerStartsClean /\ HeldLegsUnplaced
  BY DEF Init, OneOwner, OwnerStartsClean, HeldLegsUnplaced, Owning
<1>4. NamedMeansPlaced
  BY DEF Init, NamedMeansPlaced
<1>5. QED
  BY <1>1, <1>2, <1>3, <1>4 DEF Inv

\* Every step keeps the types.  That a committed leg is a leg at all comes from
\* NamedMeansPlaced.
LEMMA TypeStep == Inv /\ [Next]_vars => TypeOK'
<1> USE NLegsAssumption, ComboModesAssumption, MaxCrashesAssumption
<1> SUFFICES ASSUME TypeOK, NamedMeansPlaced, [Next]_vars PROVE TypeOK'
  BY DEF Inv
<1> USE DEF TypeOK, NoLeg, PcStates, Owning, RowStates
<1>1. ASSUME NEW c \in Calls, CallStep(c), UNCHANGED useCombo PROVE TypeOK'
  <2>1. CASE Start(c)
    BY <1>1, <2>1 DEF Start, Goto, rowVars, ibVars, sessVars
  <2>2. CASE Claim(c)
    BY <1>1, <2>2 DEF Claim, Goto, rowVars, ibVars, sessVars
  <2>3. CASE Select(c)
    BY <1>1, <2>3 DEF Select, Goto, rowVars, ibVars, sessVars, PendingLegs
  <2>4. CASE Prepare(c)
    BY <1>1, <2>4 DEF Prepare, Goto, rowVars, ibVars, sessVars
  <2>5. CASE PrepareFails(c)
    BY <1>1, <2>5 DEF PrepareFails, Finish, Goto, rowVars, ibVars, sessVars
  <2>6. CASE PlaceLeg(c)
    BY <1>1, <2>6 DEF PlaceLeg, Goto, rowVars
  <2>7. CASE PlaceLegFails(c)
    BY <1>1, <2>7 DEF PlaceLegFails, Finish, Goto, rowVars, ibVars, sessVars
  <2>8. CASE CommitLeg(c)
    BY <1>1, <2>8 DEF CommitLeg, Goto, ibVars, NamedMeansPlaced
  <2>9. CASE CommitLegFails(c)
    BY <1>1, <2>9 DEF CommitLegFails, Finish, Goto, rowVars, ibVars, sessVars
  <2>10. CASE PlaceCombo(c)
    BY <1>1, <2>10 DEF PlaceCombo, Goto, rowVars
  <2>11. CASE PlaceComboFails(c)
    BY <1>1, <2>11 DEF PlaceComboFails, Finish, Goto, rowVars, ibVars, sessVars
  <2>12. CASE CommitCombo(c)
    BY <1>1, <2>12 DEF CommitCombo, Finish, Goto, ibVars, sessVars
  <2>13. CASE CommitComboFails(c)
    BY <1>1, <2>13 DEF CommitComboFails, Finish, Goto, rowVars, ibVars, sessVars
  <2>14. QED
    BY <1>1, <2>1, <2>2, <2>3, <2>4, <2>5, <2>6, <2>7, <2>8, <2>9, <2>10, <2>11, <2>12, <2>13
    DEF CallStep
<1>2. ASSUME NEW r \in Legs, IbFill(r) \/ IbCancel(r) \/ OnOrderDone(r), UNCHANGED useCombo
      PROVE TypeOK'
  BY <1>2 DEF IbFill, IbCancel, OnOrderDone, OpenRowStates, rowVars, callVars, ibVars, sessVars
<1>3. CASE Crash /\ UNCHANGED useCombo
  BY <1>3 DEF Crash, rowVars, ibVars
<1>4. CASE Restart /\ UNCHANGED useCombo
  BY <1>4 DEF Restart, rowVars, callVars, ibVars
<1>5. CASE Rehydrate /\ UNCHANGED useCombo
  BY <1>5 DEF Rehydrate, OpenRowStates, callVars, ibVars
<1>6. CASE AdoptOrphanedOrders /\ UNCHANGED useCombo
  BY <1>6 DEF AdoptOrphanedOrders, callVars, ibVars, sessVars
<1>7. CASE UNCHANGED vars
  BY <1>7 DEF vars, rowVars, callVars, ibVars, sessVars
<1>8. QED
  BY <1>1, <1>2, <1>3, <1>4, <1>5, <1>6, <1>7 DEF Next

\* The claim protocol, step by step: everything in Inv but the types.
Protocol ==
  /\ ClaimFreeMeansNothingPlaced
  /\ OneOwner
  /\ OwnerStartsClean
  /\ HeldLegsUnplaced
  /\ SinglePlacement
  /\ NamedMeansPlaced

\* Every step preserves the claim protocol.
LEMMA ProtocolStep == Inv /\ [Next]_vars => Protocol'
<1> SUFFICES ASSUME Inv, [Next]_vars PROVE Protocol'
  OBVIOUS
<1> USE DEF Inv, TypeOK, Protocol, ClaimFreeMeansNothingPlaced, OneOwner, OwnerStartsClean,
            HeldLegsUnplaced, SinglePlacement, NamedMeansPlaced, Owning, PcStates
<1>1. ASSUME NEW c \in Calls, CallStep(c) PROVE Protocol'
  <2>1. CASE Start(c)
    BY <1>1, <2>1 DEF Start, Goto, rowVars, ibVars, sessVars
  <2>2. CASE Claim(c)
    BY <1>1, <2>2 DEF Claim, Goto, rowVars, ibVars, sessVars
  <2>3. CASE Select(c)
    BY <1>1, <2>3 DEF Select, Goto, rowVars, ibVars, sessVars, PendingLegs
  <2>4. CASE Prepare(c)
    BY <1>1, <2>4 DEF Prepare, Goto, rowVars, ibVars, sessVars
  <2>5. CASE PrepareFails(c)
    BY <1>1, <2>5 DEF PrepareFails, Finish, Goto, rowVars, ibVars, sessVars
  <2>6. CASE PlaceLeg(c)
    BY <1>1, <2>6 DEF PlaceLeg, Goto, rowVars
  <2>7. CASE PlaceLegFails(c)
    BY <1>1, <2>7 DEF PlaceLegFails, Finish, Goto, rowVars, ibVars, sessVars
  <2>8. CASE CommitLeg(c)
    BY <1>1, <2>8 DEF CommitLeg, Goto, ibVars
  <2>9. CASE CommitLegFails(c)
    BY <1>1, <2>9 DEF CommitLegFails, Finish, Goto, rowVars, ibVars, sessVars
  <2>10. CASE PlaceCombo(c)
    BY <1>1, <2>10 DEF PlaceCombo, Goto, rowVars
  <2>11. CASE PlaceComboFails(c)
    BY <1>1, <2>11 DEF PlaceComboFails, Finish, Goto, rowVars, ibVars, sessVars
  <2>12. CASE CommitCombo(c)
    <3>1. cur[c] \in Legs /\ cur[c] # NoLeg
      BY <2>12, NLegsAssumption DEF CommitCombo, Legs, NoLeg
    <3>2. \A l \in Legs : ibOrderId'[l] => placed[l] >= 1
      BY <2>12, <3>1 DEF CommitCombo
    <3>3. QED
      BY <2>12, <3>2 DEF CommitCombo, Finish, Goto, ibVars, sessVars
  <2>13. CASE CommitComboFails(c)
    BY <1>1, <2>13 DEF CommitComboFails, Finish, Goto, rowVars, ibVars, sessVars
  <2>14. QED
    BY <1>1, <2>1, <2>2, <2>3, <2>4, <2>5, <2>6, <2>7, <2>8, <2>9, <2>10, <2>11, <2>12, <2>13
    DEF CallStep
<1>2. ASSUME NEW r \in Legs, IbFill(r) \/ IbCancel(r) \/ OnOrderDone(r)
      PROVE Protocol'
  BY <1>2 DEF IbFill, IbCancel, OnOrderDone, rowVars, callVars, ibVars, sessVars
<1>3. CASE Crash
  BY <1>3 DEF Crash, rowVars, ibVars
<1>4. CASE Restart
  BY <1>4 DEF Restart, rowVars, callVars, ibVars
<1>5. CASE Rehydrate
  BY <1>5 DEF Rehydrate, callVars, ibVars
<1>6. CASE AdoptOrphanedOrders
  BY <1>6 DEF AdoptOrphanedOrders, callVars, ibVars, sessVars
<1>7. CASE UNCHANGED vars
  BY <1>7 DEF vars, rowVars, callVars, ibVars, sessVars
<1>8. QED
  BY <1>1, <1>2, <1>3, <1>4, <1>5, <1>6, <1>7 DEF Next

-----------------------------------------------------------------------------
\* Inv is an inductive invariant of the submission.
THEOREM InvHolds == Spec => []Inv
<1>1. Inv /\ [Next]_vars => Inv'
  BY TypeStep, ProtocolStep DEF Inv, Protocol
<1>2. QED
  BY InitInv, <1>1, PTL DEF Spec

\* Type correctness of submit_structure_live and its recovery paths.
THEOREM TypeCorrect == Spec => []TypeOK
<1>1. Inv => TypeOK
  BY DEF Inv
<1>2. QED
  BY InvHolds, <1>1, PTL

\* EXEC-1 for any number of legs, concurrent calls and crashes: submit_structure_live
\* sends no leg to IB twice.
THEOREM SinglePlacementHolds == Spec => []SinglePlacement
<1>1. Inv => SinglePlacement
  BY DEF Inv
<1>2. QED
  BY InvHolds, <1>1, PTL

\* A free claim (the structure can be submitted again) means nothing of it ever
\* reached IB: _release_submit_claim is called on zero-placement failures only.
THEOREM ClaimFreeHolds == Spec => []ClaimFreeMeansNothingPlaced
<1>1. Inv => ClaimFreeMeansNothingPlaced
  BY DEF Inv
<1>2. QED
  BY InvHolds, <1>1, PTL

\* The commit, the rehydration and the reaper's adoption stamp an IB id on placed
\* legs only, and never on a leg a running call is still going to place.
THEOREM IdsAreRealHolds == Spec => []IdsAreReal
<1>1. Inv => IdsAreReal
  <2> SUFFICES ASSUME Inv PROVE IdsAreReal
    OBVIOUS
  <2>1. \A l \in Legs : ibOrderId[l] => placed[l] >= 1
    BY DEF Inv, NamedMeansPlaced
  <2>2. \A c \in Calls : \A l \in orders[c] : l \in Legs /\ placed[l] = 0
    BY DEF Inv, HeldLegsUnplaced, TypeOK
  <2>3. QED
    BY <2>1, <2>2 DEF IdsAreReal
<1>2. QED
  BY InvHolds, <1>1, PTL

-----------------------------------------------------------------------------
(* Refinement: the racing, failing and dying calls implement SubmitOnce. *)

\* Nothing touches the row of a leg that was not placed, nothing executes unplaced.
UnplacedUntouched ==
  /\ \A l \in Legs : placed[l] = 0 => rowState[l] = "pending"
  /\ \A r \in executed : placed[r] >= 1

\* What is at IB is a prefix of the structure.
PlacedIsPrefix == \A l, m \in Legs : m < l /\ placed[l] >= 1 => placed[m] >= 1

\* The owner still holds every leg that is not at IB.
OwnerHoldsRest ==
  \A c \in Calls : pc[c] \in {"prepare", "place", "commit"} =>
    \A l \in Legs : placed[l] = 0 => l \in orders[c]

\* A structure that goes out as a BAG is whole until it does.
BagWhole ==
  useCombo /\ NLegs >= 2 =>
    \A c \in Calls : /\ pc[c] # "commit"
                     /\ pc[c] = "place" => \A l \in Legs : placed[l] = 0

OnceInv == UnplacedUntouched /\ PlacedIsPrefix /\ OwnerHoldsRest /\ BagWhole

LEMMA InitOnceInv == Init => OnceInv
BY DEF Init, OnceInv, UnplacedUntouched, PlacedIsPrefix, OwnerHoldsRest, BagWhole

\* The legs themselves, counted.
LEMMA LegsCounted == IsFiniteSet(Legs) /\ Cardinality(Legs) = NLegs
<1>1. 1 \in Int /\ NLegs \in Int /\ NLegs - 1 + 1 = NLegs /\ ~(1 > NLegs)
  BY NLegsAssumption
<1>2. QED
  BY <1>1, FS_Interval DEF Legs

\* While nothing is placed the owner of a BAG structure takes the combo path, and it
\* is the only one that does.
LEMMA ComboIsBag ==
  ASSUME Inv, OnceInv, NEW c \in Calls, pc[c] = "place"
  PROVE  /\ useCombo /\ NLegs >= 2 => ComboPath(c) /\ orders[c] = Legs
         /\ ComboPath(c) => useCombo /\ NLegs >= 2
<1>1. orders[c] \subseteq Legs
  BY DEF Inv, TypeOK
<1>2. Cardinality(orders[c]) \in Nat /\ Cardinality(orders[c]) <= NLegs
  BY <1>1, LegsCounted, FS_Subset, FS_CardinalityType
<1>3. ASSUME useCombo, NLegs >= 2 PROVE ComboPath(c) /\ orders[c] = Legs
  <2>1. Legs \subseteq orders[c]
    BY <1>3 DEF OnceInv, BagWhole, OwnerHoldsRest
  <2>2. orders[c] = Legs
    BY <1>1, <2>1
  <2>3. QED
    BY <1>3, <2>2, LegsCounted DEF ComboPath
<1>4. ASSUME ComboPath(c) PROVE useCombo /\ NLegs >= 2
  BY <1>2, <1>4, NLegsAssumption DEF ComboPath
<1>5. QED
  BY <1>3, <1>4

\* OnceInv reads no more than this of the state.
onceVars == <<useCombo, rowState, pc, orders, placed, executed>>

\* A call that ends, or moves on without placing, keeps what it held.
LEMMA OnceQuiet ==
  ASSUME TypeOK, OnceInv, UNCHANGED <<useCombo, rowState, placed, executed>>,
         \A c \in Calls : \/ pc'[c] \in PcStates \ {"prepare", "place", "commit"}
                          \/ pc'[c] = pc[c] /\ orders'[c] = orders[c]
  PROVE  OnceInv'
BY DEF OnceInv, UnplacedUntouched, PlacedIsPrefix, OwnerHoldsRest, BagWhole, PcStates, Owning

\* Every step keeps the placement in order.
LEMMA OnceStep == Inv /\ OnceInv /\ [Next]_vars => OnceInv'
<1> SUFFICES ASSUME Inv, OnceInv, [Next]_vars PROVE OnceInv'
  OBVIOUS
<1>0. TypeOK
  BY DEF Inv
<1>1. ASSUME NEW c \in Calls, CallStep(c), UNCHANGED useCombo PROVE OnceInv'
  <2>1. CASE Start(c) \/ Claim(c) \/ PrepareFails(c) \/ PlaceLegFails(c) \/ PlaceComboFails(c)
             \/ CommitLegFails(c) \/ CommitComboFails(c)
    <3>1. UNCHANGED <<rowState, placed, executed>>
      BY <2>1 DEF Start, Claim, PrepareFails, PlaceLegFails, PlaceComboFails, CommitLegFails,
         CommitComboFails, rowVars, ibVars
    <3>2. pc'[c] \in {"claim", "select", "done"}
      BY <2>1, <1>0 DEF Start, Claim, PrepareFails, PlaceLegFails, PlaceComboFails, CommitLegFails,
         CommitComboFails, Goto, Finish, TypeOK
    <3>3. \A d \in Calls : d # c => pc'[d] = pc[d] /\ orders'[d] = orders[d]
      BY <2>1, <1>0 DEF Start, Claim, PrepareFails, PlaceLegFails, PlaceComboFails, CommitLegFails,
         CommitComboFails, Goto, Finish, TypeOK
    <3>4. {"claim", "select", "done"} \subseteq PcStates \ {"prepare", "place", "commit"}
      BY DEF PcStates, Owning
    <3>5. QED
      BY <1>0, <1>1, <3>1, <3>2, <3>3, <3>4, OnceQuiet
  <2>2. CASE Select(c)
    <3>1. \A l \in Legs : placed[l] = 0
      BY <2>2 DEF Select, Inv, OwnerStartsClean
    <3>2. PendingLegs = Legs
      BY <3>1, <1>0 DEF PendingLegs, Inv, NamedMeansPlaced, OnceInv, UnplacedUntouched, TypeOK
    <3>3. /\ UNCHANGED <<rowState, placed, executed>>
          /\ orders' = [orders EXCEPT ![c] = Legs]
          /\ pc'[c] \in {"prepare", "done"}
          /\ \A d \in Calls : d # c => pc'[d] = pc[d]
      BY <2>2, <3>2, <1>0 DEF Select, Goto, TypeOK, rowVars, ibVars
    <3>4. QED
      BY <1>0, <1>1, <3>1, <3>3 DEF OnceInv, UnplacedUntouched, PlacedIsPrefix, OwnerHoldsRest, BagWhole,
         TypeOK
  <2>3. CASE Prepare(c)
    <3>1. \A l \in Legs : placed[l] = 0
      BY <2>3 DEF Prepare, Inv, OwnerStartsClean
    <3>2. UNCHANGED <<rowState, placed, executed, orders>> /\ pc[c] = "prepare"
          /\ pc' = [pc EXCEPT ![c] = "place"]
      BY <2>3 DEF Prepare, Goto, rowVars, ibVars
    <3>3. QED
      BY <1>0, <1>1, <3>1, <3>2 DEF OnceInv, UnplacedUntouched, PlacedIsPrefix, OwnerHoldsRest, BagWhole,
         TypeOK
  <2>4. CASE PlaceLeg(c)
    <3>1. ~(useCombo /\ NLegs >= 2)
      BY <2>4, ComboIsBag DEF PlaceLeg
    <3>2. PICK l \in orders[c] : /\ \A m \in orders[c] : l <= m
                                /\ placed' = [placed EXCEPT ![l] = @ + 1]
                                /\ orders' = [orders EXCEPT ![c] = @ \ {l}]
      BY <2>4 DEF PlaceLeg
    <3>3. /\ UNCHANGED <<rowState, executed>> /\ pc[c] = "place"
          /\ pc' = [pc EXCEPT ![c] = "commit"]
      BY <2>4 DEF PlaceLeg, Goto, rowVars
    <3>4. l \in Legs /\ \A m \in Legs : placed[m] \in Nat /\ placed'[m] \in Nat
      BY <1>0, <3>2 DEF TypeOK
    <3>5. \A m \in Legs : placed'[m] = IF m = l THEN placed[m] + 1 ELSE placed[m]
      BY <1>0, <3>2 DEF TypeOK
    <3>6. \A m \in Legs : placed[m] = 0 => m \in orders[c]
      BY <3>3 DEF OnceInv, OwnerHoldsRest
    <3>7. \A m \in Legs : m < l => placed[m] >= 1
      BY <3>2, <3>4, <3>6 DEF Legs
    <3>8. PlacedIsPrefix'
      BY <3>4, <3>5, <3>7 DEF PlacedIsPrefix, OnceInv
    <3>9. UnplacedUntouched'
      <4>1. executed \subseteq Legs
        BY <1>0 DEF TypeOK
      <4>2. QED
        BY <3>3, <3>4, <3>5, <4>1 DEF UnplacedUntouched, OnceInv
    <3>10. OwnerHoldsRest'
      <4>1. \A d \in Calls : d # c => pc[d] \notin Owning
        BY <3>3 DEF Inv, OneOwner, Owning
      <4>2. \A d \in Calls : d # c => pc'[d] = pc[d]
        BY <1>0, <3>3 DEF TypeOK
      <4>3. orders'[c] = orders[c] \ {l}
        BY <1>0, <3>2 DEF TypeOK
      <4>4. \A m \in Legs : placed'[m] = 0 => m \in orders'[c]
        BY <3>4, <3>5, <3>6, <4>3
      <4>5. QED
        BY <4>1, <4>2, <4>4 DEF OwnerHoldsRest, Owning
    <3>11. BagWhole'
      BY <1>1, <3>1 DEF BagWhole
    <3>12. QED
      BY <3>8, <3>9, <3>10, <3>11 DEF OnceInv
  <2>5. CASE PlaceCombo(c)
    <3>1. orders[c] = Legs
      BY <2>5, ComboIsBag DEF PlaceCombo
    <3>2. /\ UNCHANGED <<rowState, executed>> /\ pc[c] = "place"
          /\ pc' = [pc EXCEPT ![c] = "commit_combo"]
          /\ placed' = [l \in Legs |-> placed[l] + 1]
      BY <2>5, <3>1 DEF PlaceCombo, Goto, rowVars
    <3>3. \A l \in Legs : placed'[l] >= 1 /\ placed'[l] # 0
      BY <1>0, <3>2 DEF TypeOK
    <3>4. \A d \in Calls : pc'[d] \notin {"place", "commit"}
      BY <1>0, <3>2 DEF Inv, OneOwner, Owning, TypeOK
    <3>5. executed \subseteq Legs
      BY <1>0 DEF TypeOK
    <3>6. QED
      BY <3>2, <3>3, <3>4, <3>5 DEF OnceInv, UnplacedUntouched, PlacedIsPrefix, OwnerHoldsRest, BagWhole
  <2>6. CASE CommitLeg(c)
    <3>1. /\ UNCHANGED <<placed, executed, orders>> /\ pc[c] = "commit"
          /\ pc'[c] \in {"done", "place"}
          /\ \A d \in Calls : d # c => pc'[d] = pc[d]
          /\ rowState' = [rowState EXCEPT ![cur[c]] = "submitted"]
      BY <2>6, <1>0 DEF CommitLeg, Goto, TypeOK, ibVars
    <3>2. cur[c] \in Legs /\ placed[cur[c]] >= 1
      BY <3>1 DEF Inv, NamedMeansPlaced
    <3>3. UnplacedUntouched'
      BY <1>0, <3>1, <3>2 DEF UnplacedUntouched, OnceInv, TypeOK
    <3>4. QED
      BY <1>1, <3>1, <3>3 DEF OnceInv, PlacedIsPrefix, OwnerHoldsRest, BagWhole
  <2>7. CASE CommitCombo(c)
    <3>1. /\ UNCHANGED <<placed, executed>> /\ pc[c] = "commit_combo"
          /\ pc'[c] = "done"
          /\ \A d \in Calls : d # c => pc'[d] = pc[d] /\ orders'[d] = orders[d]
          /\ \A l \in Legs : rowState'[l] = IF ref[l] = cur[c] THEN "submitted" ELSE rowState[l]
      BY <2>7, <1>0 DEF CommitCombo, Finish, Goto, TypeOK, ibVars
    <3>2. cur[c] \in Legs /\ cur[c] # NoLeg
      BY <3>1, NLegsAssumption DEF Inv, NamedMeansPlaced, Legs, NoLeg
    <3>3. \A l \in Legs : ref[l] = cur[c] => placed[l] >= 1
      BY <3>2 DEF Inv, NamedMeansPlaced
    <3>4. UnplacedUntouched'
      BY <3>1, <3>3 DEF UnplacedUntouched, OnceInv
    <3>5. QED
      BY <1>1, <3>1, <3>4 DEF OnceInv, PlacedIsPrefix, OwnerHoldsRest, BagWhole
  <2>8. QED
    BY <1>1, <2>1, <2>2, <2>3, <2>4, <2>5, <2>6, <2>7 DEF CallStep
<1>2. ASSUME UNCHANGED <<useCombo, pc, orders, placed>>, UnplacedUntouched' PROVE OnceInv'
  BY <1>2 DEF OnceInv, PlacedIsPrefix, OwnerHoldsRest, BagWhole
<1>3. ASSUME NEW r \in Legs, IbFill(r) \/ IbCancel(r) \/ OnOrderDone(r), UNCHANGED useCombo
      PROVE  OnceInv'
  <2>1. UNCHANGED <<pc, orders, placed, ref>>
    BY <1>3 DEF IbFill, IbCancel, OnOrderDone, callVars, ibVars
  <2>2. \A q \in executed' : q \in executed \/ q \in open
    BY <1>3 DEF IbFill, IbCancel, OnOrderDone, ibVars
  <2>3. \A l \in Legs : rowState'[l] = rowState[l] \/ ref[l] = r
    BY <1>3 DEF IbFill, IbCancel, OnOrderDone, rowVars
  <2>4. \A l \in Legs : ref[l] = r => placed[l] >= 1
    BY NLegsAssumption DEF Inv, NamedMeansPlaced, Legs, NoLeg
  <2>5. UnplacedUntouched'
    BY <2>1, <2>2, <2>3, <2>4 DEF UnplacedUntouched, OnceInv, Inv, NamedMeansPlaced
  <2>6. QED
    BY <1>2, <1>3, <2>1, <2>5
<1>4. CASE Crash /\ UNCHANGED useCombo
  <2>1. UNCHANGED <<rowState, placed, executed>>
    BY <1>4 DEF Crash, rowVars, ibVars
  <2>2. \A d \in Calls : pc'[d] \in {"idle", "done"}
    BY <1>4, <1>0 DEF Crash, TypeOK
  <2>3. {"idle", "done"} \subseteq PcStates \ {"prepare", "place", "commit"}
    BY DEF PcStates, Owning
  <2>4. QED
    BY <1>0, <1>4, <2>1, <2>2, <2>3, OnceQuiet
<1>5. CASE (Restart \/ Rehydrate \/ AdoptOrphanedOrders) /\ UNCHANGED useCombo
  <2>1. UNCHANGED <<pc, orders, placed, executed>>
    BY <1>5 DEF Restart, Rehydrate, AdoptOrphanedOrders, callVars, ibVars
  <2>2. \A l \in Legs : rowState'[l] = rowState[l] \/ l \in executed \cup open \cup seen
    BY <1>5 DEF Restart, Rehydrate, AdoptOrphanedOrders, rowVars
  <2>3. UnplacedUntouched'
    BY <2>1, <2>2 DEF UnplacedUntouched, OnceInv, Inv, NamedMeansPlaced
  <2>4. QED
    BY <1>2, <1>5, <2>1, <2>3
<1>6. CASE UNCHANGED vars
  BY <1>0, <1>6, OnceQuiet DEF vars, rowVars, callVars, ibVars
<1>7. QED
  BY <1>1, <1>3, <1>4, <1>5, <1>6 DEF Next

\* The invariant behind the refinement: the placement goes in order, and a BAG is whole.
THEOREM OnceInvHolds == Spec => [](Inv /\ OnceInv)
<1>1. Inv /\ OnceInv /\ [Next]_vars => (Inv /\ OnceInv)'
  BY TypeStep, ProtocolStep, OnceStep DEF Inv, Protocol
<1>2. Init => Inv /\ OnceInv
  BY InitInv, InitOnceInv
<1>3. QED
  BY <1>1, <1>2, PTL DEF Spec

\* SubmitOnce's view of the state.
bagView == useCombo /\ NLegs >= 2
namedView == {l \in Legs : ibOrderId[l]}
onceView == <<bagView, claimed, placed, namedView>>

\* The initial states map to those of SubmitOnce.
LEMMA OnceInitially == Init => Once!OnceInit
BY DEF Init, Once!OnceInit, Once!Legs, Legs

\* A step that only stamps ids is a naming step of SubmitOnce.
LEMMA NamingStep ==
  ASSUME Inv', UNCHANGED <<useCombo, claimed, placed>>,
         \A l \in Legs : ibOrderId[l] => ibOrderId'[l]
  PROVE  Once!OnceNext
<1>1. UNCHANGED bagView /\ namedView \subseteq namedView'
  BY DEF bagView, namedView
<1>2. \A l \in Legs : ibOrderId'[l] => placed'[l] = 1
  <2>1. \A l \in Legs : ibOrderId'[l] => placed'[l] >= 1 /\ placed'[l] <= 1 /\ placed'[l] \in Nat
    BY DEF Inv, NamedMeansPlaced, SinglePlacement, TypeOK
  <2>2. QED
    BY <2>1
<1>3. Once!Name
  BY <1>1, <1>2 DEF Once!Name, Once!Legs, Legs, namedView
<1>4. QED
  BY <1>1, <1>3 DEF Once!OnceNext, bagView

\* Every step of the calls, of IB and of the recovery paths is a step of SubmitOnce or
\* leaves it unchanged.
LEMMA OnceRefined == Inv /\ OnceInv /\ [Next]_vars /\ Inv' => [Once!OnceNext]_onceView
<1> SUFFICES ASSUME Inv, OnceInv, [Next]_vars, Inv' PROVE Once!OnceNext \/ UNCHANGED onceView
  OBVIOUS
<1>0. TypeOK
  BY DEF Inv
<1>1. ASSUME UNCHANGED <<useCombo, claimed, placed, ibOrderId>> PROVE UNCHANGED onceView
  BY <1>1 DEF onceView, bagView, namedView
<1>2. ASSUME NEW c \in Calls, CallStep(c), UNCHANGED useCombo
      PROVE  Once!OnceNext \/ UNCHANGED onceView
  <2>1. CASE Start(c) \/ Select(c) \/ Prepare(c) \/ PlaceLegFails(c) \/ PlaceComboFails(c)
             \/ CommitLegFails(c) \/ CommitComboFails(c)
    BY <1>1, <1>2, <2>1 DEF Start, Select, Prepare, PlaceLegFails, PlaceComboFails, CommitLegFails,
       CommitComboFails, rowVars, ibVars
  <2>2. CASE Claim(c)
    <3>1. UNCHANGED <<bagView, placed, namedView>> /\ claimed'
      BY <1>2, <2>2 DEF Claim, rowVars, ibVars, bagView, namedView
    <3>2. CASE claimed
      BY <3>1, <3>2, <1>0 DEF onceView, TypeOK, Inv
    <3>3. CASE ~claimed
      <4>1. Once!Take
        BY <2>2, <3>1, <3>3 DEF Once!Take, Claim, namedView
      <4>2. QED
        BY <3>1, <4>1 DEF Once!OnceNext, bagView
    <3>4. QED
      BY <3>2, <3>3
  <2>3. CASE PrepareFails(c)
    <3>1. claimed /\ \A l \in Legs : placed[l] = 0
      BY <2>3 DEF PrepareFails, Inv, OneOwner, OwnerStartsClean, Owning
    <3>2. UNCHANGED <<bagView, placed, namedView>> /\ claimed' = FALSE
      BY <1>2, <2>3 DEF PrepareFails, rowVars, ibVars, bagView, namedView
    <3>3. Once!Release
      BY <3>1, <3>2 DEF Once!Release, Once!Legs, Legs, namedView
    <3>4. QED
      BY <3>2, <3>3 DEF Once!OnceNext, bagView
  <2>4. CASE PlaceLeg(c)
    <3>1. ~bagView /\ pc[c] = "place" /\ claimed
      BY <2>4, ComboIsBag DEF PlaceLeg, bagView, Inv, OneOwner, Owning
    <3>2. PICK l \in orders[c] : /\ \A m \in orders[c] : l <= m
                                /\ placed' = [placed EXCEPT ![l] = @ + 1]
      BY <2>4 DEF PlaceLeg
    <3>3. UNCHANGED <<bagView, claimed, namedView>>
      BY <1>2, <2>4 DEF PlaceLeg, rowVars, bagView, namedView
    <3>4. l \in Legs /\ placed[l] = 0
      BY <1>0, <3>2 DEF TypeOK, Inv, HeldLegsUnplaced
    <3>5. \A m \in Legs : placed[m] = IF m < l THEN 1 ELSE 0
      <4>1. ASSUME NEW m \in Legs, m < l PROVE placed[m] = 1
        <5>1. m \notin orders[c]
          BY <3>2, <3>4, <4>1 DEF Legs
        <5>2. placed[m] # 0
          BY <3>1, <5>1 DEF OnceInv, OwnerHoldsRest
        <5>3. placed[m] \in Nat /\ placed[m] <= 1
          BY <1>0 DEF TypeOK, Inv, SinglePlacement
        <5>4. QED
          BY <5>2, <5>3
      <4>2. ASSUME NEW m \in Legs, ~(m < l) PROVE placed[m] = 0
        <5>1. m = l \/ l < m
          BY <3>4, <4>2 DEF Legs
        <5>2. placed[m] \in Nat /\ (l < m => ~(placed[m] >= 1))
          BY <1>0, <3>4 DEF TypeOK, OnceInv, PlacedIsPrefix
        <5>3. QED
          BY <3>4, <5>1, <5>2
      <4>3. QED
        BY <4>1, <4>2
    <3>6. placed' = [placed EXCEPT ![l] = 1]
      BY <3>2, <3>4
    <3>7. Once!SendLeg(l)
      BY <3>1, <3>3, <3>5, <3>6 DEF Once!SendLeg, Once!Legs, Legs, bagView, namedView
    <3>8. QED
      BY <3>3, <3>4, <3>7 DEF Once!OnceNext, Once!Legs, Legs, bagView
  <2>5. CASE PlaceCombo(c)
    <3>1. bagView /\ orders[c] = Legs /\ pc[c] = "place" /\ claimed
      BY <2>5, ComboIsBag DEF PlaceCombo, bagView, Inv, OneOwner, Owning
    <3>2. \A l \in Legs : placed[l] = 0
      BY <3>1 DEF Inv, HeldLegsUnplaced
    <3>3. placed' = [l \in Legs |-> 1]
      BY <2>5, <3>1, <3>2 DEF PlaceCombo
    <3>4. UNCHANGED <<bagView, claimed, namedView>>
      BY <1>2, <2>5 DEF PlaceCombo, rowVars, bagView, namedView
    <3>5. Once!SendBag
      BY <3>1, <3>2, <3>3, <3>4 DEF Once!SendBag, Once!Legs, Legs, bagView, namedView
    <3>6. QED
      BY <3>4, <3>5 DEF Once!OnceNext, bagView
  <2>6. CASE CommitLeg(c)
    <3>1. UNCHANGED <<claimed, placed>>
      BY <2>6 DEF CommitLeg, ibVars
    <3>2. \A l \in Legs : ibOrderId[l] => ibOrderId'[l]
      BY <2>6, <1>0 DEF CommitLeg, TypeOK
    <3>3. QED
      BY <1>2, <3>1, <3>2, NamingStep
  <2>7. CASE CommitCombo(c)
    <3>1. UNCHANGED <<claimed, placed>>
      BY <2>7 DEF CommitCombo, ibVars
    <3>2. \A l \in Legs : ibOrderId[l] => ibOrderId'[l]
      BY <2>7 DEF CommitCombo
    <3>3. QED
      BY <1>2, <3>1, <3>2, NamingStep
  <2>8. QED
    BY <1>2, <2>1, <2>2, <2>3, <2>4, <2>5, <2>6, <2>7 DEF CallStep
<1>3. ASSUME NEW r \in Legs, IbFill(r) \/ IbCancel(r) \/ OnOrderDone(r), UNCHANGED useCombo
      PROVE  UNCHANGED onceView
  BY <1>1, <1>3 DEF IbFill, IbCancel, OnOrderDone, rowVars, ibVars
<1>4. CASE (Crash \/ Restart) /\ UNCHANGED useCombo
  BY <1>1, <1>4 DEF Crash, Restart, rowVars, ibVars
<1>5. CASE (Rehydrate \/ AdoptOrphanedOrders) /\ UNCHANGED useCombo
  <2>1. UNCHANGED <<claimed, placed>>
    BY <1>5 DEF Rehydrate, AdoptOrphanedOrders, ibVars
  <2>2. \A l \in Legs : ibOrderId[l] => ibOrderId'[l]
    BY <1>5 DEF Rehydrate, AdoptOrphanedOrders
  <2>3. QED
    BY <1>5, <2>1, <2>2, NamingStep
<1>6. CASE UNCHANGED vars
  BY <1>1, <1>6 DEF vars, rowVars, ibVars
<1>7. QED
  BY <1>2, <1>3, <1>4, <1>5, <1>6 DEF Next

\* submit_structure_live, whatever calls race, fail between their awaits or die with the
\* process, submits a structure once: in leg order or as one whole BAG, with the claim
\* given back only while nothing is at IB, and no id forgotten.
THEOREM SubmitsOnceHolds == Spec => SubmitsOnce
<1>1. Spec => Once!OnceInit
  BY OnceInitially DEF Spec
<1>2. (Inv /\ OnceInv) /\ (Inv /\ OnceInv)' /\ [Next]_vars => [Once!OnceNext]_onceView
  BY OnceRefined
<1>3. QED
  BY <1>1, <1>2, OnceInvHolds, PTL DEF Spec, SubmitsOnce, Once!Spec, onceView, bagView, namedView
=============================================================================
