--------------------------- MODULE IbSessionProofs ---------------------------
(***************************************************************************)
(* For any bound on queued passes: the types of the session supervisor,    *)
(* and that the gate is never open while a 1100 is outstanding.  With the  *)
(* types the gate property is inductive: 1100 closes the gate in the step  *)
(* that records it, 1102 clears the record in the step that opens it, and  *)
(* the end of a pass decides on the record as it is then.                  *)
(***************************************************************************)
EXTENDS IbSession, TLAPS

\* The gate: its types and the property.
GateInv ==
  /\ ready \in BOOLEAN /\ readyReason \in Reasons /\ downSince \in BOOLEAN
  /\ NoOrdersWhileUpstreamDown

\* The types of everything else.
RestTypes ==
  /\ socket \in BOOLEAN /\ upstream \in BOOLEAN
  /\ watchdog \in {"poll", "connecting", "connected", "await_pass", "startup"}
  /\ wasConnected \in BOOLEAN
  /\ spawned \in 0..MaxSpawned
  /\ pass \in {"none", "rehydrate", "steps"}
  /\ passBy \in {"none", "watchdog", "1101"}
  /\ passFresh \in BOOLEAN /\ synced \in BOOLEAN

Inv == GateInv /\ RestTypes

\* The initial states satisfy Inv.
LEMMA InitInv == Init => Inv
<1> SUFFICES ASSUME Init PROVE Inv
  OBVIOUS
<1>1. GateInv
  BY Zenon DEF Init, GateInv, NoOrdersWhileUpstreamDown, Reasons
<1>2. spawned \in 0..MaxSpawned
  BY MaxSpawnedAssumption DEF Init
<1>3. RestTypes
  BY <1>2, Zenon DEF Init, RestTypes
<1>4. QED
  BY <1>1, <1>3 DEF Inv

\* 1100 closes the gate in the step that records it, 1101 and 1102 clear the record,
\* and the end of a pass decides on the record as it is then.
LEMMA GateStep == Inv /\ [Next]_vars => GateInv'
<1> SUFFICES ASSUME GateInv, [Next]_vars PROVE GateInv'
  BY DEF Inv
<1> USE DEF GateInv, NoOrdersWhileUpstreamDown, Reasons
<1>1. CASE UpstreamLost
  BY <1>1, Zenon DEF UpstreamLost, close, gate, dog, passVars, history
<1>2. CASE UpstreamRestoredDataKept
  BY <1>2, Zenon DEF UpstreamRestoredDataKept, openGate, gate, dog, passVars, history
<1>3. CASE UpstreamRestoredDataLost
  BY <1>3, Zenon DEF UpstreamRestoredDataLost, gate, dog, history
<1>4. CASE SocketDrop
  <2>1. (ready' = FALSE /\ readyReason' \in Reasons) \/ UNCHANGED gate
    BY <1>4, Zenon DEF SocketDrop, close
  <2>2. UNCHANGED downSince
    BY <1>4 DEF SocketDrop
  <2>3. CASE ready' = FALSE /\ readyReason' \in Reasons
    BY <2>2, <2>3, Zenon
  <2>4. CASE UNCHANGED gate
    BY <2>2, <2>4 DEF gate
  <2>5. QED
    BY <2>1, <2>3, <2>4
<1>5. CASE PollDown
  BY <1>5, Zenon DEF PollDown, close, gate, link, passVars, history
<1>6. CASE PollUp
  BY <1>6, Zenon DEF PollUp, gate, link, passVars, history
<1>7. CASE ConnectFails
  BY <1>7, Zenon DEF ConnectFails, gate, link, passVars, history
<1>8. CASE Connect
  BY <1>8, Zenon DEF Connect, gate, passVars, history
<1>9. CASE ConnectReturns
  BY <1>9, Zenon DEF ConnectReturns, BeginPass, close, gate, link
<1>10. ASSUME NEW who \in Callers, PassRefused(who) PROVE GateInv'
  BY <1>10, Zenon DEF PassRefused, Waits, Dequeue, Resume, close, Callers, link, dog, history
<1>11. ASSUME NEW who \in Callers, PassStart(who) PROVE GateInv'
  BY <1>11, Zenon DEF PassStart, BeginPass, Waits, Dequeue, close, Callers, link, dog
<1>12. CASE PassSteps
  BY <1>12, Zenon DEF PassSteps, gate, link, dog, history
<1>13. CASE PassEnd
  BY <1>13, Zenon DEF PassEnd, Resume, close, openGate, link, dog
<1>14. CASE UNCHANGED vars
  BY <1>14 DEF vars, gate, link, dog, passVars, history
<1>15. QED
  BY <1>1, <1>2, <1>3, <1>4, <1>5, <1>6, <1>7, <1>8, <1>9, <1>10, <1>11, <1>12, <1>13, <1>14
  DEF Next, WatchdogStep, PassStep

\* Every step keeps the other types.
LEMMA RestStep == Inv /\ [Next]_vars => RestTypes'
<1> SUFFICES ASSUME RestTypes, [Next]_vars PROVE RestTypes'
  BY DEF Inv
<1> USE MaxSpawnedAssumption DEF RestTypes
<1>1. CASE UpstreamLost
  BY <1>1 DEF UpstreamLost, close, gate, dog, passVars, history
<1>2. CASE UpstreamRestoredDataKept
  BY <1>2 DEF UpstreamRestoredDataKept, openGate, gate, dog, passVars, history
<1>3. CASE UpstreamRestoredDataLost
  <2>1. CASE socket
    <3>1. spawned' \in 0..MaxSpawned
      BY <1>3, <2>1 DEF UpstreamRestoredDataLost
    <3>2. passFresh' = FALSE /\ synced' = FALSE /\ upstream' = TRUE
      BY <1>3, <2>1, Zenon DEF UpstreamRestoredDataLost
    <3>3. QED
      BY <1>3, <3>1, <3>2 DEF UpstreamRestoredDataLost, dog
  <2>2. CASE ~socket
    BY <1>3, <2>2 DEF UpstreamRestoredDataLost, dog, history
  <2>3. QED
    BY <2>1, <2>2
<1>4. CASE SocketDrop
  BY <1>4 DEF SocketDrop, close, gate, dog, passVars
<1>5. CASE PollDown
  BY <1>5 DEF PollDown, close, gate, link, passVars, history
<1>6. CASE PollUp
  BY <1>6 DEF PollUp, gate, link, passVars, history
<1>7. CASE ConnectFails
  BY <1>7 DEF ConnectFails, gate, link, passVars, history
<1>8. CASE Connect
  BY <1>8 DEF Connect, gate, passVars, history
<1>9. CASE ConnectReturns
  BY <1>9 DEF ConnectReturns, BeginPass, close, gate, link
<1>10. ASSUME NEW who \in Callers, PassRefused(who) PROVE RestTypes'
  BY <1>10 DEF PassRefused, Waits, Dequeue, Resume, close, Callers, link, dog, history
<1>11. ASSUME NEW who \in Callers, PassStart(who) PROVE RestTypes'
  BY <1>11 DEF PassStart, BeginPass, Waits, Dequeue, close, Callers, link, dog
<1>12. CASE PassSteps
  BY <1>12 DEF PassSteps, gate, link, dog, history
<1>13. CASE PassEnd
  BY <1>13 DEF PassEnd, Resume, close, openGate, link, dog
<1>14. CASE UNCHANGED vars
  BY <1>14 DEF vars, gate, link, dog, passVars, history
<1>15. QED
  BY <1>1, <1>2, <1>3, <1>4, <1>5, <1>6, <1>7, <1>8, <1>9, <1>10, <1>11, <1>12, <1>13, <1>14
  DEF Next, WatchdogStep, PassStep

\* Inv is an inductive invariant of the session supervisor.
THEOREM InvHolds == Spec => []Inv
<1>1. Inv /\ [Next]_vars => Inv'
  BY GateStep, RestStep DEF Inv
<1>2. QED
  BY InitInv, <1>1, PTL DEF Spec

\* Type correctness of the gate, the watchdog and the passes.
THEOREM TypeCorrect == Spec => []TypeOK
<1>1. Inv => TypeOK
  BY DEF Inv, GateInv, RestTypes, TypeOK
<1>2. QED
  BY InvHolds, <1>1, PTL

\* on_error, run_pass and the watchdog hooks never leave the gate open while the
\* engine has seen a 1100 with no 1101 or 1102 since.
THEOREM GateClosedWhileUpstreamDown == Spec => []NoOrdersWhileUpstreamDown
<1>1. Inv => NoOrdersWhileUpstreamDown
  BY DEF Inv, GateInv
<1>2. QED
  BY InvHolds, <1>1, PTL
=============================================================================
