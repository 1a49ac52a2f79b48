------------------------------ MODULE IbSession ------------------------------
(***************************************************************************)
(* The execution engine's ready gate (engines/execution/ib_session.py):    *)
(* mutating routes are served only while `ready` is set.  Four parties     *)
(* drive it on one event loop: IB's error codes 1100 / 1101 / 1102 / 507,  *)
(* the loss of the API socket, the reconnect watchdog                      *)
(* (shared/ib_connection.py) and the reconciliation passes the watchdog,   *)
(* the startup code and code 1101 trigger, serialised by a lock.           *)
(***************************************************************************)
EXTENDS Naturals

CONSTANT MaxSpawned   \* bound on 1101-triggered passes waiting for the lock

ASSUME MaxSpawnedAssumption == MaxSpawned \in Nat

VARIABLES
  socket,        \* executor.is_connected(): the API socket to the gateway
  upstream,      \* the gateway's own link to IB (what 1100..1102 report on)
  ready,         \* SessionState.ready
  readyReason,   \* SessionState.ready_reason
  downSince,     \* SessionState.upstream_down_since IS NOT None
  watchdog,      \* "poll" | "connecting" | "connected" | "await_pass" | "startup"
  wasConnected,  \* maintain_ib_connection's local
  spawned,       \* passes spawned by a 1101 that have not taken the lock yet
  pass,          \* the pass holding the lock: "none" | "rehydrate" | "steps"
  passBy,        \* who waits for that pass: "none" | "watchdog" | "1101"
  passFresh,     \* history: it began on the current connection, after the last 1101
  synced         \* history: such a pass has completed

gate == <<ready, readyReason>>
link == <<socket, upstream>>
dog  == <<watchdog, wasConnected>>
passVars == <<spawned, pass, passBy>>
history  == <<passFresh, synced>>
vars == <<link, gate, downSince, dog, passVars, history>>

Reasons == {"not_started", "ready", "ib_upstream_down", "ib_socket_closed",
            "ib_disconnected", "ib_not_connected", "reconciliation_in_progress"}

TypeOK ==
  /\ socket \in BOOLEAN /\ upstream \in BOOLEAN
  /\ ready \in BOOLEAN /\ readyReason \in Reasons /\ downSince \in BOOLEAN
  /\ watchdog \in {"poll", "connecting", "connected", "await_pass", "startup"}
  /\ wasConnected \in BOOLEAN
  /\ spawned \in 0..MaxSpawned
  /\ pass \in {"none", "rehydrate", "steps"}
  /\ passBy \in {"none", "watchdog", "1101"}
  /\ passFresh \in BOOLEAN /\ synced \in BOOLEAN

close(reason) == ready' = FALSE /\ readyReason' = reason
openGate == ready' = TRUE /\ readyReason' = "ready"

\* lifespan: the startup connect has been tried and the supervisor installed;
\* with a connection the startup pass begins at once (no await in between) and
\* ends before the watchdog starts.
Init ==
  /\ socket \in BOOLEAN /\ upstream = TRUE
  /\ ready = FALSE /\ downSince = FALSE
  /\ readyReason = (IF socket THEN "reconciliation_in_progress" ELSE "not_started")
  /\ watchdog = (IF socket THEN "startup" ELSE "poll")
  /\ wasConnected = FALSE
  /\ spawned = 0
  /\ pass = (IF socket THEN "rehydrate" ELSE "none")
  /\ passBy = (IF socket THEN "watchdog" ELSE "none")
  /\ passFresh = socket /\ synced = FALSE

-----------------------------------------------------------------------------
(* IB events: on_error and on_disconnected *)

\* Code 1100: the gateway lost IB; the API socket stays up.  With the socket
\* down nobody is told.
UpstreamLost ==
  /\ upstream /\ upstream' = FALSE
  /\ IF socket THEN close("ib_upstream_down") /\ downSince' = TRUE
               ELSE UNCHANGED <<gate, downSince>>
  /\ UNCHANGED <<socket, dog, passVars, history>>

\* Code 1102: IB is back, subscriptions kept; the gate reopens when 1100 closed it.
UpstreamRestoredDataKept ==
  /\ ~upstream /\ upstream' = TRUE
  /\ IF socket
       THEN /\ downSince' = FALSE
            /\ IF readyReason = "ib_upstream_down" THEN openGate ELSE UNCHANGED gate
       ELSE UNCHANGED <<gate, downSince>>
  /\ UNCHANGED <<socket, dog, passVars, history>>

\* Code 1101: IB is back, subscriptions lost; a full pass is spawned.
UpstreamRestoredDataLost ==
  /\ ~upstream /\ upstream' = TRUE
  /\ IF socket
       THEN /\ spawned < MaxSpawned
            /\ downSince' = FALSE /\ spawned' = spawned + 1
            /\ passFresh' = FALSE /\ synced' = FALSE
       ELSE UNCHANGED <<downSince, spawned, history>>
  /\ UNCHANGED <<socket, gate, dog, pass, passBy>>

\* The socket goes down.  disconnectedEvent is best effort: it is delivered at
\* once (on_disconnected), preceded or not by a 507, or never.
SocketDrop ==
  /\ socket /\ socket' = FALSE
  /\ \/ close("ib_disconnected")
     \/ close("ib_socket_closed")
     \/ UNCHANGED gate
  /\ passFresh' = FALSE /\ synced' = FALSE
  /\ UNCHANGED <<upstream, downSince, dog, passVars>>

-----------------------------------------------------------------------------
(* maintain_ib_connection *)

\* Fault: the poll drops its on_lost hook.
PollForgetsLost ==
  /\ watchdog = "poll" /\ ~socket
  /\ wasConnected' = FALSE /\ watchdog' = "connecting"
  /\ UNCHANGED <<gate, link, downSince, passVars, history>>

\* One poll that finds the socket down: on_lost once, then executor.connect.
PollDown ==
  /\ watchdog = "poll" /\ ~socket
  /\ IF wasConnected THEN close("ib_disconnected") ELSE UNCHANGED gate
  /\ wasConnected' = FALSE /\ watchdog' = "connecting"
  /\ UNCHANGED <<link, downSince, passVars, history>>

\* One poll that finds it up.
PollUp ==
  /\ watchdog = "poll" /\ socket
  /\ wasConnected' = TRUE
  /\ UNCHANGED <<link, gate, downSince, watchdog, passVars, history>>

\* connect() times out or is refused; it swallows its failure.
ConnectFails ==
  /\ watchdog = "connecting"
  /\ watchdog' = "poll"
  /\ UNCHANGED <<link, gate, downSince, wasConnected, passVars, history>>

\* connect() builds a new IB() and wires the session hooks, then awaits the
\* positions and account-summary subscriptions.
Connect ==
  /\ watchdog = "connecting"
  /\ socket' = TRUE /\ watchdog' = "connected"
  /\ UNCHANGED <<upstream, gate, downSince, wasConnected, passVars, history>>

\* run_pass with the lock in hand and the socket up: the gate closes and
\* rehydration starts.
BeginPass(who) ==
  /\ close("reconciliation_in_progress")
  /\ pass' = "rehydrate" /\ passBy' = who /\ passFresh' = TRUE

\* connect() returns: on_reconnected if the socket is still up; its pass takes a
\* free lock without yielding, else it waits.
ConnectReturns ==
  /\ watchdog = "connected"
  /\ watchdog' = (IF socket THEN "await_pass" ELSE "poll")
  /\ wasConnected' = (socket \/ wasConnected)
  /\ IF socket /\ pass = "none" THEN BeginPass("watchdog")
                                ELSE UNCHANGED <<gate, pass, passBy, passFresh>>
  /\ UNCHANGED <<link, downSince, spawned, synced>>

-----------------------------------------------------------------------------
(* run_pass *)

Waits(who) == IF who = "1101" THEN spawned > 0 ELSE watchdog = "await_pass"

\* The caller of a pass that is over, or refused, goes on.
Resume(who) ==
  IF who = "1101" THEN UNCHANGED dog
  ELSE /\ watchdog' = "poll"
       /\ wasConnected' = (IF watchdog = "startup" THEN socket ELSE wasConnected)

Dequeue(who) == spawned' = (IF who = "1101" THEN spawned - 1 ELSE spawned)

\* The lock is taken with the socket down: the pass ends there.
PassRefused(who) ==
  /\ pass = "none" /\ Waits(who) /\ ~socket
  /\ close("ib_not_connected")
  /\ Dequeue(who) /\ Resume(who)
  /\ UNCHANGED <<link, downSince, pass, passBy, history>>

\* The lock is taken with the socket up.
PassStart(who) ==
  /\ pass = "none" /\ Waits(who) /\ socket
  /\ BeginPass(who)
  /\ Dequeue(who)
  /\ UNCHANGED <<link, downSince, dog, synced>>

\* rehydrate_session returned, failed or timed out: the extra steps run anyway.
PassSteps ==
  /\ pass = "rehydrate"
  /\ pass' = "steps"
  /\ UNCHANGED <<link, gate, downSince, dog, spawned, passBy, history>>

\* Fault: the end of the pass forgets the upstream check.
PassEndIgnoresUpstream ==
  /\ pass = "steps"
  /\ IF ~socket THEN close("ib_disconnected") ELSE openGate
  /\ pass' = "none" /\ passBy' = "none"
  /\ synced' = passFresh
  /\ Resume(passBy)
  /\ UNCHANGED <<link, downSince, spawned, passFresh>>

\* Fault: the end of the pass leaves the gate to the next event.
PassEndNeverOpens ==
  /\ pass = "steps"
  /\ UNCHANGED gate
  /\ pass' = "none" /\ passBy' = "none"
  /\ synced' = passFresh
  /\ Resume(passBy)
  /\ UNCHANGED <<link, downSince, spawned, passFresh>>

\* Fault: a reason outside the ones /health documents.
PassEndBadReason ==
  /\ pass = "steps"
  /\ close("pass_done")
  /\ pass' = "none" /\ passBy' = "none"
  /\ synced' = passFresh
  /\ Resume(passBy)
  /\ UNCHANGED <<link, downSince, spawned, passFresh>>

\* The end of the pass decides the gate on what the session is now.
PassEnd ==
  /\ pass = "steps"
  /\ IF ~socket THEN close("ib_disconnected")
     ELSE IF downSince THEN close("ib_upstream_down")
     ELSE openGate
  /\ pass' = "none" /\ passBy' = "none"
  /\ synced' = passFresh
  /\ Resume(passBy)
  /\ UNCHANGED <<link, downSince, spawned, passFresh>>

-----------------------------------------------------------------------------
Callers == {"watchdog", "1101"}

PassStep == (\E who \in Callers : PassRefused(who) \/ PassStart(who)) \/ PassSteps \/ PassEnd

WatchdogStep == PollDown \/ PollUp \/ ConnectFails \/ Connect \/ ConnectReturns

Next ==
  \/ UpstreamLost \/ UpstreamRestoredDataKept \/ UpstreamRestoredDataLost
  \/ SocketDrop
  \/ WatchdogStep
  \/ PassStep

\* The watchdog polls every interval and its connect, bounded by a timeout,
\* returns; a pass step is bounded by pass_timeout_s; asyncio.Lock wakes its
\* waiters in order.  Neither IB's events nor a successful connect are fair.
Fairness ==
  /\ WF_vars(PollDown) /\ WF_vars(PollUp)
  /\ WF_vars(ConnectFails \/ Connect) /\ WF_vars(ConnectReturns)
  /\ \A who \in Callers : SF_vars(PassRefused(who) \/ PassStart(who))
  /\ WF_vars(PassSteps) /\ WF_vars(PassEnd)

Spec == Init /\ [][Next]_vars /\ Fairness

-----------------------------------------------------------------------------
(* Properties *)

\* The gate is never open while the engine knows IB is unreachable (a 1100 with no
\* 1101 / 1102 since), whatever passes were in flight when the 1100 came in.
NoOrdersWhileUpstreamDown == ready => ~downSince

\* The drop of a connection the watchdog had seen up closes the gate even when
\* disconnectedEvent is never delivered: the poll is the guarantee.
DropClosesGate == (ready /\ ~socket /\ wasConnected) ~> ~ready

\* Once the socket stays up and no 1100 is on record, the gate opens again and again:
\* no interleaving of passes, codes and polls wedges it shut.  The record is what the
\* engine was told, not what IB is: GateRecovers is about the difference.
GateReopens == <>[](socket /\ ~downSince) => []<>ready

\* "The gate closes again on a socket drop or a 1100 and reopens only after the next
\* pass": with the socket and IB's own link up for good, the passes open it.  Not so:
\* a restoration IB announces while the socket is down reaches nobody, the 1100 stays
\* on record, and every pass on the new connection ends ib_upstream_down.
GateRecovers == <>[](socket /\ upstream) => []<>ready

\* "Mutating routes refuse ... until one full pass has completed on the current
\* connection": an open gate means such a pass has completed.
ReadyMeansReconciled == ready => synced
=============================================================================
