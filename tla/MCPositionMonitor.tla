-------------------------- MODULE MCPositionMonitor --------------------------
(* Contexts and deltas for TLC (every exit rule alone, and the ties), and bounds. *)
EXTENDS PositionMonitor

Calm == [pc |-> TRUE, entryZ |-> 20, z |-> 18, dte |-> 90, days |-> 60, pnl |-> 0,
         vega |-> 2, regime |-> "calm"]

MCContexts ==
  {Calm,
   [Calm EXCEPT !.z = -6],
   [Calm EXCEPT !.z = 8, !.pnl = -7],
   [Calm EXCEPT !.z = 8, !.days = 6],
   [Calm EXCEPT !.z = 3, !.regime = "pre_event"],
   [Calm EXCEPT !.pc = FALSE, !.days = 20]}

MCDeltas == {-5, -1, 1, 3, 4}
=============================================================================
