SPECIFICATION Spec
CONSTANTS
  Lot = 2
  Callers = {c1}
  Monitors = {loop}
  Partial = FALSE
  Faults = TRUE
  Scenarios = {"operator"}
  Outlives = FALSE
  Unstamped = TRUE
  MaxOrders = 3
  MaxAlerts = 2
  MaxHedges = 2
  Contexts <- MCContexts
  Deltas <- MCDeltas
  NoDelta = NoDelta
INVARIANT OneLiveClose
CHECK_DEADLOCK FALSE
