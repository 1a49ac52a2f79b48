SPECIFICATION Spec
CONSTANTS
  Lot = 2
  Callers = {c1}
  Monitors = {loop}
  Partial = FALSE
  Faults = TRUE
  Scenarios = {"operator", "monitor", "hedge"}
  Outlives = FALSE
  Unstamped = FALSE
  MaxOrders = 2
  MaxAlerts = 2
  MaxHedges = 2
  Contexts <- MCContexts
  Deltas <- MCDeltas
  NoDelta = NoDelta
INVARIANTS NoOverClose LiveCloseIsReserved UrgentAlertExits HedgesNeverOvershoot
PROPERTIES  NoCloseCountsForever
CHECK_DEADLOCK FALSE
