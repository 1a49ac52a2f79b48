\* Two previews, two submit requests, one halt.
CONSTANTS
  p1 = p1
  p2 = p2
  Previews = {p1, p2}
  Calls = {c1, c2}
  Requests <- MCRequests
  Surfaces <- MCSurfaces
  Modes = {"mock", "live"}
  BaseQty = 1
  MaxBookVega = 20
  CapVega = 20
  CapDelta = 40
  MaxNotional = 100
  MaxFlips = 1
SYMMETRY CallSymmetry
SPECIFICATION Spec
INVARIANTS OneOutcome GateJudgesTheOrders QuietHaltHolds
CHECK_DEADLOCK FALSE
