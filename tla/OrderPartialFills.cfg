\* One leg of two contracts: partial fills, every repair path, liveness.
CONSTANTS
  Legs = {l1}
  Qty <- TwoEach
  Shared = {}
  MaxFaults = 1
  MaxCancels = 1
SPECIFICATION Spec
INVARIANTS BookIsFold FilledRowStays
PROPERTIES OrderTerminates AllFilledBooked
