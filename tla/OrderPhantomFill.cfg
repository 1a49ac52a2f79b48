\* One leg of two contracts, no fault.
CONSTANTS
  Legs = {l1}
  Qty <- TwoEach
  Shared = {}
  MaxFaults = 0
  MaxCancels = 0
SPECIFICATION Spec
INVARIANT NoPhantomFill
