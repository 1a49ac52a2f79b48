\* One leg of two contracts, two calls, one crash.
CONSTANTS
  Legs = {l1}
  Qty <- TwoEach
  Calls = {c1, c2}
  MaxCrashes = 1
SPECIFICATION Spec
INVARIANTS TypeOK NoInversePosition StartedBeforePlaced
PROPERTY UnwindKnown
