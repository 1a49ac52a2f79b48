\* Two legs of one contract, one of them on a contract others trade too; no fault, no
\* cancel_trade call (order_partial_fills has both).
CONSTANTS
  Legs = {l1, l2}
  Qty <- OneEach
  Shared = {l1}
  MaxFaults = 0
  MaxCancels = 0
SPECIFICATION Spec
INVARIANTS TypeOK 
 
