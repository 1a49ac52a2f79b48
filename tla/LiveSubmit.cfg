\* Two legs, three calls (a first attempt, a retry and a replay), two crashes,
\* both deployments (per-leg and BAG).
CONSTANTS
  NLegs = 2
  Calls = {c1, c2, c3}
  ComboModes = {TRUE, FALSE}
  MaxCrashes = 2
SPECIFICATION Spec
INVARIANTS TypeOK SinglePlacement IdsAreReal
PROPERTIES SubmitsOnce TradedLegKnown
