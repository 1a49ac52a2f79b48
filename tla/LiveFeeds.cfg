\* A one-leg book, scans longer than a cycle, any number of Gateway and Redis outages.
CONSTANTS
  t1 = t1
  leg1 = leg1
  Tenors = {t1}
  Legs = {leg1}
  TenorOf <- MCTenorOf
  MAX_SCAN = 4
SPECIFICATION Spec
INVARIANTS NoFalseAlarm UnflaggedGreeksAreFresh ScansOwnChains
