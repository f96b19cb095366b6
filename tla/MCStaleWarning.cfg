\* A second approval passes the activity check before the first one's request.
CONSTANTS
  h1 = h1  h2 = h2  a1 = a1  a2 = a2
  house = house  good = good  malformed = malformed
  Nobody = Nobody
  Handlers    = {h1, h2}
  Approvals   = {a1, a2}
  Properties  = {house}
  Operations  <- MCOperations
  Plans       <- TwoPlans
  Refreshes   = {FALSE}
  Keys        = {good}
  ValidKeys   = {good}
  MinuteLimit = 1
  MaxMishaps  = 0
  MaxLost     = 0

SYMMETRY Symmetry

SPECIFICATION Spec

INVARIANTS
  FreshWarning

\* The system stops when every approval is used up or expired.
CHECK_DEADLOCK FALSE
