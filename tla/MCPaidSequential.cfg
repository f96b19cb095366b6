\* One request at a time, with both operations, refreshes, malformed keys, a
\* minute that is used up, wrong and missing answers and a database failure.
CONSTANTS
  h1 = h1  h2 = h2  a1 = a1  a2 = a2
  house = house  shop = shop  grant = grant  good = good  malformed = malformed
  Nobody = Nobody
  None = None
  Handlers    = {h1}
  Approvals   = {a1, a2}
  Properties  = {house}
  Operations  <- MCOperations
  Plans       <- FullPlan
  Refreshes   = {FALSE, TRUE}
  Keys        = {good, malformed}
  ValidKeys   = {good}
  MinuteLimit = 1
  MaxMishaps  = 1
  MaxLost     = 0
  Grants      = {grant}
  Amounts     = {2}

SPECIFICATION PaidFairSpec

INVARIANTS
  RequestsAccounted
  EvidenceBacked

PROPERTIES
  ResearchConcludes
  SettledUnlessOrphaned

\* The system stops when every approval is used up or expired.
CHECK_DEADLOCK FALSE
