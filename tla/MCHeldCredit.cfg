\* An interrupted request: its credit is neither consumed nor released.
CONSTANTS
  h1 = h1  h2 = h2  a1 = a1  a2 = a2
  house = house  shop = shop  grant = grant  good = good  malformed = malformed
  Nobody = Nobody
  None = None
  Handlers    = {h1}
  Approvals   = {a1}
  Properties  = {house}
  Operations  <- JustRecords
  Plans       <- OnePlan
  Refreshes   = {FALSE}
  Keys        = {good}
  ValidKeys   = {good}
  MinuteLimit = 2
  MaxMishaps  = 1
  MaxLost     = 1
  Grants      = {grant}
  Amounts     = {2}

SPECIFICATION PaidFairSpec

PROPERTIES
  ReservationsSettle

\* The system stops when every approval is used up or expired.
CHECK_DEADLOCK FALSE
