\* Two handlers serve two approvals of one property, with losses and faults.
CONSTANTS
  h1 = h1  h2 = h2  a1 = a1  a2 = a2
  house = house  shop = shop  grant = grant  good = good  malformed = malformed
  Nobody = Nobody
  None = None
  Handlers    = {h1, h2}
  Approvals   = {a1, a2}
  Properties  = {house}
  Operations  <- JustRecords
  Plans       <- OnePlan
  Refreshes   = {FALSE}
  Keys        = {good}
  ValidKeys   = {good}
  MinuteLimit = 1
  MaxMishaps  = 1
  MaxLost     = 1
  Grants      = {grant}
  Amounts     = {2}

SYMMETRY Symmetry

SPECIFICATION PaidSpec

INVARIANTS
  PaidTypeOK
  CreditBuysEvidence
  OpenIsOwned
  FreeOnlyAfterRelease
  OneUse
  LeaseExclusive

PROPERTIES
  OutcomesFinal
  FollowsLedger

\* The system stops when every approval is used up or expired.
CHECK_DEADLOCK FALSE
