\* Two dispatches of one campaign race with each other, with the investor who
\* got the message and with a manager who edits the profile and the pipeline.
CONSTANTS
  i1 = i1  d1 = d1  d2 = d2  v1 = v1  v2 = v2  e1 = e1  k1 = k1  k2 = k2
  None = None
  Investors   = {i1}
  Dispatchers = {d1, d2}
  Visitors    = {v1}
  Editors     = {e1}
  Keys        = {k1, k2}
  Responses   = {"NOT_INTERESTED"}
  Stages      = {"COMMITTED", "WON"}
  MaxRequests = 3
  MaxMishaps  = 1

SPECIFICATION FairSpec

INVARIANTS
  TypeOK
  DeliveryBacked
  LinksAccounted

PROPERTIES
  RevokedForGood
  DispatchConcludes

\* The system stops when every request is used up.
CHECK_DEADLOCK FALSE
