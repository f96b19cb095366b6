\* A manager edits a profile while the investor unsubscribes.
CONSTANTS
  i1 = i1  d1 = d1  d2 = d2  v1 = v1  v2 = v2  e1 = e1  k1 = k1  k2 = k2
  None = None
  Investors   = {i1}
  Dispatchers = {d1}
  Visitors    = {v1}
  Editors     = {e1}
  Keys        = {k1}
  Responses   = {"NOT_INTERESTED"}
  Stages      = {"COMMITTED"}
  MaxRequests = 3
  MaxMishaps  = 0

SPECIFICATION Spec

PROPERTIES
  OptOutKept

\* The system stops when every request is used up.
CHECK_DEADLOCK FALSE
