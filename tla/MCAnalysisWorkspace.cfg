\* Two tabs of one browser work on the scenarios of a property while somebody
\* removes scenarios and archives the property.
CONSTANTS
  house = house  s1 = s1  s2 = s2  empty = empty  sum = sum  noted = noted
  t1 = t1  t2 = t2  h1 = h1  h2 = h2
  None = None
  Properties  = {house}
  Scenarios   = {s1, s2}
  Home        <- MCHome
  Contents    = {empty, sum, noted}
  Complete    = {sum, noted}
  Calculation <- MCCalculation
  Blank       = empty
  Kinds       = {"brief"}
  Handlers    = {h1, h2}
  MaxRevision = 2
  Tabs        = {t1, t2}
  MaxActs     = 4

SYMMETRY Symmetry

SPECIFICATION Spec

INVARIANTS
  TypeOK
  SavesBuildOnSaved
  AcknowledgedIsStored
  ReportsBacked
  GuardReleased
  CleanIsStored
  ShownIsCurrent
  ReportIsOfRevision

PROPERTIES
  HistoryImmutable

\* The system stops when everything allowed has been done.
CHECK_DEADLOCK FALSE
