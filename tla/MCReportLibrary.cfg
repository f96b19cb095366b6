\* Two requests at once over two documents, two file contents, two reports and
\* two viewers, with four requests and two mishaps.
CONSTANTS
  None = None
  Documents   = {d1, d2}
  Contents    = {c1, c2}
  Handlers    = {h1, h2}
  Reports     = {r1, r2}
  Viewers     = {w1, w2}
  MaxVersion  = 2
  MaxRequests = 4
  MaxMishaps  = 2

SYMMETRY Symmetry

SPECIFICATION Spec

INVARIANTS
  TypeOK
  FilesAccounted
  CatalogConsistent
  ReportsShowReviewed
  AccessEndsWithReport

\* The system stops when the requests are used up.
CHECK_DEADLOCK FALSE
