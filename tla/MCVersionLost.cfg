\* An upload is committed and an update lands between the two reads that follow.
CONSTANTS
  None = None
  Documents   = {d1, d2}
  Contents    = {c1, c2}
  Handlers    = {h1, h2}
  Reports     = {r1, r2}
  Viewers     = {w1, w2}
  MaxVersion  = 2
  MaxRequests = 2
  MaxMishaps  = 0

SYMMETRY Symmetry

SPECIFICATION Spec

INVARIANT VersionsKeepTheirFile

CHECK_DEADLOCK FALSE
