SPECIFICATION FairSpec

CONSTANTS
  Rqs = {r1, r2}
  Ctxs = {c1, c2}
  NULL = NULL
  Backends = {"virtual"}
  CapS = 2
  LBS = 1
  PageS = 2
  Ops = {"read", "write", "discard"}
  Shapes <- PageShapes
  Vals = {zero, v}
  Zero = zero
  MaxRequests = 2

PROPERTIES
  EveryRequestEnds

CHECK_DEADLOCK FALSE
