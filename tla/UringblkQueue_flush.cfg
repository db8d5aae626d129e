SPECIFICATION FairSpec

CONSTANTS
  Rqs = {r1, r2}
  Ctxs = {c1, c2}
  NULL = NULL
  Backends = {"device"}
  CapS = 3
  LBS = 1
  PageS = 2
  Ops = {"read", "write", "flush"}
  Shapes <- PageShapes
  Vals = {zero, v}
  Zero = zero
  MaxRequests = 2

PROPERTIES
  EveryRequestEnds

CHECK_DEADLOCK FALSE
