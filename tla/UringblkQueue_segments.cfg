SPECIFICATION Spec

CONSTANTS
  Rqs = {r1, r2}
  Ctxs = {c1, c2}
  NULL = NULL
  Backends = {"device"}
  CapS = 3
  LBS = 1
  PageS = 2
  Ops = {"read", "write", "flush", "discard", "drv", "zeroes"}
  Shapes <- AnyShape
  Vals = {zero, v}
  Zero = zero
  MaxRequests = 3

INVARIANTS
  OkMeansWhole

CHECK_DEADLOCK FALSE
