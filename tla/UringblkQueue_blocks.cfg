SPECIFICATION Spec

CONSTANTS
  Rqs = {r1, r2}
  Ctxs = {c1, c2}
  NULL = NULL
  Backends = {"virtual"}
  CapS = 8
  LBS = 2
  PageS = 2
  Ops = {"read", "write", "flush", "discard", "drv", "zeroes"}
  Shapes <- BlockShapes
  Vals = {zero, v}
  Zero = zero
  MaxRequests = 3

INVARIANTS
  OneAddressPerSector

CHECK_DEADLOCK FALSE
