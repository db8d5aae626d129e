SPECIFICATION FairSpec

CONSTANTS
  Rqs = {r1, r2}
  Ctxs = {c1, c2}
  NULL = NULL
  Backends = {"virtual", "device"}
  CapS = 2
  LBS = 1
  PageS = 2
  Ops = {"read", "write", "flush", "discard", "drv", "zeroes"}
  Shapes <- PageShapes
  Vals = {zero, v}
  Zero = zero
  MaxRequests = 2

INVARIANTS
  TypeOK
  StatsTogether
  ContextsFreed

PROPERTIES
  ImplementsDisk
  EveryServedRequestEnds

CHECK_DEADLOCK FALSE
