SPECIFICATION SpecModule
CONSTANTS
  Threads = {t1, t2}
  Vmas = {v1}
  Ctxs = {c1}
  Lps = {l1, l2}
  Pages = {p1}
  Layouts <- LiveLayouts
  PgOffs <- TwoPgOffs
  PageSize = 2
  U64 = 16
  LP_CP_MAX = 2
  NULL = NULL
  MaxFiles = 1
INVARIANTS
  AcceptedMappingInRange
  CachesHoldObjects
PROPERTIES
  FaultReturns
