SPECIFICATION Spec
CONSTANTS
  Threads = {t1, t2}
  Vmas = {v1}
  Ctxs = {c1}
  Lps = {l1, l2}
  Pages = {p1, p2}
  Layouts <- TwoLayouts
  PgOffs <- TwoPgOffs
  PageSize = 2
  U64 = 16
  LP_CP_MAX = 2
  NULL = NULL
SYMMETRY Symmetry
INVARIANTS
  TypeOK
  OnePagePerOffset
  WritableIsDirty
  CachedPageRefs
  AllocatedCountsCached
  MkwriteFindsLp
  OneLpPerLpn
  RefcountIsHolders
PROPERTIES
  SlotsAreStable
  ImplementsPageMap
