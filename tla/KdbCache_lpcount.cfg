SPECIFICATION Spec
CONSTANTS
  Threads = {t1}
  Vmas = {v1}
  Ctxs = {c1}
  Lps = {l1}
  Pages = {p1}
  Layouts <- OneLayout
  PgOffs <- TwoPgOffs
  PageSize = 2
  U64 = 16
  LP_CP_MAX = 2
  NULL = NULL
INVARIANT LinkedLpHasReference
