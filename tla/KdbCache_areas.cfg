SPECIFICATION Spec
CONSTANTS
  Threads = {t1, t2}
  Vmas = {v1, v2}
  Ctxs = {c1, c2}
  Lps = {l1, l2}
  Pages = {p1, p2}
  Layouts <- OneLayout
  PgOffs <- OnePgOff
  PageSize = 2
  U64 = 16
  LP_CP_MAX = 2
  NULL = NULL
SYMMETRY Symmetry
INVARIANTS
  NoUseAfterFree
  PagesNotAliased
  FullInv
