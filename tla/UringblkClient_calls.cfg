SPECIFICATION FairSpec

CONSTANTS
  Objs = {a, b}
  Local = local
  Paths <- One
  Fds <- Three
  Reqs <- Two
  Vals = {u, v}
  Ring = Ring
  NULL = NULL

INVARIANTS
  OneOwner
  ReadsBackWrites

PROPERTIES
  CallsReturn
