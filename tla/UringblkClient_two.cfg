SPECIFICATION Spec

CONSTANTS
  Objs = {a, b}
  Local = local
  Paths <- Two
  Fds <- Three
  Reqs <- Two
  Vals = {v}
  Ring = Ring
  NULL = NULL

INVARIANTS
  OneOwner
  ReadsBackWrites
