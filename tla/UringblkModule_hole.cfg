SPECIFICATION Spec

CONSTANTS
  a = a
  b = b
  EMPTY = empty
  GARBAGE = garbage
  NULL = null
  Lists <- HoledLists
  Paths = {a, b, empty}
  MaxDevices = {1, 2}
  URINGBLK_MINORS = 2

INVARIANTS
  NoWildPointer

CHECK_DEADLOCK FALSE
