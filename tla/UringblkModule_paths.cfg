SPECIFICATION Spec

CONSTANTS
  a = a
  b = b
  EMPTY = empty
  GARBAGE = garbage
  NULL = null
  Lists <- FullLists
  Paths = {a, b, empty}
  MaxDevices = {1, 2}
  URINGBLK_MINORS = 2

INVARIANTS
  DevicesSitOnListedPaths

CHECK_DEADLOCK FALSE
