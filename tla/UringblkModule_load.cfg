SPECIFICATION Spec

CONSTANTS
  a = a
  b = b
  EMPTY = empty
  GARBAGE = garbage
  NULL = null
  Lists <- AllLists
  Paths = {a, b, empty}
  MaxDevices <- AnyMax
  URINGBLK_MINORS = 2

INVARIANTS
  TypeOK
  WildOnlyFromHole
  ExitReleasesAll
  FailedLoadKeepsAtMostAdmin
  ReachableDeviceWhole

CHECK_DEADLOCK FALSE
