SPECIFICATION SpecSystem

CONSTANTS
  Majors = {240, 250}
  DEVICE_MAJOR = 240
  NULL = NULL

INVARIANTS
  NothingLeftBehind
  StorageUnderDisk
  CleanupRemovesOwn
