SPECIFICATION Spec

CONSTANTS
  Threads = {t1, t2}
  Files = {f}
  MsgLen = 3
  PageSize = 4
  Counts = {0, 2, 5}
  Offsets = {0, 4}
  Sectors = 2
  Shapes <- BioShapes
  SectorSize = 2
  U32 = 4
  MaxCalls = 3

INVARIANTS
  TypeOK
  BytesBelongToCalls
  ReadStaysInMessage

SYMMETRY ThreadSymmetry
