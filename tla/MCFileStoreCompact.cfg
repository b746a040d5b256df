SPECIFICATION Spec
CONSTANTS
  N = 2
  MaxRecords = 2
  MaxExtents = 1
  SlotCount = 2
  Names = {a, b}
  a = a
  b = b
  HomeSlot <- MCHomeSlot
  Handles = {1, 2}
  Versions = {1, 2, 3}
  RootsFit = FALSE
  IdleGc = FALSE
  PowerLosses = 1
  CrashAt = {"compact", "publish", "retract"}
  Overlap = {"delete"}
SYMMETRY MCSymmetry
INVARIANTS Readable LiveMapExact
PROPERTIES SlotKeepsName
