SPECIFICATION Spec
CONSTANTS
  N = 3
  MaxRecords = 2
  MaxExtents = 2
  SlotCount = 2
  Names = {a, b}
  a = a
  b = b
  HomeSlot <- MCHomeSlot
  Handles = {1}
  Versions = {1, 2}
  RootsFit = TRUE
  IdleGc = FALSE
  PowerLosses = 0
  CrashAt = {}
  Overlap = {}
SYMMETRY MCSymmetry
INVARIANTS Readable NamesUnique
PROPERTIES OnlyCommitsShow
