SPECIFICATION Spec
CONSTANTS
  N = 2
  MaxRecords = 2
  MaxExtents = 2
  SlotCount = 2
  Names = {a, b}
  a = a
  b = b
  HomeSlot <- MCHomeSlot
  Handles = {1, 2}
  Versions = {1, 2, 3}
  RootsFit = FALSE
  IdleGc = TRUE
  PowerLosses = 0
  CrashAt = {}
  Overlap = {}
INVARIANTS ReaderSeesFile WrittenExtentsKept WritersApart ReclaimDeferred
PROPERTIES CallReturns
