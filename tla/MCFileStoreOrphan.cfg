SPECIFICATION Spec
CONSTANTS
  N = 2
  MaxRecords = 2
  MaxExtents = 2
  SlotCount = 2
  Names = {a, b}
  a = a
  b = b
  HomeSlot <- MCHomeSlot
  Handles = {1}
  Versions = {1, 2, 3}
  RootsFit = FALSE
  IdleGc = FALSE
  PowerLosses = 1
  CrashAt = {"commit"}
  Overlap = {}
SYMMETRY MCSymmetry
PROPERTIES OnlyCommitsShow
