SPECIFICATION Spec
CONSTANTS
  IndexSectors = 3
  RecordsPerSector = 2
  SlotBits = {1, 2, 3}
  HeadBits = {1, 2, 3}
  Slots = {{1}, {1, 2}}
  DataSectors = {{1}, {1, 2}}
  Tears = {"old"}
INVARIANTS
  Durable
  MountSucceeds
  CrashAtomic
  ScanAgrees
PROPERTIES
  ImplementsNamespace
