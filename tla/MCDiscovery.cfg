SPECIFICATION Spec
CONSTANTS
  IndexSectors = 9
  TornEraseSerials = {}
INVARIANTS
  TypeOK
  SequenceFound
  AlwaysDiscoverable
