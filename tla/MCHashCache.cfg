SPECIFICATION Spec
CONSTANTS
  TableSize = 4
  Slots = {2, 3, 6, 7, 11}
  Heads = {1, 2}
INVARIANTS
  LookupAgrees
  ListingComplete
PROPERTIES
  RemoveReturns
