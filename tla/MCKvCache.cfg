\* Two layers of one sequence and one of another, capacity 4.
SPECIFICATION Spec
CONSTANTS
  None = None
  Keys <- MCKeys
  Blocks <- MCBlocks
  Capacity = 4
  U64Max = 5
INVARIANTS
  BytesExact
  WithinCapacity
  AcceptedAppendFits
PROPERTIES
  ImplementsStore
  EvictsLeastRecent
