\* V0.2.md:29 against the per-layer entries that evict_for removes.
SPECIFICATION Spec
CONSTANTS
  None = None
  Keys <- MCKeys
  Blocks <- MCBlocks
  Capacity = 4
  U64Max = 5
PROPERTY ActiveSequenceIsSpared
