\* Safety of the residency cache on three keys and two threads.
SPECIFICATION Spec
CONSTANTS
  None = None
  k1 = k1
  k2 = k2
  k3 = k3
  Keys <- MCKeys
  Specs <- MCSpecs
  Threads = {t1, t2}
  Allocs = {a1, a2, a3, a4}
  Capacity = 3
  U64Max = 4
SYMMETRY Interchangeable
INVARIANTS
  ResidentBytesExact
  CachedWithinCapacity
  VictimAvailable
  LeaseServesRequest
  CountersBalance
PROPERTY EvictsLeastRecent
\* A poisoned cache refuses every call: the callers may all stop.
CHECK_DEADLOCK FALSE
