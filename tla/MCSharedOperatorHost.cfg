\* Plugin lifetimes and progress of the calls: two threads, two loads.
SPECIFICATION FairSpec
CONSTANTS
  None = None
  Library = Library
  Registry = Registry
  l1 = l1
  l2 = l2
  image = image
  Loads <- MCLoads
  Silent <- MCSilent
  ImageOf <- MCImageOf
  Threads = {t1, t2}
INVARIANTS
  CodeStaysLoaded
  ShutDownExactlyOnce
  ShutdownIsLast
PROPERTY LockIsPassedOn
\* Once every load is closed or failed, nothing is left to do.
CHECK_DEADLOCK FALSE
