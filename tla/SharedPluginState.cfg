\* lib.rs:276-278 against two loads of one library.
SPECIFICATION Spec
CONSTANTS
  None = None
  Library = Library
  Registry = Registry
  l1 = l1
  l2 = l2
  image = image
  Loads <- MCLoads
  Silent <- MCSilent
  ImageOf <- MCImageOf
  Threads = {t1, t2}
INVARIANT SharedStateSerialized
\* Once every load is closed or failed, nothing is left to do.
CHECK_DEADLOCK FALSE
