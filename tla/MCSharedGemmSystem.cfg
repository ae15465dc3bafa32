\* Two threads use two loads of one plugin through a registry.
SPECIFICATION SystemSpec
CONSTANTS
  None = None
  Library = Library
  Registry = Registry
  l1 = l1
  l2 = l2
  boast = boast
  image = image
  native = native
  U64Max = 255
  I32Max = 7
  MaxOperators = 1
  Loads <- MCLoads
  ImageOf <- MCImageOf
  DescriptorOf <- MCDescriptorOf
  Policy <- MCPolicy
  Injected <- MCInjected
  Calls <- MCCalls
  Threads = {t1, t2}
  Devices = {0}
SYMMETRY Interchangeable
INVARIANTS
  RuntimeGoneWithImage
  RunsExactlyWellFormedCalls
  AnswerTellsWhetherRun
  FirstFittingOperator
\* Once every load is closed or failed, nothing is left to do.
CHECK_DEADLOCK FALSE
