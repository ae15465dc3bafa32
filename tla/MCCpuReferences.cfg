\* Calls and lifetimes of host-byte plugins: two threads.  Questions to the CPU oracles.
SPECIFICATION SystemSpec
CONSTANTS
  None = None
  Library = Library
  Registry = Registry
  library = library
  backend = backend
  Loads = {library, backend}
  BackendPlugins = {backend}
  Silent = {}
  ImageOf <- MCImageOf
  Threads = {t1, t2}
  U64Max = 1023
  MaxElements = 230
  MaxMultiplyAdds = 110
  MaxOutputBytes = 112
  MaxTensorElements = 40
  MaxScoreElements = 60
  Gemms <- MCGemms
  Attentions <- MCAttentions
INVARIANTS
  SizeIsCurrent
  PanicIsFinal
  OnlyPanicsSkipShutdown
  GemmIsServed
  AttentionStaysInside
\* Once every load is closed or failed, nothing is left to do.
CHECK_DEADLOCK FALSE
