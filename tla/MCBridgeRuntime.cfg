\* Two threads and two HIP devices share the bridge runtime.
SPECIFICATION Spec
CONSTANTS
  None = None
  Threads = {t1, t2}
  Devices = {d1, d2}
  Bridge = d1
INVARIANTS
  OneSideAtATime
  ReportIsReal
  OnlyFaultsFail
