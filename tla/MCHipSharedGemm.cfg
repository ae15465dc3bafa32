\* The plugin alone: two threads, two devices, calls and shutdowns in any order.
SPECIFICATION FairSpec
CONSTANTS
  None = None
  Threads = {t1, t2}
  Devices = {d1, d2}
INVARIANTS
  AnswerMeansFinished
  RegionsOutliveTheGemm
  HandlesAccounted
PROPERTY RuntimeReleased
