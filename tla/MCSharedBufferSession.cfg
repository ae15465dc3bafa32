\* Sessions of up to three buffers with every choice of uploads and readbacks.
SPECIFICATION Spec
CONSTANT MaxBuffers = 3
INVARIANTS
  OperationOwnsBuffers
  OkMeansFinalData
  ReclaimAttemptsAll
\* A session ends.
CHECK_DEADLOCK FALSE
