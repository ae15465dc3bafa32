\* lib.rs:93-94 against an operation that panics.
SPECIFICATION Spec
CONSTANT MaxBuffers = 3
INVARIANT ReclaimedBeforeDestroyed
\* A session ends.
CHECK_DEADLOCK FALSE
