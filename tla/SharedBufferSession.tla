------------------------- MODULE SharedBufferSession -------------------------
(***************************************************************************)
(* One session of crates/vrb-vulkan-shared-buffer (Windows build):         *)
(* with_buffers creates exportable Vulkan buffers, uploads, releases each  *)
(* to external ownership and exports its handle, runs the caller's         *)
(* operation on the handles, acquires every buffer back, reads back, and   *)
(* drops the buffers and the context.  Any Vulkan call may fail, and the   *)
(* operation may succeed, fail or panic.                                   *)
(*                                                                         *)
(* Vulkan is external.  A submission takes effect when the queue executes  *)
(* it: before vkQueueWaitIdle returns success, or, after that call has     *)
(* failed, at some later time or never.                                    *)
(***************************************************************************)
EXTENDS Integers, FiniteSets

CONSTANT MaxBuffers   \* bound on the number of buffers of a session

ASSUME SomeBuffers == MaxBuffers \in Nat \ {0}

VARIABLES
  n,          \* specs.len()
  initial,    \* the specs with initial_data
  wanted,     \* the specs with readback
  stage,      \* the loop or step with_buffers is in
  next,       \* the buffer that loop is at
  alive,      \* the shared buffers that exist
  context,    \* the VulkanContext exists
  side,       \* buffer -> the side that owns it: vulkan or external
  exported,   \* the buffers whose handle was exported
  pending,    \* submissions the queue has not executed: [buffer, to]
  foreign,    \* the external device may still be working on the buffers
  operation,  \* outcome of the operation: none, ok, error, panic
  reclaim,    \* reclaim_error is Some
  readbacks,  \* buffer -> what was read back
  result,     \* what with_buffers returned: none, ok, or the error's origin
  \* History
  attempted,  \* the buffers whose acquire was attempted
  failed,     \* ... and failed
  lost        \* the buffers destroyed while owned by the external side

progress == <<stage, next, operation, reclaim, readbacks, result>>
device   == <<alive, context, side, exported, pending, foreign>>
history  == <<attempted, failed, lost>>
vars == <<n, initial, wanted, progress, device, history>>

Buffers == 1 .. n

-----------------------------------------------------------------------------
(* Helpers *)

Init ==
  /\ n \in 1 .. MaxBuffers
  /\ initial \in SUBSET (1 .. n) /\ wanted \in SUBSET (1 .. n)
  /\ stage = "create" /\ next = 1
  /\ alive = {} /\ context = TRUE
  /\ side = [b \in 1 .. n |-> "vulkan"]
  /\ exported = {} /\ pending = {} /\ foreign = FALSE
  /\ operation = "none" /\ reclaim = FALSE
  /\ readbacks = [b \in 1 .. n |-> "none"]
  /\ result = "none"
  /\ attempted = {} /\ failed = {} /\ lost = {}

\* The for loops go on to the next buffer, or to the step after the loop.
Advance(step, following) ==
  IF next = n
  THEN stage' = following /\ next' = 1
  ELSE stage' = step /\ next' = next + 1

Return(outcome) == stage' = "drop" /\ next' = 1 /\ result' = outcome

\* Mutant: the error of a release is dropped.
ReleaseErrorIgnored == Advance("release", "operation") /\ UNCHANGED result

ReleaseError == Return("vulkan")

\* Mutant: the first acquire that fails ends the session.
StopsReclaiming == Return("vulkan")

\* The reclaim loop goes on after an error.
KeepsReclaiming == Advance("reclaim", "judge") /\ UNCHANGED result

\* Mutant: the operation's error is not looked at.
ReclaimOnly == IF reclaim THEN "reclaim" ELSE "none"

\* `operation_result?`, and then the reclaim error.
FirstError ==
  IF operation = "error" THEN "operation" ELSE IF reclaim THEN "reclaim" ELSE "none"

\* The owner of each buffer once the queue is idle.
Settled ==
  [b \in Buffers |->
     IF [buffer |-> b, to |-> "vulkan"] \in pending THEN "vulkan" ELSE side[b]]

-----------------------------------------------------------------------------
(* Creation and release *)

\* create_shared_buffer and, with initial data, staging, write and copy.
Create ==
  /\ stage = "create"
  /\ alive' = alive \cup {next}
  /\ Advance("create", "release")
  /\ UNCHANGED <<n, initial, wanted, operation, reclaim, readbacks, result, context, side,
                 exported, pending, foreign, history>>

\* The buffer is not created, or it is dropped because a step of the upload failed.
CreateFails ==
  /\ stage = "create"
  /\ Return("vulkan")
  /\ \/ UNCHANGED pending
     \/ next \in initial /\ pending' = pending \cup {[buffer |-> next, to |-> "vulkan"]}
  /\ UNCHANGED <<n, initial, wanted, operation, reclaim, readbacks, alive, context, side,
                 exported, foreign, history>>

\* release_to_external, then export_kmt_handle.
Release ==
  /\ stage = "release"
  /\ side' = [side EXCEPT ![next] = "external"]
  /\ exported' = exported \cup {next}
  /\ Advance("release", "operation")
  /\ UNCHANGED <<n, initial, wanted, operation, reclaim, readbacks, result, alive, context,
                 pending, foreign, history>>

\* Not submitted; submitted and not known to be executed; or not exported.
ReleaseFails ==
  /\ stage = "release"
  /\ \/ UNCHANGED <<side, pending>>
     \/ pending' = pending \cup {[buffer |-> next, to |-> "external"]} /\ UNCHANGED side
     \/ side' = [side EXCEPT ![next] = "external"] /\ UNCHANGED pending
  /\ ReleaseError
  /\ UNCHANGED <<n, initial, wanted, operation, reclaim, readbacks, alive, context, exported,
                 foreign, history>>

-----------------------------------------------------------------------------
(* The operation and the reclaim *)

\* A synchronous consumer is done with the buffers when it reports success.
OperationReturns ==
  /\ stage = "operation"
  /\ operation' \in {"ok", "error"}
  /\ foreign' \in IF operation' = "ok" THEN {FALSE} ELSE BOOLEAN
  /\ stage' = "reclaim" /\ next' = 1
  /\ UNCHANGED <<n, initial, wanted, reclaim, readbacks, result, alive, context, side,
                 exported, pending, history>>

\* A panic unwinds through with_buffers: the locals are dropped, nothing else runs.
OperationPanics ==
  /\ stage = "operation"
  /\ operation' = "panic" /\ foreign' \in BOOLEAN
  /\ Return("panic")
  /\ UNCHANGED <<n, initial, wanted, reclaim, readbacks, alive, context, side, exported,
                 pending, history>>

\* vkQueueWaitIdle also waits for earlier acquires that it had failed for.
Acquire ==
  /\ stage = "reclaim"
  /\ side' = [Settled EXCEPT ![next] = "vulkan"]
  /\ pending' = {}
  /\ attempted' = attempted \cup {next}
  /\ Advance("reclaim", "judge")
  /\ UNCHANGED <<n, initial, wanted, operation, reclaim, readbacks, result, alive, context,
                 exported, foreign, failed, lost>>

AcquireFails ==
  /\ stage = "reclaim"
  /\ attempted' = attempted \cup {next} /\ failed' = failed \cup {next}
  /\ reclaim' = TRUE
  /\ \/ UNCHANGED pending
     \/ pending' = pending \cup {[buffer |-> next, to |-> "vulkan"]}
  /\ KeepsReclaiming
  /\ UNCHANGED <<n, initial, wanted, operation, readbacks, alive, context, side, exported,
                 foreign, lost>>

Judge ==
  /\ stage = "judge"
  /\ IF FirstError = "none"
     THEN stage' = "readback" /\ next' = 1 /\ UNCHANGED result
     ELSE Return(FirstError)
  /\ UNCHANGED <<n, initial, wanted, operation, reclaim, readbacks, device, history>>

-----------------------------------------------------------------------------
(* Readback and teardown *)

\* What a copy out of buffer b sees.
Contents(b) ==
  IF side[b] = "vulkan" /\ ~foreign /\ operation = "ok" THEN "final" ELSE "unknown"

ReadBack ==
  /\ stage = "readback"
  /\ readbacks' = [readbacks EXCEPT ![next] = IF next \in wanted THEN Contents(next) ELSE @]
  /\ IF next = n THEN Return("ok") ELSE Advance("readback", "drop") /\ UNCHANGED result
  /\ UNCHANGED <<n, initial, wanted, operation, reclaim, device, history>>

ReadBackFails ==
  /\ stage = "readback" /\ next \in wanted
  /\ \/ UNCHANGED pending
     \/ pending' = pending \cup {[buffer |-> next, to |-> "vulkan"]}
  /\ Return("vulkan")
  /\ UNCHANGED <<n, initial, wanted, operation, reclaim, readbacks, alive, context, side,
                 exported, foreign, history>>

\* Drop for VulkanBuffer, in the order of the Vec.
DropBuffer ==
  /\ stage = "drop"
  /\ \E b \in alive :
       /\ \A other \in alive : b <= other
       /\ alive' = alive \ {b}
       /\ lost' = IF side[b] = "external" THEN lost \cup {b} ELSE lost
  /\ UNCHANGED <<n, initial, wanted, progress, context, side, exported, pending, foreign,
                 attempted, failed>>

\* Locals drop in reverse: the context after the buffers.  device_wait_idle, then the pool, device and instance.
DropContext ==
  /\ stage = "drop" /\ alive = {} /\ context
  /\ context' = FALSE
  /\ pending' = {}
  /\ UNCHANGED <<n, initial, wanted, progress, alive, side, exported, foreign, history>>

\* The queue executes a submission whose wait had failed.
ExecuteLate ==
  /\ \E job \in pending :
       /\ pending' = pending \ {job}
       /\ side' = [side EXCEPT ![job.buffer] = job.to]
  /\ UNCHANGED <<n, initial, wanted, progress, alive, context, exported, foreign, history>>

Next ==
  \/ Create \/ CreateFails
  \/ Release \/ ReleaseFails
  \/ OperationReturns \/ OperationPanics
  \/ Acquire \/ AcquireFails
  \/ Judge
  \/ ReadBack \/ ReadBackFails
  \/ DropBuffer \/ DropContext
  \/ ExecuteLate

Spec == Init /\ [][Next]_vars

-----------------------------------------------------------------------------
(* Properties *)

Stages == {"create", "release", "operation", "reclaim", "judge", "readback", "drop"}

\* The types of a session's locals and of the device.
TypeOK ==
  /\ n \in 1 .. MaxBuffers
  /\ {initial, wanted, alive, exported, attempted, failed, lost}
       \subseteq SUBSET Buffers
  /\ stage \in Stages /\ next \in Buffers
  /\ context \in BOOLEAN /\ foreign \in BOOLEAN /\ reclaim \in BOOLEAN
  /\ side \in [Buffers -> {"vulkan", "external"}]
  /\ pending \subseteq [buffer : Buffers, to : {"vulkan", "external"}]
  /\ operation \in {"none", "ok", "error", "panic"}
  /\ readbacks \in [Buffers -> {"none", "final", "unknown"}]
  /\ result \in {"none", "ok", "vulkan", "operation", "reclaim", "panic"}

\* The operation gets every handle, of buffers that Vulkan has given up for sure: no
\* release is missing or still on the queue.
OperationOwnsBuffers ==
  stage = "operation" =>
    /\ exported = Buffers /\ alive = Buffers /\ pending = {}
    /\ \A b \in Buffers : side[b] = "external"

\* A session that returns Ok hands out readbacks of the operation's final results,
\* one for each that was asked for: every buffer was Vulkan's again and the external
\* device had finished, although errors of the reclaim are collected and not returned
\* at once.
OkMeansFinalData ==
  result = "ok" => \A b \in Buffers : readbacks[b] = IF b \in wanted THEN "final" ELSE "none"

\* An operation that returns, even with an error, has an acquire attempted for every
\* buffer before any of them is destroyed: one failed acquire keeps no other buffer on
\* the external side.
ReclaimAttemptsAll ==
  /\ operation \in {"ok", "error"} /\ stage # "reclaim" => attempted = Buffers
  /\ operation \in {"ok", "error"} => lost \subseteq failed

\* The comment before the reclaim loop (lib.rs:93-94): whether the operation succeeds
\* or fails, Vulkan ownership is reclaimed before any allocation is destroyed.  An
\* acquire that Vulkan refuses cannot be helped; an operation that panics can.
ReclaimedBeforeDestroyed == operation # "none" => lost \subseteq failed

=============================================================================
