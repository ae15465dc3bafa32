---------------------------- MODULE BridgeRuntime ----------------------------
(***************************************************************************)
(* The Vulkan/HIP bridge of crates/vrb-backends/src/interop.rs (Windows    *)
(* build): one BridgeRuntime per process, made by the first call and kept  *)
(* in a static mutex, and the two calls that run inside it.  run_zero_copy *)
(* lets HIP write a Vulkan allocation that Vulkan reads back;              *)
(* run_copy_fallback relays the bytes through the host.                    *)
(*                                                                         *)
(* A call is a script of driver calls, any of which may fail; `?` then     *)
(* unwinds the locals in reverse.  Drivers are external: a memset is       *)
(* queued on the thread's HIP device and executed later, a Vulkan          *)
(* submission before the wait for the queue returns.                       *)
(***************************************************************************)
EXTENDS Integers, Sequences, SequencesExt

CONSTANTS
  Threads,  \* callers
  Devices,  \* HIP device indexes
  Bridge,   \* hip_device_index: the device correlated with the Vulkan device
  None

ASSUME BridgeIsADevice == Bridge \in Devices
ASSUME NoneIsNoValue == None \notin Threads

VARIABLES
  lock,      \* the thread inside BRIDGE_RUNTIME, or None
  runtime,   \* the Option<BridgeRuntime> is Some
  doing,     \* the call in the mutex: out, create, script or unwind
  op,        \* ... its kind: zero_copy, copy, or None
  step,      \* ... where it is in its script
  held,      \* ... the buffers and guards among its locals, oldest first
  memory,    \* ... what its allocations hold: pattern (its own) or stale
  side,      \* ... who owns its shared buffer: vulkan or external
  outcome,   \* ... none, ok, mismatch or driver
  current,   \* thread -> its current HIP device
  running,   \* memsets not executed: [device, target, stray]
  \* History
  fault,     \* a driver call of the call in the mutex has failed
  unsynced   \* a hipDeviceSynchronize has failed

call == <<doing, op, step, held, memory, side, outcome, fault>>
vars == <<lock, runtime, call, current, running, unsynced>>

-----------------------------------------------------------------------------
(* The two scripts *)

\* Mutant: Vulkan takes the buffer back before HIP lets go of it.
AcquiredEarly ==
  <<"select", "shared", "staging", "export", "release", "import", "mapping", "memset",
    "sync", "acquire_copy", "unmap", "unimport", "verify">>

ZeroCopy ==
  <<"select", "shared", "staging", "export", "release", "import", "mapping", "memset",
    "sync", "unmap", "unimport", "acquire_copy", "verify">>

CopyFallback ==
  <<"select", "upload", "device_buffer", "readback", "malloc", "memset", "sync", "relay",
    "sync", "free", "write", "upload_copy", "readback_copy", "verify">>

Script(kind) == IF kind = "zero_copy" THEN ZeroCopy ELSE CopyFallback

Resources ==
  {"shared", "staging", "import", "mapping", "upload", "device_buffer", "readback", "malloc"}

Allocations == Resources \cup {"relay"}

\* The transfers: from where, to where.
Transfers ==
  [acquire_copy  |-> <<"shared", "staging">>,
   relay         |-> <<"malloc", "relay">>,
   write         |-> <<"relay", "upload">>,
   upload_copy   |-> <<"upload", "device_buffer">>,
   readback_copy |-> <<"device_buffer", "readback">>]

\* What hipMemset writes, and what verify_staging reads.
Target == IF op = "zero_copy" THEN "shared" ELSE "malloc"
Verified == IF op = "zero_copy" THEN "staging" ELSE "readback"

-----------------------------------------------------------------------------
(* Helpers *)

At(t, s) == lock = t /\ doing = "script" /\ Script(op)[step] = s

Advance == step' = step + 1

\* The operation has its result; what remains is dropping the locals.
Conclude(result) == doing' = "unwind" /\ outcome' = result

\* Mutant: only BridgeRuntime::create selects the device.
SelectedAtCreation(t) == current

\* select_hip_device runs in every call: the current device is per thread.
Selected(t) == [current EXCEPT ![t] = Bridge]

\* Mutant: the host does not wait for HIP.
NotWaited(d) == TRUE

\* hipDeviceSynchronize returns once the device has nothing left to do.
DeviceIdle(d) == \A job \in running : job.device # d

\* The newest guard or buffer is dropped.
DropNewest == Front(held)

-----------------------------------------------------------------------------
(* Entering and creating *)

Init ==
  /\ lock = None /\ runtime = FALSE
  /\ doing = "out" /\ op = None /\ step = 1 /\ held = << >>
  /\ memory = [a \in Allocations |-> "stale"]
  /\ side = "vulkan" /\ outcome = "none" /\ fault = FALSE
  /\ current \in {[t \in Threads |-> d] : d \in Devices}
  /\ running = {} /\ unsynced = FALSE

\* with_bridge_runtime; a size that validate_transfer_size refuses never gets here.
Enter(t, kind) ==
  /\ lock = None
  /\ lock' = t /\ op' = kind
  /\ doing' = IF runtime THEN "script" ELSE "create"
  /\ UNCHANGED <<runtime, step, held, memory, side, outcome, fault, current,
                 running, unsynced>>

\* BridgeRuntime::create: Vulkan, HIP, and the correlated device.
Create(t) ==
  /\ lock = t /\ doing = "create"
  /\ runtime' = TRUE
  /\ current' = [current EXCEPT ![t] = Bridge]
  /\ doing' = "script"
  /\ UNCHANGED <<lock, op, step, held, memory, side, outcome, fault, running, unsynced>>

\* create's locals are dropped with its error and the Option stays None: the next call
\* tries again.
CreateFails(t) ==
  /\ lock = t /\ doing = "create"
  /\ Conclude("driver") /\ fault' = TRUE
  /\ UNCHANGED <<lock, runtime, op, step, held, memory, side, current, running, unsynced>>

-----------------------------------------------------------------------------
(* The steps of a script *)

SelectDevice(t) ==
  /\ At(t, "select")
  /\ current' = Selected(t)
  /\ Advance
  /\ UNCHANGED <<lock, runtime, doing, op, held, memory, side, outcome, fault,
                 running, unsynced>>

\* A buffer, an import, a mapping or a hipMalloc.  Vulkan's allocation can only be
\* imported on the device it is on.
Obtain(t) ==
  /\ \E r \in Resources :
       /\ At(t, r)
       /\ r = "import" => current[t] = Bridge
       /\ held' = Append(held, r)
  /\ Advance
  /\ UNCHANGED <<lock, runtime, doing, op, memory, side, outcome, fault, current,
                 running, unsynced>>

Export(t) ==
  /\ At(t, "export")
  /\ Advance
  /\ UNCHANGED <<lock, runtime, doing, op, held, memory, side, outcome, fault,
                 current, running, unsynced>>

Release(t) ==
  /\ At(t, "release")
  /\ side' = "external"
  /\ Advance
  /\ UNCHANGED <<lock, runtime, doing, op, held, memory, outcome, fault, current,
                 running, unsynced>>

Memset(t) ==
  /\ At(t, "memset")
  /\ running' = running \cup {[device |-> current[t], target |-> Target, stray |-> FALSE]}
  /\ Advance
  /\ UNCHANGED <<lock, runtime, doing, op, held, memory, side, outcome, fault,
                 current, unsynced>>

Synchronize(t) ==
  /\ At(t, "sync") /\ DeviceIdle(current[t])
  /\ Advance
  /\ UNCHANGED <<lock, runtime, doing, op, held, memory, side, outcome, fault,
                 current, running, unsynced>>

\* A copy; the one out of the shared buffer acquires it in the same submission.
Transfer(t) ==
  /\ \E s \in DOMAIN Transfers :
       /\ At(t, s)
       /\ memory' = [memory EXCEPT ![Transfers[s][2]] = memory[Transfers[s][1]]]
       /\ side' = IF s = "acquire_copy" THEN "vulkan" ELSE side
  /\ Advance
  /\ UNCHANGED <<lock, runtime, doing, op, held, outcome, fault, current, running,
                 unsynced>>

\* drop(guard), and the guards' Drop.
DropGuard(t) ==
  /\ \E s \in {"unmap", "unimport", "free"} : At(t, s)
  /\ held' = DropNewest
  /\ Advance
  /\ UNCHANGED <<lock, runtime, doing, op, memory, side, outcome, fault, current,
                 running, unsynced>>

\* Stale bytes may be those of an earlier call with the same pattern.
Verify(t) ==
  /\ At(t, "verify")
  /\ \/ Conclude("ok")
     \/ memory[Verified] = "stale" /\ Conclude("mismatch")
  /\ UNCHANGED <<lock, runtime, op, step, held, memory, side, fault, current,
                 running, unsynced>>

\* Any driver call fails; an import on another device than Vulkan's always does, and
\* that is no fault of the driver.  A submission whose wait failed may be executed.
DriverFails(t) ==
  /\ lock = t /\ doing = "script"
  /\ ~\E s \in {"unmap", "unimport", "free"} : At(t, s)
  /\ Conclude("driver")
  /\ fault' = (At(t, "import") => current[t] = Bridge)
  /\ unsynced' = (unsynced \/ At(t, "sync"))
  /\ \/ UNCHANGED side
     \/ At(t, "release") /\ side' = "external"
     \/ At(t, "acquire_copy") /\ side' = "vulkan"
  /\ UNCHANGED <<lock, runtime, op, step, held, memory, current, running>>

-----------------------------------------------------------------------------
(* Leaving, and the world outside *)

DropLocal(t) ==
  /\ lock = t /\ doing = "unwind" /\ held # << >>
  /\ held' = DropNewest
  /\ UNCHANGED <<lock, runtime, doing, op, step, memory, side, outcome, fault,
                 current, running, unsynced>>

\* The guard of the mutex goes last; a memset still queued outlives its target.
Leave(t) ==
  /\ lock = t /\ doing = "unwind" /\ held = << >>
  /\ lock' = None
  /\ doing' = "out" /\ op' = None /\ step' = 1
  /\ memory' = [a \in Allocations |-> "stale"]
  /\ side' = "vulkan" /\ outcome' = "none" /\ fault' = FALSE
  /\ running' = {[job EXCEPT !.stray = TRUE] : job \in running}
  /\ UNCHANGED <<runtime, held, current, unsynced>>

\* A device executes a memset.  A stray one writes memory that is anybody's by now.
ExecuteMemset ==
  \E job \in running :
    /\ running' = running \ {job}
    /\ IF job.stray
       THEN \/ UNCHANGED memory
            \/ \E a \in Allocations : memory' = [memory EXCEPT ![a] = "stale"]
       ELSE memory' = [memory EXCEPT ![job.target] = "pattern"]
    /\ UNCHANGED <<lock, runtime, doing, op, step, held, side, outcome, fault,
                   current, unsynced>>

\* Outside the bridge a thread uses other HIP devices (vrb-hip-shared-gemm-plugin does).
UseOtherDevice(t) ==
  /\ lock # t
  /\ \E d \in Devices : current' = [current EXCEPT ![t] = d]
  /\ UNCHANGED <<lock, runtime, call, running, unsynced>>

Next ==
  \/ \E t \in Threads :
       \/ \E kind \in {"zero_copy", "copy"} : Enter(t, kind)
       \/ Create(t) \/ CreateFails(t)
       \/ SelectDevice(t) \/ Obtain(t) \/ Export(t) \/ Release(t)
       \/ Memset(t) \/ Synchronize(t) \/ Transfer(t) \/ DropGuard(t) \/ Verify(t)
       \/ DriverFails(t)
       \/ DropLocal(t) \/ Leave(t)
       \/ UseOtherDevice(t)
  \/ ExecuteMemset

Spec == Init /\ [][Next]_vars

-----------------------------------------------------------------------------
(* Properties *)

Holds(r) == \E i \in DOMAIN held : held[i] = r

\* The types of BRIDGE_RUNTIME and of the call inside it.
TypeOK ==
  /\ lock \in Threads \cup {None}
  /\ {runtime, fault, unsynced} \subseteq BOOLEAN
  /\ doing \in {"out", "create", "script", "unwind"}
  /\ op \in {"zero_copy", "copy", None}
  /\ step \in 1 .. Len(Script(op))
  /\ held \in Seq(Resources)
  /\ memory \in [Allocations -> {"stale", "pattern"}]
  /\ side \in {"vulkan", "external"}
  /\ outcome \in {"none", "ok", "mismatch", "driver"}
  /\ current \in [Threads -> Devices]
  /\ running \subseteq [device : Devices, target : Allocations, stray : BOOLEAN]

\* What HIP writes through for a memset: the mapping of the import, or its own memory.
WritesThrough(job) ==
  IF job.target = "shared" THEN {"shared", "import", "mapping"} ELSE {job.target}

\* The shared allocation has one user at a time: while Vulkan owns it HIP has no mapping of
\* it and no memset on its way to it.  And no call gives up, on its error paths or by its
\* return, what a memset on its way still writes.  Both unless a hipDeviceSynchronize failed.
OneSideAtATime ==
  /\ Holds("shared") /\ side = "vulkan" =>
       /\ ~Holds("mapping")
       /\ unsynced \/ \A job \in running : job.stray \/ job.target # "shared"
  /\ unsynced \/ \A job \in running : ~job.stray /\ \A r \in WritesThrough(job) : Holds(r)

\* A report is evidence: the bytes it verified were written by this call's hipMemset,
\* not left behind in recycled memory by an earlier call with the same pattern, unless
\* a hipDeviceSynchronize failed.
ReportIsReal == outcome = "ok" => memory[Verified] = "pattern" \/ unsynced

\* A call fails only if a driver call of its own fails: which thread created the
\* runtime, and what the calling thread did with HIP before, makes no difference.
OnlyFaultsFail == outcome \in {"mismatch", "driver"} => fault \/ unsynced

=============================================================================
