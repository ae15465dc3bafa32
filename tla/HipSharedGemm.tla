--------------------------- MODULE HipSharedGemm ---------------------------
(***************************************************************************)
(* The zero-copy GEMM plugin, crates/vrb-hip-shared-gemm-plugin (Windows   *)
(* build).  A call of execute imports the three shared regions into HIP,   *)
(* starts one rocBLAS GEMM and waits for the device, all under the static  *)
(* RUNTIME_STATE mutex, which also guards the lazily loaded runtime and    *)
(* its rocBLAS handle per device.  shutdown takes the runtime away; a later*)
(* call loads it anew.                                                     *)
(*                                                                         *)
(* HIP and rocBLAS are external: any call of theirs may fail, the current  *)
(* device is per thread, a handle works on the device that was current at  *)
(* its creation, a GEMM runs until the device finishes it, and             *)
(* hipDeviceSynchronize succeeds once the current device is idle.          *)
(***************************************************************************)
EXTENDS Integers, FiniteSets, Option

CONSTANTS
  Threads,
  Devices

\* What execute_windows' checks say: "OK", or the status the request is refused with.
Verdicts == {"OK", "INVALID_ARGUMENT", "UNSUPPORTED"}

\* vrb_shared_operator_plugin_api::status
Statuses == Verdicts \cup {"UNAVAILABLE", "INTERNAL_ERROR", "BUFFER_TOO_SMALL"}

\* A call: the HIP device, the verdict of the checks, whether the receipt has room.
Requests == [device : Devices, verdict : Verdicts, room : BOOLEAN]

ASSUME NoneIsNoValue == None \notin Threads \cup Devices \cup Requests \cup Statuses
ASSUME SomeDevice == Devices # {} /\ IsFiniteSet(Devices)

VARIABLES
  lock,      \* the thread inside RUNTIME_STATE, or None
  loaded,    \* the Option<RuntimeState> is Some
  handles,   \* device -> the device its cached rocBLAS handle works on, or None
  live,      \* rocBLAS handles created and not destroyed
  current,   \* thread -> its current HIP device
  pc,        \* thread -> where it is in the plugin
  req,       \* thread -> its request, or None
  imported,  \* thread -> how many of the regions A, B, C it has mapped
  running,   \* GEMMs on the devices: [caller, device]
  reply,     \* thread -> the status its call returned, or None
  unsynced   \* a hipDeviceSynchronize has failed

pluginVars == <<lock, loaded, handles, live, current, pc, req, imported, running,
                reply, unsynced>>

-----------------------------------------------------------------------------
(* Helpers *)

Cached == {d \in Devices : handles[d] # None}

\* Mutant: set_device only before a handle is created.
DeviceForNewHandle(t, d) ==
  IF handles[d] = None THEN [current EXCEPT ![t] = d] ELSE current

\* handle_for_device selects the device on every call: current is per thread.
DeviceSelected(t, d) == [current EXCEPT ![t] = d]

\* rocblas_create_handle binds the handle to the thread's current device.
HandleCreated(t, d) == [handles EXCEPT ![d] = DeviceSelected(t, d)[t]]

\* Mutant: the regions are unmapped when sgemm returns.
Unmapped == 0

\* The ImportedRegions live to the end of the closure.
StillMapped == 3

\* Mutant: importing takes the (non-reentrant) mutex again.
TakesLockAgain(t) == lock = None

MayImport(t) == lock = t

\* Mutant: RuntimeState has no Drop.
NoneDestroyed == 0

\* RuntimeState::drop destroys every cached handle.
Destroyed == Cardinality(Cached)

\* Mutant: HIP's failure to synchronise is answered like its other failures.
LikeOtherFailures == "UNAVAILABLE"

\* Once the GEMM may run, a failure is no longer the answer of a call that did nothing.
SyncFailed == "INTERNAL_ERROR"

-----------------------------------------------------------------------------
(* execute *)

Init ==
  /\ lock = None /\ loaded = FALSE
  /\ handles = [d \in Devices |-> None]
  /\ live = 0
  /\ current \in {[t \in Threads |-> d] : d \in Devices}
  /\ pc = [t \in Threads |-> "out"]
  /\ req = [t \in Threads |-> None]
  /\ imported = [t \in Threads |-> 0]
  /\ running = {}
  /\ reply = [t \in Threads |-> None]
  /\ unsynced = FALSE

Step(t, to) == pc' = [pc EXCEPT ![t] = to]

Answer(t, status) ==
  /\ reply' = [reply EXCEPT ![t] = status]
  /\ Step(t, "answered")

\* Leaving the closure: regions are unmapped and the guard is dropped.
Leave(t) ==
  /\ imported' = [imported EXCEPT ![t] = 0]
  /\ lock' = None

Abandon(t, status) == Leave(t) /\ Answer(t, status)

Enter(t, r) ==
  /\ pc[t] = "out"
  /\ req' = [req EXCEPT ![t] = r]
  /\ IF r.verdict = "OK" THEN Step(t, "locking") /\ UNCHANGED reply ELSE Answer(t, r.verdict)
  /\ UNCHANGED <<lock, loaded, handles, live, current, imported, running, unsynced>>

\* with_runtime: lock, and load the runtime if there is none.
LockRuntime(t) ==
  /\ pc[t] = "locking" /\ lock = None
  /\ lock' = t /\ loaded' = TRUE
  /\ Step(t, "device")
  /\ UNCHANGED <<handles, live, current, req, imported, running, reply, unsynced>>

RuntimeUnavailable(t) ==
  /\ pc[t] = "locking" /\ lock = None /\ ~loaded
  /\ Answer(t, "UNAVAILABLE")
  /\ UNCHANGED <<lock, loaded, handles, live, current, req, imported, running, unsynced>>

\* handle_for_device
SelectHandle(t) ==
  LET d == req[t].device IN
  /\ pc[t] = "device"
  /\ current' = DeviceSelected(t, d)
  /\ IF handles[d] = None
     THEN handles' = HandleCreated(t, d) /\ live' = live + 1
     ELSE UNCHANGED <<handles, live>>
  /\ Step(t, "importing")
  /\ UNCHANGED <<lock, loaded, req, imported, running, reply, unsynced>>

\* set_device fails, or create_handle does once the device is selected.
HandleUnavailable(t) ==
  LET d == req[t].device IN
  /\ pc[t] = "device"
  /\ \/ UNCHANGED current
     \/ handles[d] = None /\ current' = DeviceSelected(t, d)
  /\ Abandon(t, "UNAVAILABLE")
  /\ UNCHANGED <<loaded, handles, live, req, running, unsynced>>

\* import_region for A, B and C in turn.
ImportRegion(t) ==
  /\ pc[t] = "importing" /\ MayImport(t)
  /\ imported' = [imported EXCEPT ![t] = @ + 1]
  /\ Step(t, IF imported[t] = 2 THEN "launching" ELSE "importing")
  /\ UNCHANGED <<lock, loaded, handles, live, current, req, running, reply, unsynced>>

\* The import or the mapping fails: what was imported is released.
ImportFails(t) ==
  /\ pc[t] = "importing" /\ MayImport(t)
  /\ Abandon(t, "UNAVAILABLE")
  /\ UNCHANGED <<loaded, handles, live, current, req, running, unsynced>>

\* sgemm queues the GEMM on the device of the handle.
Launch(t) ==
  /\ pc[t] = "launching"
  /\ running' = running \cup {[caller |-> t, device |-> handles[req[t].device]]}
  /\ imported' = [imported EXCEPT ![t] = StillMapped]
  /\ Step(t, "syncing")
  /\ UNCHANGED <<lock, loaded, handles, live, current, req, reply, unsynced>>

LaunchFails(t) ==
  /\ pc[t] = "launching"
  /\ Abandon(t, "INTERNAL_ERROR")
  /\ UNCHANGED <<loaded, handles, live, current, req, running, unsynced>>

Synchronize(t) ==
  /\ pc[t] = "syncing"
  /\ \A gemm \in running : gemm.device # current[t]
  /\ Leave(t)
  /\ Step(t, "receipt")
  /\ UNCHANGED <<loaded, handles, live, current, req, running, reply, unsynced>>

SynchronizeFails(t) ==
  /\ pc[t] = "syncing"
  /\ unsynced' = TRUE
  /\ Abandon(t, SyncFailed)
  /\ UNCHANGED <<loaded, handles, live, current, req, running>>

\* write_receipt, after the lock: C already holds the result.
WriteReceipt(t) ==
  /\ pc[t] = "receipt"
  /\ Answer(t, IF req[t].room THEN "OK" ELSE "BUFFER_TOO_SMALL")
  /\ UNCHANGED <<lock, loaded, handles, live, current, req, imported, running, unsynced>>

\* The callback returns to the loader.
Return(t) ==
  /\ pc[t] = "answered"
  /\ Step(t, "out")
  /\ req' = [req EXCEPT ![t] = None]
  /\ reply' = [reply EXCEPT ![t] = None]
  /\ UNCHANGED <<lock, loaded, handles, live, current, imported, running, unsynced>>

\* A device finishes a GEMM.
Finish(gemm) ==
  /\ running' = running \ {gemm}
  /\ UNCHANGED <<lock, loaded, handles, live, current, pc, req, imported, reply, unsynced>>

-----------------------------------------------------------------------------
(* shutdown *)

\* Each handle's device is selected, best effort, before it is destroyed.
Shutdown(t) ==
  /\ pc[t] = "out" /\ lock = None
  /\ loaded' = FALSE
  /\ \E d \in Cached \cup {current[t]} : current' = [current EXCEPT ![t] = d]
  /\ handles' = [d \in Devices |-> None]
  /\ live' = live - Destroyed
  /\ UNCHANGED <<lock, pc, req, imported, running, reply, unsynced>>

-----------------------------------------------------------------------------

\* The steps of an execute that has begun.
InExecute(t) ==
  \/ LockRuntime(t) \/ RuntimeUnavailable(t)
  \/ SelectHandle(t) \/ HandleUnavailable(t)
  \/ ImportRegion(t) \/ ImportFails(t)
  \/ Launch(t) \/ LaunchFails(t)
  \/ Synchronize(t) \/ SynchronizeFails(t)
  \/ WriteReceipt(t)

DeviceWork == \E gemm \in running : Finish(gemm)

Next ==
  \/ \E t \in Threads :
       \/ \E r \in Requests : Enter(t, r)
       \/ InExecute(t)
       \/ Return(t)
       \/ Shutdown(t)
  \/ DeviceWork

Spec == Init /\ [][Next]_pluginVars

\* A thread in the closure keeps running, calls of HIP and rocBLAS return, and
\* devices finish what they are given.  Nothing is assumed of who gets the mutex.
Fairness ==
  /\ WF_pluginVars(DeviceWork)
  /\ \A t \in Threads :
       /\ WF_pluginVars(SelectHandle(t)) /\ WF_pluginVars(ImportRegion(t))
       /\ WF_pluginVars(Launch(t)) /\ WF_pluginVars(Synchronize(t))

FairSpec == Spec /\ Fairness

-----------------------------------------------------------------------------
(* Properties *)

\* The types of RUNTIME_STATE and of the calls.
TypeOK ==
  /\ lock \in Threads \cup {None}
  /\ loaded \in BOOLEAN /\ unsynced \in BOOLEAN
  /\ handles \in [Devices -> Devices \cup {None}]
  /\ live \in Nat
  /\ current \in [Threads -> Devices]
  /\ pc \in [Threads -> {"out", "locking", "device", "importing", "launching", "syncing",
                         "receipt", "answered"}]
  /\ req \in [Threads -> Requests \cup {None}]
  /\ imported \in [Threads -> 0 .. 3]
  /\ running \subseteq [caller : Threads, device : Devices]
  /\ reply \in [Threads -> Statuses \cup {None}]

\* A call that reports the GEMM as run (OK, or a receipt that did not fit) has
\* really finished: the device it waited for is the one the GEMM ran on, although
\* the handle is cached and the current device belongs to the calling thread.
AnswerMeansFinished ==
  \A t \in Threads :
    reply[t] \in {"OK", "BUFFER_TOO_SMALL"} /\ ~unsynced =>
      \A gemm \in running : gemm.caller # t

\* The comment above sgemm (lib.rs:503-504): the mapped regions remain live through
\* rocBLAS execution and hipDeviceSynchronize, unless that call fails.
RegionsOutliveTheGemm ==
  \A gemm \in running : imported[gemm.caller] = 3 \/ unsynced

\* Every rocBLAS handle that exists is cached under its device, in a loaded
\* runtime: failed calls, shutdown and reloading leak none and lose none.
HandlesAccounted ==
  /\ live = Cardinality(Cached)
  /\ \A d \in Cached : handles[d] = d /\ loaded

\* RUNTIME_STATE is always released: no call waits inside it for itself or for
\* work that was never started.
RuntimeReleased == \A t \in Threads : lock = t ~> lock # t

=============================================================================
