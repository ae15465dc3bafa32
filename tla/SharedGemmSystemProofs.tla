---------------------- MODULE SharedGemmSystemProofs ----------------------
(***************************************************************************)
(* The safety of SharedGemmSystem for any threads, loads, devices, calls   *)
(* and operators of the application.                                       *)
(*                                                                         *)
(* The argument: what happens to RUNTIME_STATE in the system is a          *)
(* behaviour of HipSharedGemm, so its invariant holds here.  A thread is   *)
(* in the plugin exactly while the host has it in the execute callback,    *)
(* with the invocation that the plugin's checks have judged; a load that   *)
(* a call goes through is live, and goes only through shutdown.            *)
(***************************************************************************)
EXTENDS SharedGemmSystem, DataInduction, TLAPS

-----------------------------------------------------------------------------
(***************************************************************************)
(* The plugin: the thread inside RUNTIME_STATE has selected the device of  *)
(* its request, the cached handle of a device works on that device, so the *)
(* synchronize of a call waits for the GEMM of that call; until it has,    *)
(* the call keeps its three regions.                                       *)
(***************************************************************************)

InClosure(t) == pc[t] \in {"device", "importing", "launching", "syncing"}

\* The strengthening, in named parts.
LockIsClosure == \A t \in Threads : lock = t <=> InClosure(t)
CallsHaveRequests == \A t \in Threads : pc[t] # "out" => req[t] \in Requests
RepliesAreAnswers == \A t \in Threads : pc[t] # "answered" => reply[t] = None
RegionsByPlace ==
  \A t \in Threads :
    imported[t] \in (CASE pc[t] = "importing" -> 0 .. 2
                       [] pc[t] \in {"launching", "syncing"} -> {3}
                       [] OTHER -> {0})
DeviceSelectedInside ==
  \A t \in Threads : pc[t] \in {"importing", "launching", "syncing"} =>
    /\ current[t] = req[t].device
    /\ handles[req[t].device] # None
ClosureHasRuntime == lock # None => loaded
HandlesOnTheirDevice == \A d \in Cached : handles[d] = d /\ loaded
HandlesCounted == live = Cardinality(Cached)
GemmsAreAwaited ==
  ~unsynced => \A gemm \in running :
    pc[gemm.caller] = "syncing" /\ gemm.device = current[gemm.caller]

PluginInv ==
  /\ TypeOK
  /\ LockIsClosure /\ CallsHaveRequests /\ RepliesAreAnswers /\ RegionsByPlace
  /\ DeviceSelectedInside /\ ClosureHasRuntime /\ HandlesOnTheirDevice
  /\ HandlesCounted /\ GemmsAreAwaited

LEMMA RequestParts ==
  \A r \in Requests :
    r.device \in Devices /\ r.verdict \in Verdicts /\ r.room \in BOOLEAN
BY DEF Requests, Verdicts

LEMMA NoneApart == None \notin Threads /\ None \notin Devices
BY NoneIsNoValue

LEMMA NothingCached == Cached = {} => Cardinality(Cached) = 0
BY FS_EmptySet

LEMMA CachedFinite ==
  /\ IsFiniteSet(Cached) /\ IsFiniteSet(Cached')
  /\ Cardinality(Cached) \in Nat
<1>1. Cached \subseteq Devices /\ Cached' \subseteq Devices
  BY DEF Cached
<1>2. QED
  BY <1>1, SomeDevice, FS_Subset, FS_CardinalityType

LEMMA PluginInitially == Init => PluginInv
<1> SUFFICES ASSUME Init PROVE PluginInv
  OBVIOUS
<1>1. PICK d \in Devices : current = [t \in Threads |-> d]
  BY DEF Init
<1>2. Cached = {}
  BY DEF Init, Cached
<1>3. HandlesCounted
  BY <1>2, FS_EmptySet DEF Init, HandlesCounted
<1>4. TypeOK
  <2>1. loaded \in BOOLEAN /\ unsynced \in BOOLEAN
    BY DEF Init
  <2>2. QED
    BY <1>1, <2>1 DEF Init, TypeOK
<1>5. QED
  BY <1>2, <1>3, <1>4, NoneApart
     DEF Init, PluginInv, LockIsClosure, InClosure, CallsHaveRequests, RepliesAreAnswers,
         RegionsByPlace, DeviceSelectedInside, ClosureHasRuntime, HandlesOnTheirDevice,
         GemmsAreAwaited

\* Steps that leave the handles alone keep their accounts.
LEMMA HandlesUntouched ==
  ASSUME PluginInv, UNCHANGED <<loaded, handles, live>>
  PROVE  HandlesOnTheirDevice' /\ HandlesCounted'
BY DEF PluginInv, HandlesOnTheirDevice, HandlesCounted, Cached

LEMMA CallBoundary ==
  ASSUME PluginInv, NEW t \in Threads,
         \/ \E r \in Requests : Enter(t, r)
         \/ Return(t) \/ WriteReceipt(t)
  PROVE  PluginInv'
<1>1. ASSUME NEW r \in Requests, Enter(t, r) PROVE PluginInv'
  <2>1. HandlesOnTheirDevice' /\ HandlesCounted'
    BY <1>1, HandlesUntouched DEF Enter
  <2>2. CASE r.verdict = "OK"
    BY <1>1, <2>1, <2>2, RequestParts, NoneApart
       DEF Enter, Step, PluginInv, TypeOK, LockIsClosure, InClosure,
           CallsHaveRequests, RepliesAreAnswers, RegionsByPlace, DeviceSelectedInside,
           ClosureHasRuntime, GemmsAreAwaited
  <2>3. CASE r.verdict # "OK"
    BY <1>1, <2>1, <2>3, RequestParts, NoneApart
       DEF Enter, Step, Answer, Statuses, Verdicts,
           PluginInv, TypeOK, LockIsClosure, InClosure, CallsHaveRequests,
           RepliesAreAnswers, RegionsByPlace, DeviceSelectedInside, ClosureHasRuntime,
           GemmsAreAwaited
  <2>4. QED
    BY <2>2, <2>3
<1>2. CASE Return(t)
  <2>1. HandlesOnTheirDevice' /\ HandlesCounted'
    BY <1>2, HandlesUntouched DEF Return
  <2>2. QED
    BY <1>2, <2>1, NoneApart
       DEF Return, Step, PluginInv, TypeOK, LockIsClosure, InClosure,
           CallsHaveRequests, RepliesAreAnswers, RegionsByPlace, DeviceSelectedInside,
           ClosureHasRuntime, GemmsAreAwaited
<1>3. CASE WriteReceipt(t)
  <2>1. HandlesOnTheirDevice' /\ HandlesCounted'
    BY <1>3, HandlesUntouched DEF WriteReceipt
  <2>2. PICK status \in Statuses : Answer(t, status)
    BY <1>3 DEF WriteReceipt, Statuses, Verdicts
  <2>3. QED
    BY <1>3, <2>1, <2>2, NoneApart
       DEF WriteReceipt, Step, Answer, PluginInv, TypeOK,
           LockIsClosure, InClosure, CallsHaveRequests, RepliesAreAnswers, RegionsByPlace,
           DeviceSelectedInside, ClosureHasRuntime, GemmsAreAwaited
<1>4. QED
  BY <1>1, <1>2, <1>3

LEMMA RuntimeLoads ==
  ASSUME PluginInv, NEW t \in Threads, LockRuntime(t) \/ RuntimeUnavailable(t)
  PROVE  PluginInv'
<1>1. CASE LockRuntime(t)
  <2>1. HandlesOnTheirDevice' /\ HandlesCounted'
    BY <1>1 DEF LockRuntime, PluginInv, HandlesOnTheirDevice, HandlesCounted, Cached
  <2>2. QED
    BY <1>1, <2>1, NoneApart
       DEF LockRuntime, Step, PluginInv, TypeOK, LockIsClosure, InClosure,
           CallsHaveRequests, RepliesAreAnswers, RegionsByPlace, DeviceSelectedInside,
           ClosureHasRuntime, GemmsAreAwaited
<1>2. CASE RuntimeUnavailable(t)
  <2>1. HandlesOnTheirDevice' /\ HandlesCounted'
    BY <1>2, HandlesUntouched DEF RuntimeUnavailable
  <2>2. QED
    BY <1>2, <2>1, NoneApart
       DEF RuntimeUnavailable, Step, Answer, Statuses,
           Verdicts, PluginInv, TypeOK, LockIsClosure, InClosure,
           CallsHaveRequests, RepliesAreAnswers, RegionsByPlace, DeviceSelectedInside,
           ClosureHasRuntime, GemmsAreAwaited
<1>3. QED
  BY <1>1, <1>2

\* The selected device is the request's, and so is the handle's.
LEMMA HandleSelected ==
  ASSUME PluginInv, NEW t \in Threads, SelectHandle(t)
  PROVE  PluginInv'
<1> DEFINE d == req[t].device
<1>1. /\ pc[t] = "device" /\ lock = t /\ loaded = TRUE /\ loaded' = TRUE
      /\ req[t] \in Requests /\ d \in Devices
      /\ current' = [current EXCEPT ![t] = d]
      /\ pc' = [pc EXCEPT ![t] = "importing"]
      /\ UNCHANGED <<lock, loaded, req, imported, running, reply, unsynced>>
  BY RequestParts, NoneApart
     DEF SelectHandle, DeviceSelected, Step, PluginInv, LockIsClosure,
         InClosure, TypeOK, CallsHaveRequests, ClosureHasRuntime
<1>2. \/ handles[d] # None /\ UNCHANGED <<handles, live>>
      \/ handles[d] = None /\ handles' = [handles EXCEPT ![d] = d] /\ live' = live + 1
  BY <1>1
     DEF SelectHandle, HandleCreated, DeviceSelected, PluginInv,
         TypeOK
<1>3. /\ handles' \in [Devices -> Devices \cup {None}]
      /\ handles'[d] # None
      /\ \A e \in Devices : handles[e] # None => handles'[e] = handles[e]
      /\ \A e \in Devices : handles'[e] # None => handles'[e] = e
  BY <1>1, <1>2, NoneApart DEF PluginInv, TypeOK, HandlesOnTheirDevice, Cached
<1>4. live' \in Nat /\ HandlesCounted'
  <2>1. CASE handles[d] # None /\ UNCHANGED <<handles, live>>
    BY <2>1 DEF PluginInv, TypeOK, HandlesCounted, Cached
  <2>2. CASE handles[d] = None /\ handles' = [handles EXCEPT ![d] = d] /\ live' = live + 1
    <3>1. Cached' = Cached \cup {d} /\ d \notin Cached
      BY <1>1, <2>2, NoneApart DEF Cached, PluginInv, TypeOK
    <3>2. Cardinality(Cached') = Cardinality(Cached) + 1
      BY <3>1, CachedFinite, FS_AddElement
    <3>3. QED
      BY <2>2, <3>2 DEF PluginInv, TypeOK, HandlesCounted
  <2>3. QED
    BY <1>2, <2>1, <2>2
<1>5. HandlesOnTheirDevice'
  BY <1>1, <1>3 DEF HandlesOnTheirDevice, Cached
<1>6. TypeOK'
  BY <1>1, <1>3, <1>4 DEF PluginInv, TypeOK
<1>7. \A u \in Threads : u # t => ~InClosure(u)
  BY <1>1 DEF PluginInv, LockIsClosure
<1>8. DeviceSelectedInside'
  BY <1>1, <1>3, <1>7 DEF DeviceSelectedInside, PluginInv, TypeOK, InClosure
<1>9. GemmsAreAwaited'
  BY <1>1, <1>7 DEF GemmsAreAwaited, PluginInv, TypeOK, InClosure
<1>10. LockIsClosure' /\ CallsHaveRequests' /\ RepliesAreAnswers' /\ ClosureHasRuntime'
  BY <1>1
     DEF PluginInv, TypeOK, LockIsClosure, InClosure, CallsHaveRequests, RepliesAreAnswers,
         ClosureHasRuntime
<1>11. RegionsByPlace'
  BY <1>1 DEF PluginInv, TypeOK, RegionsByPlace
<1>12. QED
  BY <1>4, <1>5, <1>6, <1>8, <1>9, <1>10, <1>11 DEF PluginInv

\* A call that gives up releases its regions and the mutex; it had started no GEMM, or
\* its synchronize failed.
LEMMA Abandoning ==
  ASSUME PluginInv, NEW t \in Threads, NEW status \in Statuses, InClosure(t),
         Abandon(t, status), UNCHANGED <<loaded, handles, live, req, running>>,
         current' \in [Threads -> Devices],
         \A u \in Threads : u # t => current'[u] = current[u],
         \/ pc[t] # "syncing" /\ unsynced' = unsynced
         \/ unsynced' = TRUE
  PROVE  PluginInv'
<1>1. HandlesOnTheirDevice' /\ HandlesCounted'
  BY HandlesUntouched
<1>2. /\ lock = t /\ lock' = None
      /\ \A u \in Threads : u # t => ~InClosure(u)
  BY NoneApart DEF PluginInv, LockIsClosure, Abandon, Leave
<1>3. TypeOK'
  <2>1. unsynced' \in BOOLEAN
    BY DEF PluginInv, TypeOK
  <2>2. imported' \in [Threads -> 0 .. 3] /\ reply' \in [Threads -> Statuses \cup {None}]
    BY DEF PluginInv, TypeOK, Abandon, Leave, Answer
  <2>3. pc' \in [Threads -> {"out", "locking", "device", "importing", "launching",
                              "syncing", "receipt", "answered"}]
    BY DEF PluginInv, TypeOK, Abandon, Answer, Step
  <2>4. QED
    BY <1>2, <2>1, <2>2, <2>3 DEF PluginInv, TypeOK
<1>4. LockIsClosure' /\ CallsHaveRequests' /\ RepliesAreAnswers' /\ ClosureHasRuntime'
  BY <1>2, NoneApart
     DEF PluginInv, TypeOK, LockIsClosure, InClosure, CallsHaveRequests, RepliesAreAnswers,
         ClosureHasRuntime, Abandon, Leave, Answer, Step
<1>5. RegionsByPlace' /\ DeviceSelectedInside'
  BY <1>2
     DEF PluginInv, TypeOK, RegionsByPlace, DeviceSelectedInside, InClosure,
         Abandon, Leave, Answer, Step
<1>6. GemmsAreAwaited'
  <2> SUFFICES ASSUME ~unsynced', NEW gemm \in running'
               PROVE  pc'[gemm.caller] = "syncing" /\ gemm.device = current'[gemm.caller]
    BY DEF GemmsAreAwaited
  <2>1. /\ pc[t] # "syncing" /\ pc[gemm.caller] = "syncing" /\ gemm.caller \in Threads
        /\ gemm.device = current[gemm.caller]
    BY DEF PluginInv, TypeOK, GemmsAreAwaited
  <2>2. QED
    BY <2>1 DEF PluginInv, TypeOK, Abandon, Answer, Step
<1>7. QED
  BY <1>1, <1>3, <1>4, <1>5, <1>6 DEF PluginInv

LEMMA GivingUp ==
  ASSUME PluginInv, NEW t \in Threads,
         \/ HandleUnavailable(t) \/ ImportFails(t)
         \/ LaunchFails(t) \/ SynchronizeFails(t)
  PROVE  PluginInv'
<1>1. CASE HandleUnavailable(t)
  <2>1. InClosure(t) /\ pc[t] # "syncing" /\ req[t].device \in Devices
    BY <1>1, RequestParts DEF HandleUnavailable, InClosure, PluginInv, CallsHaveRequests
  <2>2. /\ current' \in [Threads -> Devices]
        /\ \A u \in Threads : u # t => current'[u] = current[u]
    BY <1>1, <2>1 DEF HandleUnavailable, DeviceSelected, PluginInv, TypeOK
  <2>3. QED
    BY <1>1, <2>1, <2>2, Abandoning DEF HandleUnavailable, Statuses, Verdicts
<1>2. CASE ImportFails(t)
  BY <1>2, Abandoning
     DEF ImportFails, InClosure, Statuses, Verdicts, PluginInv,
         TypeOK
<1>3. CASE LaunchFails(t)
  BY <1>3, Abandoning
     DEF LaunchFails, InClosure, Statuses, Verdicts, PluginInv,
         TypeOK
<1>4. CASE SynchronizeFails(t)
  BY <1>4, Abandoning
     DEF SynchronizeFails, SyncFailed, InClosure, Statuses,
         Verdicts, PluginInv, TypeOK
<1>5. QED
  BY <1>1, <1>2, <1>3, <1>4

LEMMA RegionImported ==
  ASSUME PluginInv, NEW t \in Threads, ImportRegion(t)
  PROVE  PluginInv'
<1>1. HandlesOnTheirDevice' /\ HandlesCounted'
  BY HandlesUntouched DEF ImportRegion
<1>2. imported[t] \in 0 .. 2
  BY DEF ImportRegion, PluginInv, RegionsByPlace
<1>3. CASE imported[t] = 2
  BY <1>1, <1>2, <1>3, NoneApart
     DEF ImportRegion, Step, PluginInv, TypeOK, LockIsClosure, InClosure,
         CallsHaveRequests, RepliesAreAnswers, RegionsByPlace, DeviceSelectedInside,
         ClosureHasRuntime, GemmsAreAwaited
<1>4. CASE imported[t] # 2
  BY <1>1, <1>2, <1>4, NoneApart
     DEF ImportRegion, Step, PluginInv, TypeOK, LockIsClosure, InClosure,
         CallsHaveRequests, RepliesAreAnswers, RegionsByPlace, DeviceSelectedInside,
         ClosureHasRuntime, GemmsAreAwaited
<1>5. QED
  BY <1>3, <1>4

\* The GEMM is queued on the device that its caller is going to wait for.
LEMMA GemmLaunched ==
  ASSUME PluginInv, NEW t \in Threads, Launch(t)
  PROVE  PluginInv'
<1>1. HandlesOnTheirDevice' /\ HandlesCounted'
  BY HandlesUntouched DEF Launch
<1>2. /\ req[t] \in Requests /\ req[t].device \in Devices
      /\ handles[req[t].device] = current[t] /\ current[t] \in Devices
      /\ imported[t] = 3 /\ imported' = imported
  BY RequestParts
     DEF Launch, StillMapped, PluginInv, TypeOK, CallsHaveRequests,
         DeviceSelectedInside, HandlesOnTheirDevice, Cached, RegionsByPlace
<1>3. /\ running' = running \cup {[caller |-> t, device |-> current[t]]}
      /\ pc' = [pc EXCEPT ![t] = "syncing"] /\ pc[t] = "launching"
      /\ UNCHANGED <<lock, loaded, handles, live, current, req, imported, reply, unsynced>>
  BY <1>2 DEF Launch, Step
<1>4. TypeOK'
  BY <1>2, <1>3 DEF PluginInv, TypeOK
<1>5. GemmsAreAwaited'
  BY <1>2, <1>3 DEF PluginInv, TypeOK, GemmsAreAwaited
<1>6. RegionsByPlace'
  BY <1>2, <1>3 DEF PluginInv, TypeOK, RegionsByPlace
<1>7. QED
  BY <1>1, <1>3, <1>4, <1>5, <1>6
     DEF PluginInv, TypeOK, LockIsClosure, InClosure, CallsHaveRequests, RepliesAreAnswers,
         DeviceSelectedInside, ClosureHasRuntime

\* After a synchronize that succeeded no GEMM of the caller is left.
LEMMA DeviceSynchronized ==
  ASSUME PluginInv, NEW t \in Threads, Synchronize(t)
  PROVE  PluginInv'
<1>1. HandlesOnTheirDevice' /\ HandlesCounted'
  BY HandlesUntouched DEF Synchronize
<1>2. ~unsynced => \A gemm \in running : gemm.caller # t
  BY DEF Synchronize, PluginInv, GemmsAreAwaited
<1>3. GemmsAreAwaited'
  BY <1>2 DEF Synchronize, Step, PluginInv, TypeOK, GemmsAreAwaited
<1>4. QED
  BY <1>1, <1>3, NoneApart
     DEF Synchronize, Leave, Step, PluginInv, TypeOK,
         LockIsClosure, InClosure, CallsHaveRequests, RepliesAreAnswers, RegionsByPlace,
         DeviceSelectedInside, ClosureHasRuntime

LEMMA GemmFinished ==
  ASSUME PluginInv, DeviceWork
  PROVE  PluginInv'
<1>1. HandlesOnTheirDevice' /\ HandlesCounted'
  BY HandlesUntouched DEF DeviceWork, Finish
<1>2. QED
  BY <1>1
     DEF DeviceWork, Finish, PluginInv, TypeOK, LockIsClosure, InClosure,
         CallsHaveRequests, RepliesAreAnswers, RegionsByPlace, DeviceSelectedInside,
         ClosureHasRuntime, GemmsAreAwaited

\* Nobody is in the closure while shutdown takes the runtime and its handles.
LEMMA RuntimeTaken ==
  ASSUME PluginInv, NEW t \in Threads, Shutdown(t)
  PROVE  PluginInv'
<1>1. PICK d \in Devices : current' = [current EXCEPT ![t] = d]
  BY DEF Shutdown, Cached, PluginInv, TypeOK
<1>2. \A u \in Threads : ~InClosure(u)
  BY NoneApart DEF Shutdown, PluginInv, LockIsClosure
<1>3. Cached' = {} /\ live' = 0
  BY CachedFinite
     DEF Shutdown, Cached, Destroyed, PluginInv, HandlesCounted
<1>4. HandlesCounted' /\ HandlesOnTheirDevice'
  BY <1>3, FS_EmptySet DEF HandlesCounted, HandlesOnTheirDevice
<1>5. TypeOK'
  <2>1. loaded' \in BOOLEAN /\ unsynced' \in BOOLEAN
    BY DEF Shutdown, PluginInv, TypeOK
  <2>2. current' \in [Threads -> Devices] /\ handles' \in [Devices -> Devices \cup {None}]
    BY <1>1 DEF Shutdown, PluginInv, TypeOK
  <2>3. QED
    BY <1>3, <2>1, <2>2 DEF Shutdown, PluginInv, TypeOK
<1>6. GemmsAreAwaited'
  BY <1>2 DEF Shutdown, PluginInv, TypeOK, GemmsAreAwaited, InClosure
<1>7. QED
  BY <1>2, <1>4, <1>5, <1>6
     DEF Shutdown, PluginInv, LockIsClosure, InClosure, CallsHaveRequests, RepliesAreAnswers,
         RegionsByPlace, DeviceSelectedInside, ClosureHasRuntime

LEMMA PluginKept == PluginInv /\ [Next]_pluginVars => PluginInv'
<1> SUFFICES ASSUME PluginInv, [Next]_pluginVars PROVE PluginInv'
  OBVIOUS
<1>1. CASE UNCHANGED pluginVars
  BY <1>1
     DEF pluginVars, PluginInv, TypeOK, LockIsClosure, InClosure, CallsHaveRequests,
         RepliesAreAnswers, RegionsByPlace, DeviceSelectedInside, ClosureHasRuntime,
         HandlesOnTheirDevice, HandlesCounted, Cached, GemmsAreAwaited
<1>2. CASE Next
  BY <1>2, CallBoundary, RuntimeLoads, HandleSelected, GivingUp, RegionImported,
     GemmLaunched, DeviceSynchronized, GemmFinished, RuntimeTaken
     DEF Next, InExecute
<1>3. QED
  BY <1>1, <1>2 DEF pluginVars

-----------------------------------------------------------------------------
(* Calls in the plugin *)

AskedCalls == [operator : Loads, invocation : Invocations, launched : 0 .. 1]

Checked == {"locking", "device", "importing", "launching", "syncing", "receipt"}
Unlaunched == {"locking", "device", "importing", "launching"}
Refusals == {"INVALID_ARGUMENT", "UNSUPPORTED"}

\* What the host, the plugin and the call agree on about a thread.
Tied(t) ==
  /\ Host!Calling(t) => on[t] \in Loads /\ call[t] \in AskedCalls
  /\ pc[t] # "out" <=> at[t] = "executing"
  /\ reply[t] # None => pc[t] = "answered"
  /\ pc[t] \in Checked => Verdict(call[t].invocation) = "OK"
  /\ reply[t] \in Refusals => Verdict(call[t].invocation) = reply[t]
  /\ at[t] \in {"preparing", "waiting"} \/ pc[t] \in Unlaunched => call[t].launched = 0
  /\ pc[t] \in {"syncing", "receipt"} => call[t].launched = 1
  /\ reply[t] \in Refusals \cup {"UNAVAILABLE"} => call[t].launched = 0
  /\ reply[t] \in {"OK", "BUFFER_TOO_SMALL"} => call[t].launched = 1

Places == Checked \cup {"out", "answered"}

Kept ==
  /\ at \in [Threads -> Host!Activities] /\ on \in [Threads -> Loads \cup {None}]
  /\ pc \in [Threads -> Places] /\ reply \in [Threads -> Statuses \cup {None}]
  /\ call \in [Threads -> AskedCalls \cup {None}]
  /\ poisoned = [l \in Loads |-> FALSE]

CallsInv == Kept /\ \A t \in Threads : Tied(t)

\* A step of one thread leaves the others' part of the invariant alone.
LEMMA OthersStayTied ==
  ASSUME NEW t \in Threads, NEW u \in Threads, Tied(u),
         at'[u] = at[u], on'[u] = on[u], pc'[u] = pc[u], reply'[u] = reply[u],
         call'[u] = call[u]
  PROVE  Tied(u)'
BY DEF Tied, Host!Calling

\* A status is no None, so a thread without an answer has none of these.
LEMMA NoAnswerYet == None \notin Refusals \cup {"UNAVAILABLE", "OK", "BUFFER_TOO_SMALL"}
BY NoneIsNoValue DEF Refusals, Statuses, Verdicts

LEMMA CallsInitially == SystemInit => CallsInv
<1> SUFFICES ASSUME SystemInit PROVE CallsInv
  OBVIOUS
<1>1. /\ at = [t \in Threads |-> "idle"] /\ on = [t \in Threads |-> None]
      /\ pc = [t \in Threads |-> "out"] /\ reply = [t \in Threads |-> None]
      /\ call = [t \in Threads |-> None] /\ poisoned = [l \in Loads |-> FALSE]
  BY DEF SystemInit, Host!Init, Init
<1>2. Kept
  BY <1>1 DEF Kept, Host!Activities, Places
<1>3. ASSUME NEW t \in Threads PROVE Tied(t)
  BY <1>1, NoAnswerYet DEF Tied, Host!Calling, Checked, Unlaunched
<1>4. QED
  BY <1>2, <1>3 DEF CallsInv

\* Loading, sharing and dropping: the thread calls no operator.
LEMMA LifetimesKeepCalls ==
  ASSUME CallsInv, NEW t \in Threads, UNCHANGED <<pluginVars, call>>,
         \/ \E l \in Loads :
              \/ Host!BeginLoad(t, l) \/ Host!Register(t, l)
              \/ \E r \in {Library, Registry} : Host!DropReference(t, l, r)
         \/ Host!LoadFails(t) \/ Host!LoadSucceeds(t)
  PROVE  CallsInv'
<1>1. poisoned' = poisoned
  BY DEF Host!BeginLoad, Host!Register, Host!DropReference, Host!LoadFails, Host!LoadSucceeds
<1>2. \/ at' = at /\ on' = on
      \/ /\ at[t] \in {"idle", "querying"}
         /\ \E what \in {"idle", "querying", "shutting"}, l \in Loads \cup {None} :
              at' = [at EXCEPT ![t] = what] /\ on' = [on EXCEPT ![t] = l]
  <2>1. ASSUME NEW l \in Loads, Host!BeginLoad(t, l) PROVE <1>2!2
    BY <2>1, Zenon DEF Host!BeginLoad, Host!Idle, Host!Go
  <2>2. CASE Host!LoadFails(t) \/ Host!LoadSucceeds(t)
    BY <2>2, Zenon DEF Host!LoadFails, Host!LoadSucceeds, Host!GoIdle, Host!Go
  <2>3. ASSUME NEW l \in Loads, NEW r, Host!DropReference(t, l, r) PROVE <1>2
    BY <2>3, Zenon
       DEF Host!DropReference, Host!Idle, Host!Destroy, Host!CloseQuietly, Host!BeginShutdown,
           Host!Go, Host!perThread
  <2>4. ASSUME NEW l \in Loads, Host!Register(t, l) PROVE at' = at /\ on' = on
    BY <2>4 DEF Host!Register, Host!perThread
  <2>5. QED
    BY <2>1, <2>2, <2>3, <2>4
<1>3. Kept'
  BY <1>1, <1>2 DEF CallsInv, Kept, Host!Activities, pluginVars
<1>4. Tied(t)'
  BY <1>2, NoAnswerYet DEF CallsInv, Kept, Tied, Host!Calling, pluginVars, Checked, Unlaunched
<1>5. ASSUME NEW u \in Threads \ {t} PROVE Tied(u)'
  <2>1. at'[u] = at[u] /\ on'[u] = on[u]
    BY <1>2 DEF CallsInv, Kept
  <2>2. QED
    BY <2>1, OthersStayTied DEF CallsInv, pluginVars
<1>6. QED
  BY <1>3, <1>4, <1>5 DEF CallsInv

\* Whose call an operator is asked, and what for.
LEMMA CallBegins ==
  ASSUME CallsInv, NEW t \in Threads, NEW l \in Loads, NEW c \in Calls,
         CallRegistry(t, l, c) \/ CallOperator(t, l, c)
  PROVE  CallsInv'
<1>1. /\ at[t] = "idle" /\ UNCHANGED <<poisoned, pluginVars>>
      /\ at' = [at EXCEPT ![t] = "preparing"] /\ on' = [on EXCEPT ![t] = l]
      /\ call' = [call EXCEPT ![t] = Asked(l, c.invocation)]
  BY Zenon
     DEF CallRegistry, CallOperator, Host!BeginCall, Host!Idle, Host!Go, Host!perLoad
<1>2. Asked(l, c.invocation) \in AskedCalls /\ Asked(l, c.invocation).launched = 0
  BY CallsAreTyped DEF Asked, AskedCalls
<1>3. Kept'
  BY <1>1, <1>2 DEF CallsInv, Kept, Host!Activities, pluginVars
<1>4. Tied(t)'
  BY <1>1, <1>2, NoAnswerYet
     DEF CallsInv, Kept, Tied, Host!Calling, pluginVars, Checked, Unlaunched
<1>5. ASSUME NEW u \in Threads \ {t} PROVE Tied(u)'
  BY <1>1, OthersStayTied DEF CallsInv, Kept, pluginVars
<1>6. QED
  BY <1>3, <1>4, <1>5 DEF CallsInv

LEMMA CallPrepared ==
  ASSUME CallsInv, NEW t \in Threads, Prepare(t)
  PROVE  CallsInv'
<1>1. at[t] = "preparing" /\ UNCHANGED <<poisoned, pluginVars>>
  BY DEF Prepare, Host!Prepared, Host!Refused, Host!perLoad
<1>2. \/ /\ at' = [at EXCEPT ![t] = "waiting"] /\ on' = [on EXCEPT ![t] = on[t]]
         /\ call' = call
      \/ /\ at' = [at EXCEPT ![t] = "idle"] /\ on' = [on EXCEPT ![t] = None]
         /\ call' = [call EXCEPT ![t] = None]
  BY Zenon DEF Prepare, Host!Prepared, Host!Refused, Host!GoIdle, Host!Go
<1>3. Kept'
  BY <1>1, <1>2 DEF CallsInv, Kept, Host!Activities, pluginVars
<1>4. Tied(t)'
  BY <1>1, <1>2, NoAnswerYet
     DEF CallsInv, Kept, Tied, Host!Calling, pluginVars, Checked, Unlaunched
<1>5. ASSUME NEW u \in Threads \ {t} PROVE Tied(u)'
  BY <1>1, <1>2, OthersStayTied DEF CallsInv, Kept, pluginVars
<1>6. QED
  BY <1>3, <1>4, <1>5 DEF CallsInv

\* The callback judges the invocation before anything else.
LEMMA PluginEntered ==
  ASSUME CallsInv, NEW t \in Threads, EnterPlugin(t)
  PROVE  CallsInv'
<1> DEFINE verdict == Verdict(call[t].invocation)
<1>1. /\ at[t] = "waiting" /\ UNCHANGED <<poisoned, call>> /\ pc[t] = "out"
      /\ on[t] \in Loads
  BY DEF EnterPlugin, Host!Execute, Enter, CallsInv, Tied, Host!Calling
<1>2. at' = [at EXCEPT ![t] = "executing"] /\ on' = [on EXCEPT ![t] = on[t]]
  <2>1. ~poisoned[on[t]]
    BY <1>1 DEF CallsInv, Kept
  <2>2. QED
    BY <2>1, Zenon DEF EnterPlugin, Host!Execute, Host!Go
<1>3. PluginRequest(on[t], call[t].invocation).verdict = verdict
  BY DEF PluginRequest
<1>4. \/ verdict = "OK" /\ pc' = [pc EXCEPT ![t] = "locking"] /\ reply' = reply
      \/ /\ verdict # "OK"
         /\ pc' = [pc EXCEPT ![t] = "answered"] /\ reply' = [reply EXCEPT ![t] = verdict]
  BY <1>3, Zenon DEF EnterPlugin, Enter, Step, Answer
<1>5. verdict \in Refusals \cup {"OK"}
  BY DEF Verdict, Refusals
<1> HIDE DEF verdict
<1>6. Kept'
  BY <1>1, <1>2, <1>4, <1>5
     DEF CallsInv, Kept, Host!Activities, Places, Checked, Refusals, Statuses,
         Verdicts
<1>7. Tied(t)'
  <2>1. /\ on'[t] \in Loads /\ call'[t] \in AskedCalls /\ at'[t] = "executing"
        /\ call[t].launched = 0 /\ reply[t] = None
        /\ \/ verdict = "OK" /\ pc'[t] = "locking" /\ reply'[t] = None
           \/ verdict \in Refusals /\ pc'[t] = "answered" /\ reply'[t] = verdict
    BY <1>1, <1>2, <1>4, <1>5 DEF CallsInv, Kept, Tied, Host!Calling
  <2>2. Verdict(call'[t].invocation) = verdict
    BY <1>1 DEF verdict
  <2>3. QED
    BY <1>1, <2>1, <2>2, NoAnswerYet DEF Tied, Host!Calling, Checked, Unlaunched, Refusals
<1>8. ASSUME NEW u \in Threads \ {t} PROVE Tied(u)'
  <2>1. at'[u] = at[u] /\ on'[u] = on[u] /\ pc'[u] = pc[u] /\ reply'[u] = reply[u]
    BY <1>2, <1>4 DEF CallsInv, Kept
  <2>2. QED
    BY <1>1, <2>1, OthersStayTied DEF CallsInv
<1>9. QED
  BY <1>6, <1>7, <1>8 DEF CallsInv

\* Where a step of an execute leads, and what it answers.
Leads(t, to, status) ==
  /\ pc' = [pc EXCEPT ![t] = to]
  /\ reply' = IF status = None THEN reply ELSE [reply EXCEPT ![t] = status]

Way(from, to, status) ==
  \/ from \in Unlaunched /\ to \in Unlaunched /\ status = None
  \/ from = "launching" /\ to = "syncing" /\ status = None
  \/ from = "syncing" /\ to = "receipt" /\ status = None
  \/ from \in Unlaunched /\ to = "answered" /\ status = "UNAVAILABLE"
  \/ from \in Checked /\ to = "answered" /\ status = "INTERNAL_ERROR"
  \/ from = "receipt" /\ to = "answered" /\ status \in {"OK", "BUFFER_TOO_SMALL"}

LEMMA ExecuteSteps ==
  ASSUME CallsInv, NEW t \in Threads, InExecute(t)
  PROVE  \E to \in Places, status \in Statuses \cup {None} :
           Leads(t, to, status) /\ Way(pc[t], to, status)
<1> USE DEF Leads, Way
<1>1. /\ {"UNAVAILABLE", "INTERNAL_ERROR", "OK", "BUFFER_TOO_SMALL"} \subseteq Statuses
      /\ None \notin Statuses
  BY NoneIsNoValue DEF Statuses, Verdicts
<1>2. CASE LockRuntime(t)
  <2>1. pc[t] = "locking" /\ Leads(t, "device", None)
    BY <1>2 DEF LockRuntime, Step
  <2>2. QED
    BY <2>1 DEF Places, Checked, Unlaunched
<1>3. CASE SelectHandle(t)
  <2>1. pc[t] = "device" /\ Leads(t, "importing", None)
    BY <1>3 DEF SelectHandle, Step
  <2>2. QED
    BY <2>1 DEF Places, Checked, Unlaunched
<1>4. CASE ImportRegion(t)
  <2>1. pc[t] = "importing" /\ (Leads(t, "importing", None) \/ Leads(t, "launching", None))
    BY <1>4 DEF ImportRegion, Step
  <2>2. QED
    BY <2>1 DEF Places, Checked, Unlaunched
<1>5. CASE Launch(t)
  <2>1. pc[t] = "launching" /\ Leads(t, "syncing", None)
    BY <1>5 DEF Launch, Step
  <2>2. QED
    BY <2>1 DEF Places, Checked
<1>6. CASE Synchronize(t)
  <2>1. pc[t] = "syncing" /\ Leads(t, "receipt", None)
    BY <1>6 DEF Synchronize, Step
  <2>2. QED
    BY <2>1 DEF Places, Checked
<1>7. CASE RuntimeUnavailable(t) \/ HandleUnavailable(t) \/ ImportFails(t)
  <2>1. pc[t] \in {"locking", "device", "importing"} /\ Leads(t, "answered", "UNAVAILABLE")
    BY <1>1, <1>7, Zenon
       DEF RuntimeUnavailable, HandleUnavailable, ImportFails,
           Abandon, Answer, Step
  <2>2. QED
    BY <1>1, <2>1 DEF Places, Checked, Unlaunched
<1>8. CASE LaunchFails(t) \/ SynchronizeFails(t)
  <2>1. pc[t] \in {"launching", "syncing"} /\ Leads(t, "answered", "INTERNAL_ERROR")
    BY <1>1, <1>8, Zenon
       DEF LaunchFails, SynchronizeFails, SyncFailed, Abandon,
           Answer, Step
  <2>2. QED
    BY <1>1, <2>1 DEF Places, Checked
<1>9. CASE WriteReceipt(t)
  <2>1. /\ pc[t] = "receipt"
        /\ Leads(t, "answered", "OK") \/ Leads(t, "answered", "BUFFER_TOO_SMALL")
    BY <1>1, <1>9, Zenon DEF WriteReceipt, Answer, Step
  <2>2. QED
    BY <1>1, <2>1 DEF Places, Checked
<1>10. QED
  BY <1>2, <1>3, <1>4, <1>5, <1>6, <1>7, <1>8, <1>9 DEF InExecute

LEMMA PluginRuns ==
  ASSUME CallsInv, NEW t \in Threads, PluginAlone(t)
  PROVE  CallsInv'
<1>1. UNCHANGED <<at, on, poisoned>>
  BY DEF PluginAlone, hostVars
<1>2. PICK to \in Places, status \in Statuses \cup {None} :
        Leads(t, to, status) /\ Way(pc[t], to, status)
  BY ExecuteSteps DEF PluginAlone
<1>3. call' = IF pc[t] = "launching" /\ to = "syncing"
              THEN [call EXCEPT ![t].launched = @ + 1] ELSE call
  BY <1>2 DEF PluginAlone, Leads, CallsInv, Kept
<1>4. pc[t] \in Checked /\ at[t] = "executing" /\ call[t] \in AskedCalls /\ reply[t] = None
      /\ on[t] \in Loads /\ Verdict(call[t].invocation) = "OK"
  BY <1>2 DEF Way, CallsInv, Tied, Host!Calling, Checked, Unlaunched
<1>5. pc[t] = "launching" =>
        /\ [call[t] EXCEPT !.launched = @ + 1] \in AskedCalls
        /\ [call[t] EXCEPT !.launched = @ + 1].launched = 1
        /\ [call[t] EXCEPT !.launched = @ + 1].invocation = call[t].invocation
  <2>1. pc[t] = "launching" => call[t].launched = 0
    BY DEF CallsInv, Tied, Unlaunched
  <2>2. QED
    BY <1>4, <2>1 DEF AskedCalls
<1>6. Kept'
  BY <1>1, <1>2, <1>3, <1>5 DEF CallsInv, Kept, Leads
<1>7. Tied(t)'
  <2>1. pc'[t] = to /\ reply'[t] = IF status = None THEN None ELSE status
    BY <1>2, <1>4 DEF CallsInv, Kept, Leads
  <2>2. /\ call'[t] \in AskedCalls /\ call'[t].invocation = call[t].invocation
        /\ pc[t] = "launching" /\ to = "syncing" => call'[t].launched = 1
        /\ ~(pc[t] = "launching" /\ to = "syncing") => call'[t] = call[t]
    BY <1>3, <1>4, <1>5 DEF CallsInv, Kept
  <2>3. /\ pc[t] \in Unlaunched => call[t].launched = 0
        /\ pc[t] \in {"syncing", "receipt"} => call[t].launched = 1
    BY DEF CallsInv, Tied
  <2>4. /\ to \in Checked \/ to = "answered"
        /\ to \in Checked => status = None
        /\ status \notin Refusals
        /\ to \in Unlaunched => pc[t] \in Unlaunched
        /\ to = "syncing" => pc[t] = "launching"
        /\ to = "receipt" => pc[t] = "syncing"
        /\ status = "UNAVAILABLE" => pc[t] \in Unlaunched
        /\ status \in {"OK", "BUFFER_TOO_SMALL"} => pc[t] = "receipt"
    BY <1>2, NoAnswerYet DEF Way, Checked, Unlaunched, Refusals
  <2>5. /\ to \in Unlaunched => call'[t].launched = 0
        /\ to \in {"syncing", "receipt"} => call'[t].launched = 1
        /\ status = "UNAVAILABLE" => call'[t].launched = 0
        /\ status \in {"OK", "BUFFER_TOO_SMALL"} => call'[t].launched = 1
    BY <2>2, <2>3, <2>4, NoAnswerYet DEF Unlaunched, Checked
  <2>6. QED
    BY <1>1, <1>4, <2>1, <2>2, <2>4, <2>5, NoAnswerYet
       DEF Tied, Host!Calling, Checked, Unlaunched, Refusals
<1>8. ASSUME NEW u \in Threads \ {t} PROVE Tied(u)'
  <2>1. pc'[u] = pc[u] /\ reply'[u] = reply[u] /\ call'[u] = call[u]
    BY <1>2, <1>3 DEF CallsInv, Kept, Leads
  <2>2. QED
    BY <1>1, <2>1, OthersStayTied DEF CallsInv
<1>9. QED
  BY <1>6, <1>7, <1>8 DEF CallsInv

\* The callback returns; the plugin and the host forget the call together.
LEMMA CallReturns ==
  ASSUME CallsInv, NEW t \in Threads, LeavePlugin(t) \/ ShutDownPlugin(t)
  PROVE  CallsInv'
<1>1. CASE LeavePlugin(t)
  <2>1. /\ at[t] = "executing" /\ at' = [at EXCEPT ![t] = "idle"] /\ on' = [on EXCEPT ![t] = None]
        /\ pc' = [pc EXCEPT ![t] = "out"] /\ reply' = [reply EXCEPT ![t] = None]
        /\ call' = [call EXCEPT ![t] = None] /\ poisoned' = poisoned
    BY <1>1, Zenon
       DEF LeavePlugin, Return, Step, Host!ExecuteReturns, Host!GoIdle, Host!Go
  <2>2. Kept'
    BY <2>1 DEF CallsInv, Kept, Host!Activities, Places
  <2>3. Tied(t)'
    BY <2>1, NoAnswerYet DEF CallsInv, Kept, Tied, Host!Calling, Checked, Unlaunched
  <2>4. ASSUME NEW u \in Threads \ {t} PROVE Tied(u)'
    BY <2>1, OthersStayTied DEF CallsInv, Kept
  <2>5. QED
    BY <2>2, <2>3, <2>4 DEF CallsInv
<1>2. CASE ShutDownPlugin(t)
  <2>1. /\ at[t] = "shutting" /\ at' = [at EXCEPT ![t] = "idle"] /\ on' = [on EXCEPT ![t] = None]
        /\ UNCHANGED <<pc, reply, call, poisoned>>
    BY <1>2, Zenon
       DEF ShutDownPlugin, Shutdown, Host!ShutdownReturns, Host!GoIdle, Host!Go
  <2>2. Kept'
    BY <2>1 DEF CallsInv, Kept, Host!Activities
  <2>3. Tied(t)'
    BY <2>1, NoAnswerYet DEF CallsInv, Kept, Tied, Host!Calling, Checked, Unlaunched
  <2>4. ASSUME NEW u \in Threads \ {t} PROVE Tied(u)'
    BY <2>1, OthersStayTied DEF CallsInv, Kept
  <2>5. QED
    BY <2>2, <2>3, <2>4 DEF CallsInv
<1>3. QED
  BY <1>1, <1>2

LEMMA NothingHappens ==
  ASSUME CallsInv, UNCHANGED <<at, on, pc, reply, call, poisoned>>
  PROVE  CallsInv'
<1>1. Kept'
  BY DEF CallsInv, Kept
<1>2. ASSUME NEW t \in Threads PROVE Tied(t)'
  BY DEF CallsInv, Tied, Host!Calling
<1>3. QED
  BY <1>1, <1>2 DEF CallsInv

LEMMA CallsKept == CallsInv /\ [SystemNext]_vars => CallsInv'
<1> SUFFICES ASSUME CallsInv, [SystemNext]_vars PROVE CallsInv'
  OBVIOUS
<1>1. ASSUME NEW t \in Threads, NEW l \in Loads,
             Load(t, l) \/ RegisterInto(t, l) \/ DropLibrary(t, l)
      PROVE  CallsInv'
  BY <1>1, LifetimesKeepCalls, Zenon DEF Load, RegisterInto, DropLibrary
<1>2. ASSUME NEW t \in Threads, NEW o \in Operators, DropFromRegistry(t, o) PROVE CallsInv'
  <2>1. CASE o \in Loads
    BY <1>2, <2>1, LifetimesKeepCalls, Zenon DEF DropFromRegistry
  <2>2. CASE o \notin Loads
    BY <1>2, <2>2, NothingHappens DEF DropFromRegistry, hostVars, pluginVars
  <2>3. QED
    BY <2>1, <2>2
<1>3. CASE Compute \/ (\E o \in DOMAIN Injected : RegisterInjected(o)) \/ UNCHANGED vars
  BY <1>3, NothingHappens
     DEF Compute, DeviceWork, Finish, RegisterInjected, vars, hostVars, pluginVars
<1>4. QED
  BY <1>1, <1>2, <1>3, CallBegins, CallPrepared, PluginEntered, PluginRuns, CallReturns DEF SystemNext

-----------------------------------------------------------------------------
(* RUNTIME_STATE in the system *)

LEMMA RequestIsTyped ==
  ASSUME NEW l \in Loads, NEW i \in Invocations
  PROVE  PluginRequest(l, i) \in Requests
<1>1. Verdict(i) \in {"OK", "INVALID_ARGUMENT", "UNSUPPORTED"}
  BY DEF Verdict
<1>2. Policy[l].room \in BOOLEAN
  BY PoliciesAreTyped
<1>3. i.metadata.control.device \in Devices /\ (CHOOSE d \in Devices : TRUE) \in Devices
  BY SomeDevice DEF Invocations, Messages, Controls
<1>4. QED
  BY <1>1, <1>2, <1>3 DEF PluginRequest, Requests, Verdicts

\* Every step of the system is a step of the plugin's module, or none of its business.
LEMMA StepOfPlugin == CallsInv /\ [SystemNext]_vars => [Next]_pluginVars
<1> SUFFICES ASSUME CallsInv, [SystemNext]_vars PROVE Next \/ UNCHANGED pluginVars
  OBVIOUS
<1>1. ASSUME NEW t \in Threads, EnterPlugin(t) PROVE Next
  <2>1. on[t] \in Loads /\ call[t].invocation \in Invocations
    BY <1>1 DEF EnterPlugin, Host!Execute, CallsInv, Tied, Host!Calling, AskedCalls
  <2>2. PluginRequest(on[t], call[t].invocation) \in Requests
    BY <2>1, RequestIsTyped
  <2>3. Enter(t, PluginRequest(on[t], call[t].invocation))
    BY <1>1 DEF EnterPlugin
  <2>4. QED
    BY <2>2, <2>3, Zenon DEF Next
<1>2. ASSUME NEW t \in Threads, PluginAlone(t) \/ LeavePlugin(t) \/ ShutDownPlugin(t)
      PROVE  Next
  <2>1. InExecute(t) \/ Return(t) \/ Shutdown(t)
    BY <1>2 DEF PluginAlone, LeavePlugin, ShutDownPlugin
  <2>2. QED
    BY <2>1, Zenon DEF Next
<1>3. CASE Compute
  <2>1. DeviceWork
    BY <1>3, Zenon DEF Compute
  <2>2. QED
    BY <2>1, Zenon DEF Next
<1>4. ASSUME NEW t \in Threads,
             \/ \E l \in Loads : Load(t, l) \/ RegisterInto(t, l) \/ DropLibrary(t, l)
             \/ \E o \in Operators : DropFromRegistry(t, o)
             \/ \E c \in Calls, l \in Loads : CallRegistry(t, l, c) \/ CallOperator(t, l, c)
             \/ Prepare(t)
      PROVE  UNCHANGED pluginVars
  BY <1>4
     DEF Load, RegisterInto, DropLibrary, DropFromRegistry, CallRegistry, CallOperator, Prepare
<1>5. CASE (\E o \in DOMAIN Injected : RegisterInjected(o)) \/ UNCHANGED vars
  BY <1>5 DEF RegisterInjected, vars
<1>6. QED
  BY <1>1, <1>2, <1>3, <1>4, <1>5 DEF SystemNext

-----------------------------------------------------------------------------
(* The plugin's checks, in checked arithmetic, against ordinary arithmetic *)

LEMMA NumbersAreNotNone == \A n \in Nat : n # None
<1>1. \A n \in Nat : n \in Int
  OBVIOUS
<1>2. QED
  BY <1>1, NoneIsNoNumber, Zenon

\* No product of two dimensions that rocBLAS takes overflows, nor its size in bytes.
LEMMA SmallProducts ==
  ASSUME NEW a \in 1 .. I32Max, NEW b \in 1 .. I32Max
  PROVE  /\ a * b \in Nat \ {0} /\ ExpectedElements(a, b) = a * b
         /\ MatrixBytes(a, b) = F32Bytes * (a * b) /\ MatrixBytes(a, b) \in Nat
<1> DEFINE p == a * b
           q == I32Max * I32Max
<1>1. I32Max \in Nat /\ a \in Nat /\ b \in Nat /\ a <= I32Max /\ b <= I32Max
  BY WidthsAsInRust
<1>2. p \in Nat \ {0} /\ q \in Nat /\ p <= q
  <2>1. a * b <= I32Max * b
    BY <1>1
  <2>2. I32Max * b <= I32Max * I32Max
    BY <1>1
  <2>3. a * b # 0
    BY <1>1
  <2>4. QED
    BY <1>1, <2>1, <2>2, <2>3
<1>3. F32Bytes * q <= U64Max /\ U64Max \in Nat /\ F32Bytes = 4
  <2>1. (4 * I32Max) * I32Max = 4 * (I32Max * I32Max)
    BY <1>1
  <2>2. QED
    BY <2>1, WidthsAsInRust, WidthIsPositive DEF F32Bytes
<1> HIDE DEF p, q
<1>4. 4 * p <= U64Max /\ p <= U64Max /\ p * 4 = 4 * p
  BY <1>2, <1>3
<1>5. a # None /\ b # None /\ p # None /\ 4 # None
  BY <1>1, <1>2, NumbersAreNotNone
<1>6. Times(a, b) = p
  BY <1>4, <1>5 DEF Times, Fitting, p
<1>7. Times(p, 4) = 4 * p
  BY <1>4, <1>5 DEF Times, Fitting
<1>8. QED
  BY <1>2, <1>3, <1>6, <1>7 DEF ExpectedElements, MatrixBytes, F32Bytes, p

LEMMA SmallControls ==
  ASSUME NEW c \in Controls, {c.m, c.n, c.k} \subseteq 1 .. I32Max
  PROVE  /\ ValidControl(c)
         /\ ExpectedLengths(c) =
              <<F32Bytes * (c.m * c.k), F32Bytes * (c.k * c.n), F32Bytes * (c.m * c.n)>>
         /\ ExpectedLengths(c) # None
<1>1. c.m \in 1 .. I32Max /\ c.n \in 1 .. I32Max /\ c.k \in 1 .. I32Max
  OBVIOUS
<1>2. /\ ExpectedElements(c.m, c.k) \in Nat /\ ExpectedElements(c.k, c.n) \in Nat
      /\ ExpectedElements(c.m, c.n) \in Nat
      /\ MatrixBytes(c.m, c.k) \in Nat /\ MatrixBytes(c.k, c.n) \in Nat
      /\ MatrixBytes(c.m, c.n) \in Nat
  BY <1>1, SmallProducts
<1>3. ValidControl(c)
  <2>1. c.device \in Nat
    BY DevicesAreNumbered DEF Controls
  <2>2. 0 \notin {c.m, c.n, c.k}
    BY <1>1
  <2>3. QED
    BY <1>2, <2>1, <2>2, NumbersAreNotNone DEF ValidControl
<1>4. MatrixLengths(c) \in Seq(Nat)
  BY <1>2 DEF MatrixLengths
<1>5. \A i \in 1 .. ResourceCount : MatrixLengths(c)[i] # None
  BY <1>2, NumbersAreNotNone DEF MatrixLengths, ResourceCount
<1>6. ExpectedLengths(c) = MatrixLengths(c)
  BY <1>3, <1>5 DEF ExpectedLengths
<1>7. MatrixLengths(c) =
        <<F32Bytes * (c.m * c.k), F32Bytes * (c.k * c.n), F32Bytes * (c.m * c.n)>>
  BY <1>1, SmallProducts DEF MatrixLengths
<1>8. QED
  BY <1>3, <1>4, <1>6, <1>7, NoneIsNoName

\* One region: checked_add and the comparisons are r.offset + r.length <= r.allocation.
LEMMA RegionChecks ==
  ASSUME NEW r \in MemoryRegions, NEW access, NEW bytes \in Nat
  PROVE  RegionAccepted(r, access, bytes) <=>
           /\ r.handle # 0 /\ r.kind = "Win32Kmt" /\ r.access = access /\ r.length = bytes
           /\ r.allocation # 0 /\ r.offset + r.length <= r.allocation
<1>1. /\ r.offset \in Nat /\ r.length \in Nat /\ r.allocation \in Nat
      /\ r.allocation <= U64Max /\ U64Max \in Nat
  BY WidthIsPositive DEF MemoryRegions
<1>2. r.offset # None /\ r.length # None /\ r.offset + r.length # None
  BY <1>1, NumbersAreNotNone
<1>3. Plus(r.offset, r.length) =
        IF r.offset + r.length <= U64Max THEN r.offset + r.length ELSE None
  BY <1>2 DEF Plus, Fitting
<1>4. r.offset + r.length <= r.allocation => r.offset + r.length <= U64Max
  BY <1>1
<1>5. QED
  BY <1>1, <1>2, <1>3, <1>4 DEF RegionAccepted

\* The checks let through the well-formed calls and no other.
LEMMA VerdictIsRight ==
  ASSUME NEW i \in Invocations
  PROVE  Verdict(i) = "OK" <=> WellFormed(i)
<1> DEFINE c == i.metadata.control
           elements == <<c.m * c.k, c.k * c.n, c.m * c.n>>
           bytes == <<F32Bytes * (c.m * c.k), F32Bytes * (c.k * c.n), F32Bytes * (c.m * c.n)>>
           Fits(k) ==
             LET r == i.resources[k] IN
             /\ r.handle # 0 /\ r.kind = "Win32Kmt" /\ r.access = Accesses[k]
             /\ r.length = F32Bytes * elements[k]
             /\ r.offset + r.length <= r.allocation
<1>1. /\ c \in Controls /\ c # None /\ i.metadata \in Messages
      /\ i.resources \in Seq(MemoryRegions) /\ i.waits \in Seq(SyncPoints)
      /\ i.signals \in Seq(SyncPoints)
  BY NoneIsNoName DEF Invocations, Messages
<1>2. /\ c.m \in Nat /\ c.n \in Nat /\ c.k \in Nat /\ c.device \in Devices
      /\ I32Max \in Nat
  BY <1>1, WidthsAsInRust DEF Controls
<1>3. DecodeControl(i.metadata) = c <=> i.metadata = Message(c) /\ ValidControl(c)
  BY <1>1 DEF DecodeControl, Message, Messages
<1>4. DecodeControl(i.metadata) \in {c, None}
  BY DEF DecodeControl
<1>5. i.waits \o i.signals = << >> <=> i.waits = << >> /\ i.signals = << >>
  BY <1>1
<1>6. CASE {c.m, c.n, c.k} \subseteq 1 .. I32Max
  <2>1. ~BeyondBlas(c) /\ ValidControl(c) /\ ExpectedLengths(c) = bytes
        /\ ExpectedLengths(c) # None
    BY <1>1, <1>2, <1>6, SmallControls DEF BeyondBlas
  <2>2. RegionsAccepted(i.resources, c) <=>
          \A k \in 1 .. 3 : RegionAccepted(i.resources[k], Accesses[k], bytes[k])
    BY <2>1 DEF RegionsAccepted, ResourceCount
  <2>3. ASSUME Len(i.resources) = 3, NEW k \in 1 .. 3
        PROVE  RegionAccepted(i.resources[k], Accesses[k], bytes[k]) <=> Fits(k)
    <3>1. i.resources[k] \in MemoryRegions
      BY <1>1, <2>3
    <3>2. elements[k] \in Nat \ {0}
      BY <1>6, SmallProducts
    <3>3. bytes[k] = F32Bytes * elements[k] /\ bytes[k] \in Nat \ {0}
      BY <3>2 DEF F32Bytes
    <3> HIDE DEF bytes, elements
    <3>4. RegionAccepted(i.resources[k], Accesses[k], bytes[k]) <=>
            /\ i.resources[k].handle # 0 /\ i.resources[k].kind = "Win32Kmt"
            /\ i.resources[k].access = Accesses[k] /\ i.resources[k].length = bytes[k]
            /\ i.resources[k].allocation # 0
            /\ i.resources[k].offset + i.resources[k].length <= i.resources[k].allocation
      BY <3>1, <3>3, RegionChecks
    <3>5. QED
      BY <3>1, <3>3, <3>4 DEF MemoryRegions
  <2> HIDE DEF bytes
  <2>4. WellFormed(i) <=>
          /\ i.metadata = Message(c)
          /\ Len(i.resources) = 3 /\ i.waits \o i.signals = << >>
          /\ \A k \in 1 .. 3 : Fits(k)
    <3>1. i.metadata = Message(c) => i.metadata.magic = Magic
      BY DEF Message
    <3>2. QED
      BY <1>2, <1>6, <3>1 DEF WellFormed
  <2>5. Verdict(i) = "OK" <=>
          /\ i.metadata = Message(c)
          /\ Len(i.resources) = 3 /\ i.waits = << >> /\ i.signals = << >>
          /\ RegionsAccepted(i.resources, c)
    BY <1>1, <1>3, <1>4, <2>1 DEF Verdict, ResourceCount
  <2>6. QED
    BY <1>5, <2>2, <2>3, <2>4, <2>5
<1>7. CASE ~({c.m, c.n, c.k} \subseteq 1 .. I32Max)
  <2>1. ~WellFormed(i)
    BY <1>7 DEF WellFormed
  <2>2. BeyondBlas(c) \/ ~ValidControl(c)
    BY <1>2, <1>7 DEF BeyondBlas, ValidControl
  <2>3. QED
    BY <1>1, <1>3, <1>4, <2>1, <2>2 DEF Verdict
<1>8. QED
  BY <1>6, <1>7

-----------------------------------------------------------------------------
(* What a load's state is worth to the calls that go through it *)

LoadsKept ==
  /\ stage \in [Loads -> Host!Stages] /\ refs \in [Loads -> SUBSET Host!Holders]
  /\ via \in [Threads -> Host!Holders \cup {None}]
  /\ \A l \in Loads : stage[l] = "live" <=> refs[l] # {}
  /\ \A t \in Threads : Host!Calling(t) => via[t] \in refs[on[t]]
  /\ \A t \in Threads : at[t] = "querying" => on[t] \in Loads /\ stage[on[t]] = "loading"
  /\ \A t \in Threads : at[t] = "shutting" => on[t] \in Loads /\ stage[on[t]] = "shutting"
  /\ \A t, u \in Threads :
       at[t] \in {"querying", "shutting"} /\ at[u] = at[t] /\ on[t] = on[u] => t = u

\* The runtime is only there while a load is that will shut it down.
RuntimeIsHeld == loaded => \E l \in Loads : stage[l] \in {"live", "shutting"}

SystemInv == CallsInv /\ LoadsKept /\ PluginInv /\ RuntimeIsHeld

LEMMA LoadsInitially == SystemInit => LoadsKept /\ RuntimeIsHeld
BY DEF SystemInit, Host!Init, Init, LoadsKept, RuntimeIsHeld, Host!Stages, Host!Calling

LEMMA LoadingKeepsLoads ==
  ASSUME CallsInv, LoadsKept, NEW t \in Threads, NEW l \in Loads, Load(t, l)
  PROVE  LoadsKept' /\ \A k \in Loads : stage[k] \in {"live", "shutting"} => stage'[k] = stage[k]
<1>1. CASE Host!BeginLoad(t, l)
  BY <1>1
     DEF Host!BeginLoad, Host!Idle, Host!Go, CallsInv, Kept, LoadsKept, Host!Stages,
         Host!Calling
<1>2. CASE on[t] = l /\ Host!LoadFails(t)
  BY <1>2
     DEF Host!LoadFails, Host!GoIdle, Host!Go, CallsInv, Kept, LoadsKept, Host!Stages,
         Host!Calling
<1>3. CASE on[t] = l /\ Host!LoadSucceeds(t)
  BY <1>3
     DEF Host!LoadSucceeds, Host!GoIdle, Host!Go, CallsInv, Kept, LoadsKept, Host!Stages,
         Host!Holders, Host!Calling
<1>4. QED
  BY <1>1, <1>2, <1>3 DEF Load

LEMMA RegisteringKeepsLoads ==
  ASSUME CallsInv, LoadsKept, NEW t \in Threads, NEW l \in Loads, Host!Register(t, l)
  PROVE  LoadsKept' /\ stage' = stage
BY DEF Host!Register, Host!perThread, Host!Holders, CallsInv, Kept, LoadsKept, Host!Calling

\* No reference that a call goes through is dropped, and the last one shuts the plugin down.
LEMMA DroppingKeepsLoads ==
  ASSUME CallsInv, LoadsKept, NEW t \in Threads, NEW l \in Loads,
         NEW r \in {Library, Registry}, Host!DropReference(t, l, r)
  PROVE  /\ LoadsKept'
         /\ \A k \in Loads : stage[k] \in {"live", "shutting"} =>
              stage'[k] \in {"live", "shutting"}
<1>1. /\ at[t] = "idle" /\ r \in refs[l] /\ ~Host!Borrowed(l, r) /\ stage[l] = "live"
      /\ refs' = [refs EXCEPT ![l] = refs[l] \ {r}]
  BY DEF Host!DropReference, Host!Idle, Host!Reachable, LoadsKept
<1>2. \A u \in Threads : Host!Calling(u) /\ on[u] = l => via[u] \in refs[l] \ {r}
  BY <1>1 DEF LoadsKept, Host!Borrowed
<1>3. CASE refs[l] \ {r} # {}
  <2>1. UNCHANGED <<stage, at, on, via>>
    BY <1>3 DEF Host!DropReference, Host!LastDropped, Host!perThread
  <2>2. QED
    BY <1>1, <1>2, <1>3, <2>1 DEF LoadsKept, Host!Calling
<1>4. CASE refs[l] \ {r} = {}
  <2>1. ~poisoned[l]
    BY DEF CallsInv, Kept
  <2>2. /\ stage' = [stage EXCEPT ![l] = "shutting"] /\ at' = [at EXCEPT ![t] = "shutting"]
        /\ on' = [on EXCEPT ![t] = l] /\ via' = [via EXCEPT ![t] = None]
    BY <1>4, <2>1
       DEF Host!DropReference, Host!LastDropped, Host!Destroy, Host!BeginShutdown,
           Host!DuringShutdown, Host!Go, Silent
  <2>3. QED
    BY <1>1, <1>2, <1>4, <2>2 DEF CallsInv, Kept, LoadsKept, Host!Stages, Host!Calling
<1>5. QED
  BY <1>3, <1>4

LEMMA CallingKeepsLoads ==
  ASSUME CallsInv, LoadsKept, NEW t \in Threads,
         \/ \E l \in Loads, r \in {Library, Registry} : Host!BeginCall(t, l, r)
         \/ Host!Refused(t) \/ Host!Prepared(t) \/ Host!Execute(t) \/ Host!ExecuteReturns(t)
  PROVE  LoadsKept' /\ stage' = stage
<1>1. UNCHANGED <<stage, refs>>
  BY DEF Host!BeginCall, Host!Refused, Host!Prepared, Host!Execute, Host!ExecuteReturns,
         Host!perLoad
<1>2. ASSUME NEW l \in Loads, NEW r \in {Library, Registry}, Host!BeginCall(t, l, r)
      PROVE  LoadsKept'
  BY <1>1, <1>2
     DEF Host!BeginCall, Host!Reachable, Host!Idle, Host!Go, Host!Holders, CallsInv, Kept,
         LoadsKept, Host!Calling
<1>3. CASE Host!Prepared(t) \/ Host!Execute(t) \/ Host!Refused(t) \/ Host!ExecuteReturns(t)
  <2>1. /\ Host!Calling(t) /\ at[t] # "querying"
        /\ \E what \in {"idle", "waiting", "executing"} : at' = [at EXCEPT ![t] = what]
        /\ \/ on' = [on EXCEPT ![t] = on[t]] /\ via' = [via EXCEPT ![t] = via[t]]
           \/ /\ at' = [at EXCEPT ![t] = "idle"]
              /\ on' = [on EXCEPT ![t] = None] /\ via' = [via EXCEPT ![t] = None]
    BY <1>3, Zenon
       DEF Host!Prepared, Host!Execute, Host!Refused, Host!ExecuteReturns, Host!GoIdle, Host!Go,
           Host!Calling
  <2>2. QED
    BY <1>1, <2>1 DEF CallsInv, Kept, LoadsKept, Host!Calling
<1>4. QED
  BY <1>1, <1>2, <1>3

LEMMA ShutdownKeepsLoads ==
  ASSUME CallsInv, LoadsKept, NEW t \in Threads, Host!ShutdownReturns(t)
  PROVE  LoadsKept'
<1>1. at[t] = "shutting" /\ on[t] \in Loads /\ stage[on[t]] = "shutting"
  BY DEF Host!ShutdownReturns, LoadsKept
<1>2. \A u \in Threads : Host!Calling(u) => on[u] # on[t]
  BY <1>1 DEF LoadsKept, CallsInv, Tied
<1>3. QED
  BY <1>1, <1>2
     DEF Host!ShutdownReturns, Host!GoIdle, Host!Go, CallsInv, Kept, LoadsKept, Host!Stages,
         Host!Calling

LEMMA LoadsStayKept == CallsInv /\ LoadsKept /\ [SystemNext]_vars => LoadsKept'
<1> SUFFICES ASSUME CallsInv, LoadsKept, [SystemNext]_vars PROVE LoadsKept'
  OBVIOUS
<1>1. ASSUME NEW t \in Threads, NEW l \in Loads,
             Load(t, l) \/ RegisterInto(t, l) \/ DropLibrary(t, l)
      PROVE  LoadsKept'
  BY <1>1, LoadingKeepsLoads, RegisteringKeepsLoads, DroppingKeepsLoads
     DEF RegisterInto, DropLibrary
<1>2. CASE UNCHANGED hostVars
  BY <1>2 DEF hostVars, LoadsKept, Host!Calling
<1>3. ASSUME NEW t \in Threads, NEW o \in Operators, DropFromRegistry(t, o) PROVE LoadsKept'
  BY <1>2, <1>3, DroppingKeepsLoads DEF DropFromRegistry
<1>4. ASSUME NEW t \in Threads, NEW l \in Loads, NEW c \in Calls,
             CallRegistry(t, l, c) \/ CallOperator(t, l, c)
      PROVE  LoadsKept'
  BY <1>4, CallingKeepsLoads DEF CallRegistry, CallOperator
<1>5. ASSUME NEW t \in Threads, Prepare(t) \/ EnterPlugin(t) \/ LeavePlugin(t) PROVE LoadsKept'
  BY <1>5, CallingKeepsLoads DEF Prepare, EnterPlugin, LeavePlugin
<1>6. ASSUME NEW t \in Threads, ShutDownPlugin(t) PROVE LoadsKept'
  BY <1>6, ShutdownKeepsLoads DEF ShutDownPlugin
<1>7. QED
  BY <1>1, <1>2, <1>3, <1>4, <1>5, <1>6
     DEF SystemNext, vars, PluginAlone, Compute, RegisterInjected

\* A call that loads the runtime goes through a live load; a shutdown takes the runtime.
LEMMA RuntimeStaysHeld == SystemInv /\ [SystemNext]_vars => RuntimeIsHeld'
<1> SUFFICES ASSUME SystemInv, [SystemNext]_vars, loaded'
             PROVE  \E l \in Loads : stage'[l] \in {"live", "shutting"}
  BY DEF RuntimeIsHeld
<1>1. ASSUME NEW t \in Threads, PluginAlone(t)
      PROVE  \E l \in Loads : stage'[l] \in {"live", "shutting"}
  <2>1. at[t] = "executing" /\ stage' = stage
    BY <1>1, ExecuteSteps
       DEF PluginAlone, hostVars, SystemInv, CallsInv, Tied, Way, Unlaunched, Checked
  <2>2. on[t] \in Loads /\ stage[on[t]] = "live"
    BY <2>1 DEF SystemInv, CallsInv, Tied, LoadsKept, Host!Calling
  <2>3. QED
    BY <2>1, <2>2
<1>2. ASSUME NEW t \in Threads, ShutDownPlugin(t) PROVE FALSE
  BY <1>2 DEF ShutDownPlugin, Shutdown
<1>3. ASSUME loaded,
             \A l \in Loads : stage[l] \in {"live", "shutting"} => stage'[l] \in {"live", "shutting"}
      PROVE  \E l \in Loads : stage'[l] \in {"live", "shutting"}
  BY <1>3 DEF SystemInv, RuntimeIsHeld
<1>4. ASSUME NEW t \in Threads,
             \/ \E l \in Loads : Load(t, l) \/ RegisterInto(t, l) \/ DropLibrary(t, l)
             \/ \E o \in Operators : DropFromRegistry(t, o)
      PROVE  \E l \in Loads : stage'[l] \in {"live", "shutting"}
  <2>1. loaded
    BY <1>4 DEF Load, RegisterInto, DropLibrary, DropFromRegistry, pluginVars
  <2>2. \A l \in Loads : stage[l] \in {"live", "shutting"} => stage'[l] \in {"live", "shutting"}
    BY <1>4, LoadingKeepsLoads, RegisteringKeepsLoads, DroppingKeepsLoads
       DEF SystemInv, RegisterInto, DropLibrary, DropFromRegistry, hostVars
  <2>3. QED
    BY <1>3, <2>1, <2>2
<1>5. CASE stage' = stage /\ loaded' = loaded
  BY <1>3, <1>5
<1>6. ASSUME NEW t \in Threads,
             \/ \E c \in Calls, l \in Loads : CallRegistry(t, l, c) \/ CallOperator(t, l, c)
             \/ Prepare(t) \/ EnterPlugin(t) \/ LeavePlugin(t)
      PROVE  stage' = stage /\ loaded' = loaded
  BY <1>6
     DEF CallRegistry, CallOperator, Prepare, EnterPlugin, LeavePlugin, pluginVars,
         Host!BeginCall, Host!Prepared, Host!Refused, Host!Execute, Host!ExecuteReturns,
         Host!perLoad, Enter, Return
<1>7. CASE Compute \/ (\E o \in DOMAIN Injected : RegisterInjected(o)) \/ UNCHANGED vars
  <2>1. stage' = stage /\ loaded' = loaded
    BY <1>7
       DEF Compute, DeviceWork, Finish, RegisterInjected, vars, hostVars, pluginVars
  <2>2. QED
    BY <1>5, <2>1
<1>8. QED
  BY <1>1, <1>2, <1>4, <1>5, <1>6, <1>7 DEF SystemNext

-----------------------------------------------------------------------------
(* The registry's lists *)

\* Every operator stands once, in the list of its kind.
Listed ==
  /\ registered \in [Operator!Kinds -> Seq(Operators)]
  /\ \A k \in Operator!Kinds : \A i \in DOMAIN registered[k] :
       /\ Offers[registered[k][i]].kind = k
       /\ \A j \in DOMAIN registered[k] : registered[k][i] = registered[k][j] => i = j

\* What is live or registered has passed the checks of its load.
Vetted ==
  \A l \in Loads : stage[l] = "live" \/ l \in Operator!InRegistry => Loadable(DescriptorOf[l])

LEMMA WhereRegistered ==
  ASSUME Listed, NEW o
  PROVE  o \in Operator!InRegistry <=>
           \E k \in Operator!Kinds : \E i \in DOMAIN registered[k] : registered[k][i] = o
BY DEF Operator!InRegistry, Operator!ToSet

LEMMA OperatorHasKind == ASSUME NEW o \in Operators PROVE Offers[o].kind \in Operator!Kinds
BY DEF Operator!Kinds

LEMMA AddKeepsLists ==
  ASSUME Listed, NEW o \in Operators, o \notin Operator!InRegistry, Operator!Add(o)
  PROVE  Listed' /\ Operator!InRegistry' = Operator!InRegistry \cup {o}
<1> DEFINE kind == Offers[o].kind
           list == registered[kind]
<1>1. kind \in Operator!Kinds /\ list \in Seq(Operators)
  BY OperatorHasKind DEF Listed
<1>2. registered' = [registered EXCEPT ![kind] = Append(list, o)]
  BY DEF Operator!Add
<1>3. /\ Append(list, o) \in Seq(Operators)
      /\ DOMAIN Append(list, o) = DOMAIN list \cup {Len(list) + 1}
      /\ Append(list, o)[Len(list) + 1] = o /\ Len(list) + 1 \notin DOMAIN list
      /\ \A i \in DOMAIN list : Append(list, o)[i] = list[i]
  BY <1>1
<1>4. \A i \in DOMAIN list :
        /\ list[i] # o /\ Offers[list[i]].kind = kind
        /\ \A j \in DOMAIN list : list[i] = list[j] => i = j
  BY <1>1, WhereRegistered DEF Listed
<1>listed. \A x : (\E i \in DOMAIN list : list[i] = x) => x \in Operator!InRegistry
  BY <1>1, WhereRegistered
<1> HIDE DEF list, kind
<1>5. registered' \in [Operator!Kinds -> Seq(Operators)]
  BY <1>1, <1>2, <1>3 DEF Listed
<1>6. ASSUME NEW k \in Operator!Kinds
      PROVE  registered'[k] = IF k = kind THEN Append(list, o) ELSE registered[k]
  BY <1>2 DEF Listed
<1>7. Listed'
  <2>1. ASSUME NEW k \in Operator!Kinds, NEW i \in DOMAIN registered'[k]
        PROVE  /\ Offers[registered'[k][i]].kind = k
               /\ \A j \in DOMAIN registered'[k] : registered'[k][i] = registered'[k][j] => i = j
    <3>1. CASE k = kind
      <4>1. registered'[k] = Append(list, o) /\ i \in DOMAIN list \cup {Len(list) + 1}
        BY <1>3, <1>6, <2>1, <3>1
      <4>2. Offers[o].kind = kind
        BY DEF kind
      <4>3. QED
        BY <1>3, <1>4, <3>1, <4>1, <4>2
    <3>2. CASE k # kind
      BY <1>6, <2>1, <3>2 DEF Listed
    <3>3. QED
      BY <3>1, <3>2
  <2>2. QED
    BY <1>5, <2>1 DEF Listed
<1>8. Operator!InRegistry' = Operator!InRegistry \cup {o}
  <2>1. ASSUME NEW x PROVE x \in Operator!InRegistry' <=> x \in Operator!InRegistry \/ x = o
    <3>1. x \in Operator!InRegistry' <=>
            \E k \in Operator!Kinds : \E i \in DOMAIN registered'[k] : registered'[k][i] = x
      BY <1>7 DEF Operator!InRegistry, Operator!ToSet
    <3>2. (\E i \in DOMAIN Append(list, o) : Append(list, o)[i] = x)
            <=> (\E i \in DOMAIN list : list[i] = x) \/ x = o
      BY <1>3
    <3>3. ASSUME x \in Operator!InRegistry, x # o PROVE x \in Operator!InRegistry'
      <4>1. PICK k \in Operator!Kinds : \E i \in DOMAIN registered[k] : registered[k][i] = x
        BY <3>3, WhereRegistered
      <4>2. \E i \in DOMAIN registered'[k] : registered'[k][i] = x
        BY <1>6, <3>2, <4>1 DEF list
      <4>3. QED
        BY <3>1, <4>1, <4>2
    <3>4. ASSUME x \in Operator!InRegistry', x # o PROVE x \in Operator!InRegistry
      <4>1. PICK k \in Operator!Kinds : \E i \in DOMAIN registered'[k] : registered'[k][i] = x
        BY <3>1, <3>4
      <4>2. (\E i \in DOMAIN registered[k] : registered[k][i] = x)
              \/ \E i \in DOMAIN list : list[i] = x
        BY <1>6, <3>2, <3>4, <4>1
      <4>3. QED
        BY <1>listed, <4>1, <4>2, WhereRegistered
    <3>5. o \in Operator!InRegistry'
      <4>1. \E i \in DOMAIN registered'[kind] : registered'[kind][i] = o
        BY <1>1, <1>3, <1>6
      <4>2. QED
        BY <1>1, <1>7, <4>1 DEF Operator!InRegistry, Operator!ToSet
    <3>6. QED
      BY <3>3, <3>4, <3>5
  <2>2. QED
    BY <2>1
<1>9. QED
  BY <1>7, <1>8

LEMMA ForgetKeepsLists ==
  ASSUME Listed, NEW o \in Operators, Operator!NextDropped(o), Operator!Forget(o)
  PROVE  Listed' /\ Operator!InRegistry' \subseteq Operator!InRegistry
<1> DEFINE kind == Offers[o].kind
           list == registered[kind]
<1>1. kind \in Operator!Kinds /\ list \in Seq(Operators) /\ list # << >>
  <2>1. PICK k \in Operator!Kinds : registered[k] # << >> /\ o = Head(registered[k])
    BY DEF Operator!NextDropped
  <2>2. 1 \in DOMAIN registered[k] /\ o = registered[k][1]
    BY <2>1 DEF Listed
  <2>3. QED
    BY <2>1, <2>2 DEF Listed
<1>2. registered' = [registered EXCEPT ![kind] = Tail(list)]
  BY DEF Operator!Forget
<1>3. /\ Tail(list) \in Seq(Operators)
      /\ \A i \in DOMAIN Tail(list) :
           i + 1 \in DOMAIN list /\ Tail(list)[i] = list[i + 1] /\ i \in Int
  BY <1>1
<1>entries. \A i \in DOMAIN list :
        /\ Offers[list[i]].kind = kind
        /\ \A j \in DOMAIN list : list[i] = list[j] => i = j
  BY <1>1 DEF Listed
<1>listed. \A x : (\E i \in DOMAIN list : list[i] = x) => x \in Operator!InRegistry
  BY <1>1, WhereRegistered
<1> HIDE DEF list, kind
<1>4. registered' \in [Operator!Kinds -> Seq(Operators)]
  BY <1>1, <1>2, <1>3 DEF Listed
<1>5. ASSUME NEW k \in Operator!Kinds
      PROVE  registered'[k] = IF k = kind THEN Tail(list) ELSE registered[k]
  BY <1>2 DEF Listed
<1>6. Listed'
  <2>1. ASSUME NEW k \in Operator!Kinds, NEW i \in DOMAIN registered'[k]
        PROVE  /\ Offers[registered'[k][i]].kind = k
               /\ \A j \in DOMAIN registered'[k] : registered'[k][i] = registered'[k][j] => i = j
    <3>1. CASE k = kind
      <4>1. registered'[k] = Tail(list) /\ i \in DOMAIN Tail(list)
        BY <1>5, <2>1, <3>1
      <4>2. QED
        BY <1>3, <1>entries, <3>1, <4>1
    <3>2. CASE k # kind
      BY <1>5, <2>1, <3>2 DEF Listed
    <3>3. QED
      BY <3>1, <3>2
  <2>2. QED
    BY <1>4, <2>1 DEF Listed
<1>7. ASSUME NEW x \in Operator!InRegistry' PROVE x \in Operator!InRegistry
  <2>1. PICK k \in Operator!Kinds : \E i \in DOMAIN registered'[k] : registered'[k][i] = x
    BY <1>7 DEF Operator!InRegistry, Operator!ToSet
  <2>2. (\E i \in DOMAIN registered[k] : registered[k][i] = x)
          \/ \E i \in DOMAIN list : list[i] = x
    BY <1>3, <1>5, <2>1
  <2>3. QED
    BY <1>listed, <2>1, <2>2, WhereRegistered
<1>8. QED
  BY <1>6, <1>7

LEMMA RegistryInitially == SystemInit => Listed /\ Vetted
<1> SUFFICES ASSUME SystemInit PROVE Listed /\ Vetted
  OBVIOUS
<1>1. registered = [k \in Operator!Kinds |-> << >>] /\ stage = [l \in Loads |-> "unused"]
  BY DEF SystemInit, Operator!RegistryInit, Host!Init
<1>2. Listed
  BY <1>1 DEF Listed
<1>3. \A o : o \notin Operator!InRegistry
  BY <1>1, <1>2, WhereRegistered
<1>4. QED
  BY <1>1, <1>2, <1>3 DEF Vetted

LEMMA RegistryKept == LoadsKept /\ Listed /\ Vetted /\ [SystemNext]_vars => Listed' /\ Vetted'
<1> SUFFICES ASSUME LoadsKept, Listed, Vetted, [SystemNext]_vars PROVE Listed' /\ Vetted'
  OBVIOUS
<1>1. ASSUME UNCHANGED registered, \A l \in Loads : stage'[l] = "live" => stage[l] = "live"
      PROVE  Listed' /\ Vetted'
  BY <1>1 DEF Listed, Vetted, Operator!InRegistry
<1>2. ASSUME NEW t \in Threads, NEW l \in Loads, Load(t, l) PROVE Listed' /\ Vetted'
  <2>1. UNCHANGED registered
    BY <1>2 DEF Load
  <2>2. \A k \in Loads \ {l} : stage'[k] = stage[k]
    BY <1>2
       DEF Load, Host!BeginLoad, Host!LoadFails, Host!LoadSucceeds, LoadsKept
  <2>3. stage'[l] = "live" => Loadable(DescriptorOf[l]) \/ stage[l] = "live"
    BY <1>2 DEF Load, Host!BeginLoad, Host!LoadFails, LoadsKept
  <2>4. QED
    BY <2>1, <2>2, <2>3 DEF Listed, Vetted, Operator!InRegistry
<1>3. ASSUME NEW t \in Threads, NEW l \in Loads, RegisterInto(t, l) PROVE Listed' /\ Vetted'
  <2>1. stage' = stage /\ stage[l] = "live"
    BY <1>3 DEF RegisterInto, Host!Register, LoadsKept
  <2>2. l \in Operators /\ Operator!Add(l) /\ l \notin Operator!InRegistry
    BY <1>3 DEF RegisterInto, Operators
  <2>3. QED
    BY <2>1, <2>2, AddKeepsLists DEF Vetted
<1>4. ASSUME NEW o \in DOMAIN Injected, RegisterInjected(o) PROVE Listed' /\ Vetted'
  <2>1. stage' = stage /\ o \notin Loads /\ o \in Operators
    BY <1>4, OperatorsDiffer DEF RegisterInjected, hostVars, Operators
  <2>2. Operator!Add(o) /\ o \notin Operator!InRegistry
    BY <1>4 DEF RegisterInjected
  <2>3. QED
    BY <2>1, <2>2, AddKeepsLists DEF Vetted
<1>5. ASSUME NEW t \in Threads, NEW l \in Loads, NEW r, Host!DropReference(t, l, r)
      PROVE  \A k \in Loads : stage'[k] = "live" => stage[k] = "live"
  BY <1>5
     DEF Host!DropReference, Host!Destroy, Host!CloseQuietly, Host!BeginShutdown,
         Host!DuringShutdown, LoadsKept
<1>6. ASSUME NEW t \in Threads, NEW o \in Operators, DropFromRegistry(t, o)
      PROVE  Listed' /\ Vetted'
  <2>1. \A k \in Loads : stage'[k] = "live" => stage[k] = "live"
    BY <1>5, <1>6 DEF DropFromRegistry, hostVars
  <2>2. Operator!NextDropped(o) /\ Operator!Forget(o)
    BY <1>6 DEF DropFromRegistry
  <2>3. QED
    BY <2>1, <2>2, ForgetKeepsLists DEF Vetted
<1>7. ASSUME NEW t \in Threads, NEW l \in Loads,
             \/ DropLibrary(t, l)
             \/ \E c \in Calls : CallRegistry(t, l, c) \/ CallOperator(t, l, c)
      PROVE  Listed' /\ Vetted'
  BY <1>1, <1>5, <1>7 DEF DropLibrary, CallRegistry, CallOperator, Host!BeginCall, Host!perLoad
<1>8. ASSUME NEW t \in Threads,
             Prepare(t) \/ EnterPlugin(t) \/ PluginAlone(t) \/ LeavePlugin(t)
      PROVE  Listed' /\ Vetted'
  BY <1>1, <1>8
     DEF Prepare, EnterPlugin, PluginAlone, LeavePlugin, Host!Prepared, Host!Refused,
         Host!Execute, Host!ExecuteReturns, Host!perLoad, hostVars
<1>9. ASSUME NEW t \in Threads, ShutDownPlugin(t) PROVE Listed' /\ Vetted'
  <2>1. stage' = [stage EXCEPT ![on[t]] = "closed"] /\ UNCHANGED registered
    BY <1>9 DEF ShutDownPlugin, Host!ShutdownReturns
  <2>2. QED
    BY <1>1, <2>1 DEF LoadsKept
<1>10. CASE Compute \/ UNCHANGED vars
  BY <1>1, <1>10 DEF Compute, hostVars, vars
<1>11. QED
  BY <1>2, <1>3, <1>4, <1>6, <1>7, <1>8, <1>9, <1>10 DEF SystemNext

-----------------------------------------------------------------------------
(* Selection *)

\* Iterator::find
LEMMA FirstOfThem ==
  ASSUME NEW S \in SUBSET Nat, S # {}, NEW candidates
  PROVE  \E i \in S : Operator!FirstAt(S, candidates) = candidates[i] /\ \A j \in S : i <= j
<1> DEFINE first == CHOOSE i \in S : \A j \in S : i <= j
<1>1. first \in S /\ \A j \in S : first <= j
  BY LeastNatural
<1>2. Operator!FirstAt(S, candidates) = candidates[first]
  BY DEF Operator!FirstAt
<1>3. QED
  BY <1>1, <1>2

\* The registry's test of one candidate, in sets.
LEMMA CompatibleServes ==
  ASSUME Listed, Vetted, NEW c \in Calls, NEW o \in Operator!InRegistry, o \in Operators
  PROVE  Operator!Compatible(o, c.request, c.invocation) <=> Serves(o, c.request, c.invocation)
<1> DEFINE i == c.invocation
           r == c.request
           offer == Offers[o]
           points == {i.waits[n] : n \in DOMAIN i.waits}
                       \cup {i.signals[n] : n \in DOMAIN i.signals}
<1>1. i \in Invocations
  BY CallsAreTyped
<1>2. Operator!ToSet(Operator!SyncPoints(i)) = points
  <2>1. /\ i.waits \in Seq(SyncPoints) /\ i.signals \in Seq(SyncPoints)
        /\ Operator!SyncPoints(i) = i.waits \o i.signals
    BY <1>1 DEF Invocations, Operator!SyncPoints
  <2>2. ASSUME NEW w \in Seq(SyncPoints), NEW s \in Seq(SyncPoints)
        PROVE  Operator!ToSet(w \o s) = {w[n] : n \in DOMAIN w} \cup {s[n] : n \in DOMAIN s}
    <3> DEFINE both == w \o s
               shift == Len(w)
    <3>1. \A n \in DOMAIN w : n \in DOMAIN both /\ both[n] = w[n]
      OBVIOUS
    <3>2. \A n \in DOMAIN s : shift + n \in DOMAIN both /\ both[shift + n] = s[n]
      OBVIOUS
    <3>3. \A n \in DOMAIN both :
            \/ n \in DOMAIN w /\ both[n] = w[n]
            \/ n - shift \in DOMAIN s /\ both[n] = s[n - shift]
      OBVIOUS
    <3> HIDE DEF both, shift
    <3>4. {both[n] : n \in DOMAIN both} = {w[n] : n \in DOMAIN w} \cup {s[n] : n \in DOMAIN s}
      BY <3>1, <3>2, <3>3
    <3>5. QED
      BY <3>4 DEF Operator!ToSet, both
  <2>3. QED
    BY <2>1, <2>2
<1>3. Operator!SyncPoints(i) # << >> <=> points # {}
  <2>1. i.waits \in Seq(SyncPoints) /\ i.signals \in Seq(SyncPoints)
    BY <1>1 DEF Invocations
  <2>2. i.waits \o i.signals # << >> <=> i.waits # << >> \/ i.signals # << >>
    BY <2>1
  <2>3. points # {} <=> DOMAIN i.waits # {} \/ DOMAIN i.signals # {}
    OBVIOUS
  <2>4. \A s \in Seq(SyncPoints) : s # << >> <=> DOMAIN s # {}
    OBVIOUS
  <2>5. QED
    BY <2>1, <2>2, <2>3, <2>4 DEF Operator!SyncPoints
<1>4. Operator!ToSet(i.resources) = {i.resources[n] : n \in DOMAIN i.resources}
  BY DEF Operator!ToSet
<1>5. offer.zeroCopy => TakesResources(o)
  <2> SUFFICES ASSUME offer.zeroCopy, o \in Loads PROVE TakesResources(o)
    BY DEF TakesResources
  <2> DEFINE d == DescriptorOf[o]
             info == d.operators[1]
  <2>1. Loadable(d)
    BY DEF Vetted
  <2>2. 1 \in DOMAIN d.operators
    BY OneOperatorEach
  <2>3. BitsAreCoherent(Bits(d, info), info)
    BY <2>1, <2>2 DEF Loadable, InfoIsValid
  <2>4. "PROVEN_ZERO_COPY" \in Bits(d, info)
    BY DEF Offers, CapabilitiesOf
  <2>5. QED
    BY <2>3, <2>4 DEF BitsAreCoherent, Bits, TakesResources
<1>6. Operator!Compatible(o, r, i) <=>
        /\ offer.kind = r.kind
        /\ r.memory # None => r.memory \in offer.memory
        /\ \A n \in DOMAIN i.resources : i.resources[n].kind \in offer.memory
        /\ r.sync \/ points # {} => offer.externalSync
        /\ \A p \in points : p.kind \in offer.sync
        /\ r.zeroCopy => offer.zeroCopy
  <2> HIDE DEF points
  <2>1. (\A x \in Operator!ToSet(i.resources) : x.kind \in offer.memory)
          <=> \A n \in DOMAIN i.resources : i.resources[n].kind \in offer.memory
    BY <1>4
  <2>2. QED
    BY <1>2, <1>3, <2>1, Zenon DEF Operator!Compatible
<1>7. Serves(o, r, i) <=>
        /\ offer.kind = r.kind
        /\ r.memory # None => r.memory \in offer.memory
        /\ \A n \in DOMAIN i.resources : i.resources[n].kind \in offer.memory
        /\ r.sync \/ points # {} => offer.externalSync
        /\ \A p \in points : p.kind \in offer.sync
        /\ r.zeroCopy => offer.zeroCopy
  BY <1>5 DEF Serves
<1>8. QED
  BY <1>6, <1>7

\* Positions in the list of the request's kind stand for the operators that serve it.
LEMMA DispatchedIsFirst ==
  ASSUME Listed, Vetted, NEW c \in Calls, Operator!InvocationIsValid(c.invocation)
  PROVE  LET serving == {o \in Operators : Serves(o, c.request, c.invocation)}
             favoured == {o \in serving : Offers[o].backend = c.request.preferred}
             chosen == Operator!Dispatched(c.request, c.invocation)
             eligible == IF favoured # {} THEN favoured ELSE serving
             list == registered[c.request.kind]
         IN IF serving = {} THEN chosen = None
            ELSE /\ chosen \in eligible
                 /\ \A o \in eligible :
                      (CHOOSE n \in DOMAIN list : list[n] = chosen)
                        <= (CHOOSE n \in DOMAIN list : list[n] = o)
<1> DEFINE serving == {o \in Operators : Serves(o, c.request, c.invocation)}
           favoured == {o \in serving : Offers[o].backend = c.request.preferred}
           chosen == Operator!Dispatched(c.request, c.invocation)
           eligible == IF favoured # {} THEN favoured ELSE serving
           list == registered[c.request.kind]
<1> DEFINE r == c.request
           candidates == IF r.kind \in Operator!Kinds THEN list ELSE << >>
           fitting == Operator!FittingAt(candidates, r, c.invocation)
           liked == fitting \cap Operator!FavouredAt(candidates, r)
           positions == IF liked # {} THEN liked ELSE fitting
<1>1. chosen = Operator!FirstAt(positions, candidates)
  BY DEF Operator!Dispatched, Operator!Select
<1>2. candidates \in Seq(Operators)
  BY DEF Listed
<1>3. \A n \in DOMAIN candidates :
        /\ candidates[n] \in Operators /\ candidates[n] \in Operator!InRegistry
        /\ Operator!Compatible(candidates[n], r, c.invocation) <=> candidates[n] \in serving
        /\ \A m \in DOMAIN candidates : candidates[n] = candidates[m] => n = m
  <2> SUFFICES ASSUME NEW n \in DOMAIN candidates
               PROVE  /\ candidates[n] \in Operators /\ candidates[n] \in Operator!InRegistry
                      /\ Operator!Compatible(candidates[n], r, c.invocation)
                           <=> candidates[n] \in serving
                      /\ \A m \in DOMAIN candidates : candidates[n] = candidates[m] => n = m
    OBVIOUS
  <2>1. r.kind \in Operator!Kinds /\ candidates = registered[r.kind]
    OBVIOUS
  <2>2. candidates[n] \in Operators /\ candidates[n] \in Operator!InRegistry
    BY <1>2, <2>1, WhereRegistered
  <2>3. \A m \in DOMAIN candidates : candidates[n] = candidates[m] => n = m
    BY <2>1 DEF Listed
  <2>4. QED
    BY <2>2, <2>3, CompatibleServes
<1>4. \A o \in serving : \E n \in DOMAIN candidates : candidates[n] = o
  <2> SUFFICES ASSUME NEW o \in serving PROVE \E n \in DOMAIN candidates : candidates[n] = o
    OBVIOUS
  <2>1. o \in Operator!InRegistry /\ Offers[o].kind = r.kind /\ o \in Operators
    BY DEF Serves
  <2>2. PICK k \in Operator!Kinds : \E n \in DOMAIN registered[k] : registered[k][n] = o
    BY <2>1, WhereRegistered
  <2>3. k = r.kind
    BY <2>1, <2>2 DEF Listed
  <2>4. QED
    BY <2>2, <2>3
<1>5. /\ fitting = {n \in DOMAIN candidates : candidates[n] \in serving}
      /\ liked = {n \in DOMAIN candidates : candidates[n] \in favoured}
  BY <1>3 DEF Operator!FittingAt, Operator!FavouredAt
<1>6. positions = {n \in DOMAIN candidates : candidates[n] \in eligible}
  BY <1>4, <1>5
<1>7. eligible \subseteq serving /\ (eligible = {} <=> serving = {})
  OBVIOUS
<1>8. positions \in SUBSET Nat /\ (positions = {} <=> serving = {})
  <2>1. DOMAIN candidates \subseteq Nat
    BY <1>2
  <2> HIDE DEF candidates, positions
  <2>2. positions = {} <=> eligible = {}
    <3>1. ASSUME NEW o \in eligible PROVE positions # {}
      BY <1>4, <1>6, <1>7, <3>1
    <3>2. ASSUME NEW n \in positions PROVE eligible # {}
      BY <1>6, <3>2
    <3>3. QED
      BY <3>1, <3>2
  <2>3. QED
    BY <1>6, <1>7, <2>1, <2>2
<1>9. \A n \in DOMAIN candidates : (CHOOSE m \in DOMAIN list : list[m] = candidates[n]) = n
  BY <1>3
<1> HIDE DEF candidates, positions
<1>10. serving = {} => chosen = None
  BY <1>1, <1>8 DEF Operator!FirstAt
<1>11. ASSUME serving # {}
       PROVE  /\ chosen \in eligible
              /\ \A o \in eligible :
                   (CHOOSE n \in DOMAIN list : list[n] = chosen)
                     <= (CHOOSE n \in DOMAIN list : list[n] = o)
  <2>1. PICK n \in positions : chosen = candidates[n] /\ \A m \in positions : n <= m
    BY <1>1, <1>8, <1>11, FirstOfThem
  <2>2. \A o \in eligible : \E m \in positions : candidates[m] = o
    BY <1>4, <1>6
  <2>3. chosen \in eligible /\ (CHOOSE m \in DOMAIN list : list[m] = chosen) = n
    BY <1>6, <1>9, <2>1
  <2>4. ASSUME NEW o \in eligible PROVE n <= (CHOOSE m \in DOMAIN list : list[m] = o)
    <3>1. PICK m \in positions : candidates[m] = o
      BY <2>2
    <3>2. (CHOOSE k \in DOMAIN list : list[k] = o) = m
      BY <1>6, <1>9, <3>1
    <3>3. QED
      BY <2>1, <3>1, <3>2
  <2>5. QED
    BY <2>3, <2>4
<1>12. QED
  BY <1>10, <1>11

-----------------------------------------------------------------------------
(* Theorems *)

\* Every reachable state satisfies the strengthening.
THEOREM Inductive == SystemSpec => []SystemInv
<1>1. SystemInit => SystemInv
  <2>1. SystemInit => Init
    BY DEF SystemInit
  <2>2. QED
    BY <2>1, CallsInitially, LoadsInitially, PluginInitially DEF SystemInv
<1>2. SystemInv /\ [SystemNext]_vars => SystemInv'
  BY CallsKept, LoadsStayKept, StepOfPlugin, PluginKept, RuntimeStaysHeld DEF SystemInv
<1>3. QED
  BY <1>1, <1>2, PTL DEF SystemSpec

\* The registry's lists, and what its operators were admitted for.
THEOREM RegistryInductive == SystemSpec => [](Listed /\ Vetted)
<1>1. SystemInv => LoadsKept
  BY DEF SystemInv
<1>2. QED
  BY <1>1, RegistryInitially, RegistryKept, Inductive, PTL DEF SystemSpec

\* Every reachable state satisfies the strengthening.
THEOREM PluginInductive == Spec => []PluginInv
BY PluginInitially, PluginKept, PTL DEF Spec

\* The types of RUNTIME_STATE and of the calls.
THEOREM PluginTypes == Spec => []TypeOK
<1>1. PluginInv => TypeOK
  BY DEF PluginInv
<1>2. QED
  BY <1>1, PluginInductive, PTL

\* lib.rs:313-331 and 527: a call that reports its GEMM has waited for the device the
\* GEMM ran on, whichever threads and devices the cached handles were made for.
THEOREM AnswersAreFinished == Spec => []AnswerMeansFinished
<1>1. PluginInv => AnswerMeansFinished
  <2> SUFFICES ASSUME PluginInv, ~unsynced, NEW t \in Threads,
                      reply[t] \in {"OK", "BUFFER_TOO_SMALL"},
                      NEW gemm \in running, gemm.caller = t
               PROVE  FALSE
    BY DEF AnswerMeansFinished
  <2>1. pc[t] = "answered"
    BY NoneIsNoValue DEF PluginInv, RepliesAreAnswers, Statuses, Verdicts
  <2>2. QED
    BY <2>1 DEF PluginInv, GemmsAreAwaited
<1>2. QED
  BY <1>1, PluginInductive, PTL

\* lib.rs:503-504: the regions stay mapped while a GEMM may use them.
THEOREM RegionsStayMapped == Spec => []RegionsOutliveTheGemm
<1>1. PluginInv => RegionsOutliveTheGemm
  BY DEF PluginInv, TypeOK, GemmsAreAwaited, RegionsByPlace, RegionsOutliveTheGemm
<1>2. QED
  BY <1>1, PluginInductive, PTL

\* handle_for_device, Drop for RuntimeState and shutdown leak no rocBLAS handle.
THEOREM NoHandleLeaks == Spec => []HandlesAccounted
<1>1. PluginInv => HandlesAccounted
  BY DEF PluginInv, HandlesOnTheirDevice, HandlesCounted, HandlesAccounted
<1>2. QED
  BY <1>1, PluginInductive, PTL

\* What the system does to RUNTIME_STATE is a behaviour of the plugin's module: what is
\* proved of HipSharedGemm holds behind the host and the registry.
THEOREM PluginBehindTheHost == SystemSpec => Spec
<1>1. SystemInit => Init
  BY DEF SystemInit
<1>2. SystemInv /\ [SystemNext]_vars => [Next]_pluginVars
  BY StepOfPlugin DEF SystemInv
<1>3. QED
  BY <1>1, <1>2, Inductive, PTL DEF SystemSpec, Spec

\* The comment above sgemm (lib.rs:503): whatever runs was well-formed, and nothing
\* well-formed is refused.
THEOREM OnlyWellFormedCallsRun == SystemSpec => []RunsExactlyWellFormedCalls
<1>1. SystemInv => RunsExactlyWellFormedCalls
  <2> SUFFICES ASSUME SystemInv, NEW t \in Threads
               PROVE  /\ pc[t] \in {"importing", "launching", "syncing"} =>
                           WellFormed(call[t].invocation)
                      /\ reply[t] \in {"INVALID_ARGUMENT", "UNSUPPORTED"} =>
                           ~WellFormed(call[t].invocation)
    BY DEF RunsExactlyWellFormedCalls
  <2>1. pc[t] # "out" => call[t].invocation \in Invocations
    BY DEF SystemInv, CallsInv, Tied, Host!Calling, AskedCalls
  <2>2. pc[t] \in Checked => Verdict(call[t].invocation) = "OK"
    BY DEF SystemInv, CallsInv, Tied
  <2>3. reply[t] \in Refusals => pc[t] # "out" /\ Verdict(call[t].invocation) # "OK"
    BY NoAnswerYet DEF SystemInv, CallsInv, Tied, Refusals
  <2>4. QED
    BY <2>1, <2>2, <2>3, VerdictIsRight DEF Checked, Refusals
<1>2. QED
  BY <1>1, Inductive, PTL

\* A refused call has not touched C, one that was answered OK has computed it once.
THEOREM AnswersTell == SystemSpec => []AnswerTellsWhetherRun
<1>1. SystemInv => AnswerTellsWhetherRun
  BY DEF SystemInv, CallsInv, Tied, AnswerTellsWhetherRun, Refusals
<1>2. QED
  BY <1>1, Inductive, PTL

\* Nothing of the runtime is left when the image is unloaded.
THEOREM NothingLeftBehind == SystemSpec => []RuntimeGoneWithImage
<1>1. SystemInv => RuntimeGoneWithImage
  <2> SUFFICES ASSUME SystemInv, \A l \in Loads : stage[l] \in {"unused", "closed", "failed"}
               PROVE  ~loaded /\ live = 0
    BY DEF RuntimeGoneWithImage
  <2>1. ~loaded
    BY DEF SystemInv, RuntimeIsHeld
  <2>2. Cached = {}
    BY <2>1 DEF SystemInv, PluginInv, HandlesOnTheirDevice
  <2>3. live = 0
    BY <2>2, NothingCached DEF SystemInv, PluginInv, HandlesCounted
  <2>4. QED
    BY <2>1, <2>3
<1>2. QED
  BY <1>1, Inductive, PTL

\* FirstCompatible's promise (vrb-operators lib.rs:93): the first registered operator that
\* serves the call, of the preferred backend if one does; zero copy is never taken on the
\* plugin's word alone.
THEOREM FirstFittingIsChosen == SystemSpec => []FirstFittingOperator
<1>1. Listed /\ Vetted => FirstFittingOperator
  BY DispatchedIsFirst, Zenon DEF FirstFittingOperator
<1>2. QED
  BY <1>1, RegistryInductive, PTL

=============================================================================
