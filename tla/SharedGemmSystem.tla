-------------------------- MODULE SharedGemmSystem --------------------------
(***************************************************************************)
(* A GEMM on shared resources, from the caller to the device: several      *)
(* loads of the HIP plugin's library, each with the host's callbacks mutex,*)
(* over the one static RUNTIME_STATE of the image; one registry of shared  *)
(* operators; and the control message and the regions that a call takes    *)
(* through the registry's selection, the host's checks and the plugin's.   *)
(*                                                                         *)
(* Every plugin has one operator, named like its load.  Its policy gives   *)
(* receipts that a Vec can hold.  Applications may register operators of   *)
(* their own, which answer at once and keep nothing.                       *)
(***************************************************************************)
EXTENDS SharedGemmProtocol, SharedPluginDescriptor, HipSharedGemm

CONSTANTS
  Loads, ImageOf, Library, Registry,   \* of the host
  DescriptorOf,  \* load -> the descriptor of its plugin
  Policy,        \* load -> [metadata, resources, syncs, room]: the policy's limits, and
                 \* whether its receipt has room for the plugin's
  Injected,      \* operator of the application -> what it offers
  Calls,         \* [request, invocation]: what callers ask for
  I32Max

\* Every plugin here has a shutdown callback, as the HIP plugin's descriptor does.
Silent == {}

\* What Rust's types and the C structures leave open.  Bound: callers name devices that
\* there are; to name another is to see hipSetDevice fail, which it may do anyway.
Controls == [m : 0 .. U64Max, n : 0 .. U64Max, k : 0 .. U64Max, device : Devices]
Messages ==
  [length : Nat, magic : STRING, version : Nat, header : Nat, resources : Nat,
   control : Controls]
MemoryRegions ==
  [kind : STRING, handle : Nat, allocation : 0 .. U64Max, offset : 0 .. U64Max,
   length : 0 .. U64Max, access : STRING]
SyncPoints == [kind : STRING, handle : Nat]
Invocations ==
  [metadata : Messages, resources : Seq(MemoryRegions), waits : Seq(SyncPoints),
   signals : Seq(SyncPoints)]

ASSUME CallsAreTyped == \A c \in Calls : c.invocation \in Invocations
ASSUME PoliciesAreTyped ==
  Policy \in [Loads -> [metadata : Nat, resources : Nat, syncs : Nat, room : BOOLEAN]]
ASSUME OneOperatorEach ==
  \A l \in Loads : DescriptorOf[l].operators = <<DescriptorOf[l].operators[1]>>
ASSUME WidthsAsInRust == I32Max \in Nat /\ F32Bytes * I32Max * I32Max <= U64Max
ASSUME HoldersDiffer == Library # Registry /\ {Library, Registry} \cap Threads = {}
ASSUME DevicesAreNumbered == Devices \subseteq Nat

VARIABLES
  stage, refs, owner, poisoned, shutdowns, at, on, via,
  registered,
  dropper,   \* the thread that is dropping the registry, or None
  call       \* thread -> [operator, invocation, launched] of its call of a plugin, or None

Operators == Loads \cup DOMAIN Injected

Offers ==
  [o \in Operators |->
     IF o \in Loads THEN CapabilitiesOf(DescriptorOf[o], DescriptorOf[o].operators[1])
     ELSE Injected[o]]

Host == INSTANCE SharedOperatorHost
Operator == INSTANCE SharedOperators

ASSUME NoneIsNoName ==
  None \notin Loads \cup {Library, Registry} /\ None \notin Controls /\ None \notin Seq(Nat)
ASSUME OperatorsDiffer == None \notin Operators /\ Loads \cap DOMAIN Injected = {}

hostVars == <<stage, refs, owner, poisoned, shutdowns, at, on, via>>
vars == <<hostVars, pluginVars, registered, dropper, call>>

SystemInit ==
  /\ Host!Init /\ Init /\ Operator!RegistryInit
  /\ dropper = None
  /\ call = [t \in Threads |-> None]

-----------------------------------------------------------------------------
(* The plugin's checks *)

\* validate_region
RegionAccepted(region, access, bytes) ==
  LET end == Plus(region.offset, region.length) IN
  /\ region.kind = "Win32Kmt" /\ region.access = access /\ region.handle # 0
  /\ region.length = bytes
  /\ region.allocation # 0 /\ end # None /\ end <= region.allocation

Accesses == <<"ReadOnly", "ReadOnly", "ReadWrite">>

RegionsAccepted(resources, c) ==
  /\ ExpectedLengths(c) # None
  /\ \A i \in 1 .. ResourceCount :
       RegionAccepted(resources[i], Accesses[i], ExpectedLengths(c)[i])

\* rocBLAS takes its dimensions as i32.
BeyondBlas(c) == \E n \in {c.m, c.n, c.k} : n > I32Max

\* execute_windows up to with_runtime
Verdict(invocation) ==
  LET c == DecodeControl(invocation.metadata) IN
  IF \/ c = None
     \/ Len(invocation.resources) # ResourceCount
     \/ invocation.waits # << >> \/ invocation.signals # << >>
     \/ ~RegionsAccepted(invocation.resources, c)
  THEN "INVALID_ARGUMENT"
  ELSE IF BeyondBlas(c) THEN "UNSUPPORTED" ELSE "OK"

\* The device counts only when the request passes.
PluginRequest(l, invocation) ==
  LET verdict == Verdict(invocation) IN
  [verdict |-> verdict, room |-> Policy[l].room,
   device |-> IF verdict = "OK" THEN invocation.metadata.control.device
              ELSE CHOOSE d \in Devices : TRUE]

-----------------------------------------------------------------------------
(* The registry *)

\* register needs it for itself: no call goes through it, and nobody is dropping it.
RegistryFree ==
  /\ dropper = None
  /\ \A t \in Threads : via[t] # Registry

\* register_into.  Bound: no operator is registered twice.
RegisterInto(t, l) ==
  /\ RegistryFree /\ l \notin Operator!InRegistry
  /\ Host!Register(t, l)
  /\ Operator!Add(l)
  /\ UNCHANGED <<pluginVars, dropper, call>>

RegisterInjected(o) ==
  /\ RegistryFree /\ o \notin Operator!InRegistry
  /\ Operator!Add(o)
  /\ UNCHANGED <<hostVars, pluginVars, dropper, call>>

\* The registry goes: its operators are dropped one by one, a plugin's with its shutdown.
DropFromRegistry(t, o) ==
  /\ dropper = t \/ RegistryFree
  /\ Operator!NextDropped(o) /\ Operator!Forget(o)
  /\ Host!Idle(t)
  /\ IF o \in Loads THEN Host!DropReference(t, o, Registry) ELSE UNCHANGED hostVars
  /\ dropper' = IF Operator!InRegistry' = {} THEN None ELSE t
  /\ UNCHANGED <<pluginVars, call>>

-----------------------------------------------------------------------------
(* What the host does outside the plugin *)

Load(t, l) ==
  /\ dropper # t
  /\ \/ Host!BeginLoad(t, l)
     \/ on[t] = l /\ Host!LoadFails(t)
     \/ on[t] = l /\ Loadable(DescriptorOf[l]) /\ Host!LoadSucceeds(t)
  /\ UNCHANGED <<pluginVars, registered, dropper, call>>

DropLibrary(t, l) ==
  /\ dropper # t
  /\ Host!DropReference(t, l, Library)
  /\ UNCHANGED <<pluginVars, registered, dropper, call>>

Asked(l, invocation) == [operator |-> l, invocation |-> invocation, launched |-> 0]

\* SharedOperatorRegistry::execute reaches a plugin's operator.
CallRegistry(t, l, c) ==
  /\ dropper = None
  /\ Host!BeginCall(t, l, Registry)
  /\ l = Operator!Dispatched(c.request, c.invocation)
  /\ call' = [call EXCEPT ![t] = Asked(l, c.invocation)]
  /\ UNCHANGED <<pluginVars, registered, dropper>>

\* execute_shared of one of the library's operators.
CallOperator(t, l, c) ==
  /\ dropper # t
  /\ Host!BeginCall(t, l, Library)
  /\ call' = [call EXCEPT ![t] = Asked(l, c.invocation)]
  /\ UNCHANGED <<pluginVars, registered, dropper>>

\* The checks at the head of execute_plugin.
HostAccepts(l, invocation) ==
  /\ Operator!InvocationIsValid(invocation)
  /\ invocation.metadata.length <= Policy[l].metadata
  /\ Len(invocation.resources) <= Policy[l].resources
  /\ Len(Operator!SyncPoints(invocation)) <= Policy[l].syncs

Prepare(t) ==
  /\ at[t] = "preparing"
  /\ IF HostAccepts(on[t], call[t].invocation)
     THEN Host!Prepared(t) /\ UNCHANGED call
     ELSE Host!Refused(t) /\ call' = [call EXCEPT ![t] = None]
  /\ UNCHANGED <<pluginVars, registered, dropper>>

-----------------------------------------------------------------------------
(* Inside the plugin *)

\* The callback is entered once the host has its mutex.
EnterPlugin(t) ==
  /\ Host!Execute(t)
  /\ Enter(t, PluginRequest(on[t], call[t].invocation))
  /\ UNCHANGED <<registered, dropper, call>>

PluginAlone(t) ==
  /\ InExecute(t)
  /\ call' = IF pc[t] = "launching" /\ pc'[t] = "syncing"
             THEN [call EXCEPT ![t].launched = @ + 1] ELSE call
  /\ UNCHANGED <<hostVars, registered, dropper>>

Compute ==
  /\ DeviceWork
  /\ UNCHANGED <<hostVars, registered, dropper, call>>

LeavePlugin(t) ==
  /\ Return(t) /\ Host!ExecuteReturns(t)
  /\ call' = [call EXCEPT ![t] = None]
  /\ UNCHANGED <<registered, dropper>>

\* Drop calls the plugin's shutdown.
ShutDownPlugin(t) ==
  /\ Shutdown(t) /\ Host!ShutdownReturns(t)
  /\ UNCHANGED <<registered, dropper, call>>

SystemNext ==
  \/ \E t \in Threads :
       \/ \E l \in Loads : Load(t, l) \/ RegisterInto(t, l) \/ DropLibrary(t, l)
       \/ \E o \in Operators : DropFromRegistry(t, o)
       \/ \E c \in Calls, l \in Loads : CallRegistry(t, l, c) \/ CallOperator(t, l, c)
       \/ Prepare(t)
       \/ EnterPlugin(t) \/ PluginAlone(t) \/ LeavePlugin(t) \/ ShutDownPlugin(t)
  \/ \E o \in DOMAIN Injected : RegisterInjected(o)
  \/ Compute

SystemSpec == SystemInit /\ [][SystemNext]_vars

-----------------------------------------------------------------------------
(* Properties *)

\* When the last load of the image is closed, RUNTIME_STATE is empty and every
\* rocBLAS handle destroyed: a static has no destructor, so what a call reloads
\* after some load's shutdown must be taken by the shutdown of a later one.
RuntimeGoneWithImage ==
  (\A l \in Loads : stage[l] \in {"unused", "closed", "failed"}) => ~loaded /\ live = 0

\* A GEMM that rocBLAS can run on these regions, by ordinary arithmetic: the dimensions are
\* positive i32s, and each region lies in its allocation and holds just its matrix.
WellFormed(invocation) ==
  LET message == invocation.metadata
      c == message.control
      elements == <<c.m * c.k, c.k * c.n, c.m * c.n>>
  IN /\ message.magic = Magic
     /\ message = Message(c) /\ c.device \in Devices
     /\ {c.m, c.n, c.k} \subseteq 1 .. I32Max
     /\ Len(invocation.resources) = 3 /\ invocation.waits \o invocation.signals = << >>
     /\ \A i \in 1 .. 3 :
          LET r == invocation.resources[i] IN
          /\ r.handle # 0 /\ r.kind = "Win32Kmt" /\ r.access = Accesses[i]
          /\ r.length = F32Bytes * elements[i]
          /\ r.offset + r.length <= r.allocation

\* The comment above sgemm (lib.rs:503): the mapped regions have exactly the lengths the
\* protocol demands.  The checks are spread over four crates (encode_control, the host's
\* validate, decode_control and execute_windows), all in checked arithmetic: together
\* they let a GEMM touch exactly the memory it was given.  A call that reaches the plugin and
\* is well-formed is not refused there; what the host refuses has no reply to look at.
RunsExactlyWellFormedCalls ==
  \A t \in Threads :
    /\ pc[t] \in {"importing", "launching", "syncing"} => WellFormed(call[t].invocation)
    /\ reply[t] \in {"INVALID_ARGUMENT", "UNSUPPORTED"} => ~WellFormed(call[t].invocation)

\* A caller may take a refused call elsewhere, as C is untouched, and must not repeat
\* one that was answered OK, or whose receipt did not fit, as C holds its result: with
\* beta # 0 a repetition would accumulate twice.
AnswerTellsWhetherRun ==
  \A t \in Threads :
    /\ reply[t] \in {"INVALID_ARGUMENT", "UNSUPPORTED", "UNAVAILABLE"} => call[t].launched = 0
    /\ reply[t] \in {"OK", "BUFFER_TOO_SMALL"} => call[t].launched = 1

\* The plugin says that operator o works on shared resources.
TakesResources(o) ==
  o \in Loads =>
    LET d == DescriptorOf[o] IN "EXTERNAL_RESOURCE" \in d.bits \cup d.operators[1].bits

\* What operator o must offer for a request and an invocation.
Serves(o, request, invocation) ==
  LET offer == Offers[o]
      points == {invocation.waits[i] : i \in DOMAIN invocation.waits}
                  \cup {invocation.signals[i] : i \in DOMAIN invocation.signals}
      memory == {invocation.resources[i].kind : i \in DOMAIN invocation.resources}
                  \cup (IF request.memory = None THEN {} ELSE {request.memory})
  IN /\ o \in Operator!InRegistry /\ offer.kind = request.kind
     /\ memory \subseteq offer.memory /\ {p.kind : p \in points} \subseteq offer.sync
     /\ (points # {} \/ request.sync) => offer.externalSync
     /\ request.zeroCopy => offer.zeroCopy /\ TakesResources(o)

\* FirstCompatible's promise (vrb-operators lib.rs:93): filter for compatibility, honour a
\* requested backend when available, and otherwise preserve registration order, whatever
\* was registered, dropped and registered again.  The invocation's own handle kinds and
\* synchronisation points count as much as what the request demands, and no operator is
\* taken for zero copy on the plugin's word alone.
FirstFittingOperator ==
  (\A t \in Threads : Host!Idle(t)) =>
  \A c \in Calls : Operator!InvocationIsValid(c.invocation) =>
    LET serving == {o \in Operators : Serves(o, c.request, c.invocation)}
        favoured == {o \in serving : Offers[o].backend = c.request.preferred}
        chosen == Operator!Dispatched(c.request, c.invocation)
        eligible == IF favoured # {} THEN favoured ELSE serving
        Position(o) == CHOOSE i \in DOMAIN registered[c.request.kind] :
                         registered[c.request.kind][i] = o
    IN IF serving = {} THEN chosen = None
       ELSE chosen \in eligible /\ \A o \in eligible : Position(chosen) <= Position(o)

=============================================================================
