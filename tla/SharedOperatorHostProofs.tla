---------------------- MODULE SharedOperatorHostProofs ----------------------
(***************************************************************************)
(* The safety of SharedOperatorHost, and of the host-byte plugins that     *)
(* live like its plugins, for any threads, loads and plugins.              *)
(*                                                                         *)
(* The argument: a call keeps the reference it goes through, a state is    *)
(* live exactly while it is referenced, and a mutex has an owner exactly   *)
(* while that thread runs execute or shutdown.  So Drop runs when no call  *)
(* is left.  No thread of SharedOperatorHost holds a mutex where it can    *)
(* panic; in a host-byte plugin one that panics was alone inside.          *)
(*                                                                         *)
(* The second part is about the oracles, which keep no state: arithmetic   *)
(* on row-major tensors, from what their checks let through, first for     *)
(* attention, then for GEMM, whose messages are encoded and decoded too.   *)
(***************************************************************************)
EXTENDS CpuReferences, SequenceTheorems, DataInduction

\* The strengthening: every conjunct is needed by a step of another.
BusyOnLoad ==
  \A t \in Threads : IF Idle(t) THEN on[t] = None ELSE on[t] \in Loads
CallsArePinned == \A t \in Threads : Calling(t) => via[t] \in refs[on[t]]
LiveIffReferenced == \A l \in Loads : stage[l] = "live" <=> refs[l] # {}
OwnerIsInside ==
  \A t \in Threads, l \in Loads :
    owner[l] = t <=> on[t] = l /\ at[t] \in {"executing", "shutting"}
QueryingIsLoading == \A t \in Threads : at[t] = "querying" => stage[on[t]] = "loading"
OneLoader ==
  \A t, u \in Threads :
    at[t] = "querying" /\ at[u] = "querying" /\ on[t] = on[u] => t = u
ShuttingIsShutting ==
  \A t \in Threads : at[t] = "shutting" => stage[on[t]] = "shutting" /\ on[t] \notin Silent
ShutdownsCounted ==
  \A l \in Loads :
    shutdowns[l] = IF stage[l] = "closed" /\ l \notin Silent /\ ~poisoned[l] THEN 1 ELSE 0

\* What every plugin host keeps.
Lifetimes ==
  /\ TypeOK
  /\ BusyOnLoad /\ CallsArePinned /\ LiveIffReferenced /\ OwnerIsInside
  /\ QueryingIsLoading /\ OneLoader /\ ShuttingIsShutting /\ PanicIsFinal /\ ShutdownsCounted

LEMMA InitEstablishes == Init => Lifetimes
BY HoldersDiffer
   DEF Init, Lifetimes, TypeOK, Stages, Activities, BusyOnLoad, CallsArePinned,
       LiveIffReferenced, OwnerIsInside, QueryingIsLoading, ShuttingIsShutting,
       OneLoader, PanicIsFinal, ShutdownsCounted, Idle, Calling

\* A load begins, fails, or comes up with the library value as its only holder.
LEMMA LoadingPreserves ==
  ASSUME Lifetimes, NEW t \in Threads,
         (\E l \in Loads : BeginLoad(t, l)) \/ LoadFails(t) \/ LoadSucceeds(t)
  PROVE  Lifetimes'
<1>1. ASSUME NEW l \in Loads, BeginLoad(t, l) PROVE Lifetimes'
  BY <1>1, HoldersDiffer
     DEF BeginLoad, Go, Lifetimes, TypeOK, Stages, Activities, BusyOnLoad, CallsArePinned,
         LiveIffReferenced, OwnerIsInside, QueryingIsLoading, ShuttingIsShutting,
         OneLoader, PanicIsFinal, ShutdownsCounted, Idle, Calling
<1>2. CASE LoadFails(t)
  <2>1. on[t] \in Loads /\ stage[on[t]] = "loading"
    BY <1>2 DEF LoadFails, Lifetimes, BusyOnLoad, Idle, QueryingIsLoading
  <2>2. QED
    BY <1>2, <2>1, HoldersDiffer
     DEF LoadFails, GoIdle, Go, Lifetimes, TypeOK, Stages, Activities, BusyOnLoad, CallsArePinned,
         LiveIffReferenced, OwnerIsInside, QueryingIsLoading, ShuttingIsShutting,
         OneLoader, PanicIsFinal, ShutdownsCounted, Idle, Calling
<1>3. CASE LoadSucceeds(t)
  <2>1. on[t] \in Loads /\ stage[on[t]] = "loading"
    BY <1>3 DEF LoadSucceeds, Lifetimes, BusyOnLoad, Idle, QueryingIsLoading
  <2>2. QED
    BY <1>3, <2>1, HoldersDiffer
     DEF LoadSucceeds, GoIdle, Go, Holders, Lifetimes, TypeOK, Stages, Activities, BusyOnLoad,
         CallsArePinned, LiveIffReferenced, OwnerIsInside, QueryingIsLoading,
         ShuttingIsShutting, OneLoader, PanicIsFinal, ShutdownsCounted, Idle, Calling
<1>4. QED
  BY <1>1, <1>2, <1>3

\* References are added to states that have some, and a reference that a call goes
\* through stays.
LEMMA ReferencesPreserve ==
  ASSUME Lifetimes, NEW t \in Threads, NEW l \in Loads,
         \/ Register(t, l) \/ CloneArc(t, l)
         \/ \E r \in Holders : DropReference(t, l, r)
  PROVE  Lifetimes'
<1>1. CASE Register(t, l) \/ CloneArc(t, l)
  BY <1>1, HoldersDiffer
     DEF Register, CloneArc, perThread, Holders, Lifetimes, TypeOK, Stages, Activities, BusyOnLoad,
         CallsArePinned, LiveIffReferenced, OwnerIsInside, QueryingIsLoading,
         ShuttingIsShutting, OneLoader, PanicIsFinal, ShutdownsCounted, Idle, Calling
<1>2. ASSUME NEW r \in Holders, DropReference(t, l, r) PROVE Lifetimes'
  <2>1. /\ Idle(t) /\ r \in refs[l] /\ ~Borrowed(l, r)
        /\ refs' = [refs EXCEPT ![l] = refs[l] \ {r}]
        /\ UNCHANGED <<poisoned, shutdowns>>
        /\ stage[l] = "live"
    BY <1>2 DEF DropReference, Reachable, Lifetimes, LiveIffReferenced
  <2>2. \A u \in Threads : Calling(u) /\ on[u] = l => via[u] \in refs[l] \ {r}
    BY <2>1 DEF Lifetimes, CallsArePinned, Borrowed
  <2>3. CASE refs[l] \ {r} # {}
    <3>1. UNCHANGED <<stage, owner, perThread>>
      BY <1>2, <2>3 DEF DropReference, LastDropped
    <3>2. QED
      BY <2>1, <2>2, <2>3, <3>1
         DEF perThread, Lifetimes, TypeOK, BusyOnLoad, CallsArePinned, LiveIffReferenced,
             OwnerIsInside, QueryingIsLoading, ShuttingIsShutting, PanicIsFinal,
             OneLoader, ShutdownsCounted, Idle, Calling
  <2>4. CASE refs[l] \ {r} = {}
    <3>1. Destroy(t, l)
      BY <1>2, <2>4 DEF DropReference, LastDropped
    <3>2. \A u \in Threads : Calling(u) => on[u] # l
      BY <2>2, <2>4
    <3>3. CASE l \in Silent \/ poisoned[l]
      BY <2>1, <2>4, <3>1, <3>2, <3>3
         DEF Destroy, CloseQuietly, perThread, Lifetimes, TypeOK, Stages, BusyOnLoad,
             CallsArePinned, LiveIffReferenced, OwnerIsInside, QueryingIsLoading,
             ShuttingIsShutting, OneLoader, PanicIsFinal, ShutdownsCounted, Idle, Calling
    <3>4. CASE ~(l \in Silent \/ poisoned[l])
      <4>1. BeginShutdown(t, l)
        BY <3>1, <3>4 DEF Destroy
      <4>2. \A u \in Threads : owner[l] # u
        BY <2>1, <3>2 DEF Lifetimes, OwnerIsInside, ShuttingIsShutting, Calling
      <4>3. QED
        BY <2>1, <2>4, <3>2, <3>4, <4>1, <4>2, HoldersDiffer
           DEF BeginShutdown, DuringShutdown, Go, Lifetimes, TypeOK, Stages, Activities,
               BusyOnLoad, CallsArePinned, LiveIffReferenced, OwnerIsInside,
               QueryingIsLoading, ShuttingIsShutting, OneLoader, PanicIsFinal,
               ShutdownsCounted, Idle, Calling
    <3>5. QED
      BY <3>3, <3>4
  <2>5. QED
    BY <2>3, <2>4
<1>3. QED
  BY <1>1, <1>2

\* The thread in shutdown is alone with the state it closes.
LEMMA ShutdownPreserves ==
  ASSUME Lifetimes, NEW t \in Threads, ShutdownReturns(t)
  PROVE  Lifetimes'
<1>1. /\ on[t] \in Loads /\ stage[on[t]] = "shutting" /\ on[t] \notin Silent
      /\ shutdowns[on[t]] = 0 /\ refs[on[t]] = {}
  BY DEF ShutdownReturns, Lifetimes, BusyOnLoad, Idle, ShuttingIsShutting, ShutdownsCounted,
         LiveIffReferenced
<1>2. \A u \in Threads : u # t => on[u] # on[t]
  <2> SUFFICES ASSUME NEW u \in Threads, u # t, on[u] = on[t] PROVE FALSE
    OBVIOUS
  <2>1. ~Idle(u)
    BY <1>1, HoldersDiffer DEF Lifetimes, BusyOnLoad
  <2>2. ~Calling(u)
    BY <1>1 DEF Lifetimes, CallsArePinned
  <2>3. at[u] # "querying"
    BY <1>1 DEF Lifetimes, QueryingIsLoading
  <2>4. at[u] # "shutting"
    <3>1. owner[on[t]] = t
      BY <1>1 DEF ShutdownReturns, Lifetimes, OwnerIsInside
    <3>2. QED
      BY <1>1, <3>1 DEF Lifetimes, OwnerIsInside
  <2>5. QED
    BY <2>1, <2>2, <2>3, <2>4 DEF Lifetimes, TypeOK, Activities, Idle, Calling
<1>3. QED
  BY <1>1, <1>2, HoldersDiffer
     DEF ShutdownReturns, Unlock, GoIdle, Go, Lifetimes, TypeOK, Stages, Activities, BusyOnLoad,
         CallsArePinned, LiveIffReferenced, OwnerIsInside, QueryingIsLoading,
         ShuttingIsShutting, OneLoader, PanicIsFinal, ShutdownsCounted, Idle, Calling

\* A call takes the mutex only for the callback, so a panic before it finds none held.
LEMMA CallsPreserve ==
  ASSUME Lifetimes, NEW t \in Threads,
         \/ \E l \in Loads, r \in Holders : BeginCall(t, l, r)
         \/ Refused(t) \/ ReceiptPanics(t) \/ Prepared(t)
         \/ Execute(t) \/ ExecuteReturns(t)
  PROVE  Lifetimes'
<1>1. ASSUME NEW l \in Loads, NEW r \in Holders, BeginCall(t, l, r) PROVE Lifetimes'
  BY <1>1, HoldersDiffer
     DEF BeginCall, Reachable, Go, perLoad, Lifetimes, TypeOK, Activities, BusyOnLoad,
         CallsArePinned, LiveIffReferenced, OwnerIsInside, QueryingIsLoading,
         ShuttingIsShutting, OneLoader, PanicIsFinal, ShutdownsCounted, Idle, Calling
<1>2. CASE Refused(t)
  BY <1>2, HoldersDiffer
     DEF Refused, GoIdle, Go, perLoad, Lifetimes, TypeOK, Activities, BusyOnLoad,
         CallsArePinned, LiveIffReferenced, OwnerIsInside, QueryingIsLoading,
         ShuttingIsShutting, OneLoader, PanicIsFinal, ShutdownsCounted, Idle, Calling
<1>3. CASE ReceiptPanics(t)
  <2>1. \A l \in Loads : owner[l] # t
    BY <1>3 DEF ReceiptPanics, Lifetimes, OwnerIsInside
  <2>2. poisoned' = poisoned /\ owner' = owner
    <3>1. owner' = owner
      BY <1>3, <2>1 DEF ReceiptPanics, Lifetimes, TypeOK
    <3>2. poisoned' = [l \in Loads |-> poisoned[l]]
      BY <1>3, <2>1, Zenon DEF ReceiptPanics, Lifetimes, TypeOK
    <3>3. QED
      BY <3>1, <3>2 DEF Lifetimes, TypeOK
  <2>3. QED
    BY <1>3, <2>2, HoldersDiffer
       DEF ReceiptPanics, GoIdle, Go, Lifetimes, TypeOK, Activities, BusyOnLoad,
           CallsArePinned, LiveIffReferenced, OwnerIsInside, QueryingIsLoading,
           ShuttingIsShutting, OneLoader, PanicIsFinal, ShutdownsCounted, Idle, Calling
<1>4. CASE Prepared(t)
  BY <1>4, HoldersDiffer
     DEF Prepared, Go, perLoad, Lifetimes, TypeOK, Activities, BusyOnLoad,
         CallsArePinned, LiveIffReferenced, OwnerIsInside, QueryingIsLoading,
         ShuttingIsShutting, OneLoader, PanicIsFinal, ShutdownsCounted, Idle, Calling
<1>5. CASE Execute(t)
  <2>1. at[t] = "waiting" /\ on[t] \in Loads /\ owner[on[t]] = None
    BY <1>5 DEF Execute, LockFree, Lifetimes, BusyOnLoad, Idle
  <2>2. CASE poisoned[on[t]]
    BY <1>5, <2>1, <2>2, HoldersDiffer
       DEF Execute, GoIdle, Go, Lifetimes, TypeOK, Activities, BusyOnLoad,
           CallsArePinned, LiveIffReferenced, OwnerIsInside, QueryingIsLoading,
           ShuttingIsShutting, OneLoader, PanicIsFinal, ShutdownsCounted, Idle, Calling
  <2>3. CASE ~poisoned[on[t]]
    BY <1>5, <2>1, <2>3, HoldersDiffer
       DEF Execute, Go, Lifetimes, TypeOK, Activities, BusyOnLoad,
           CallsArePinned, LiveIffReferenced, OwnerIsInside, QueryingIsLoading,
           ShuttingIsShutting, OneLoader, PanicIsFinal, ShutdownsCounted, Idle, Calling
  <2>4. QED
    BY <2>2, <2>3
<1>6. CASE ExecuteReturns(t)
  <2>1. at[t] = "executing" /\ on[t] \in Loads /\ owner[on[t]] = t
    BY <1>6 DEF ExecuteReturns, Lifetimes, BusyOnLoad, Idle, OwnerIsInside
  <2>2. QED
    BY <1>6, <2>1, HoldersDiffer
       DEF ExecuteReturns, Unlock, GoIdle, Go, Lifetimes, TypeOK, Activities, BusyOnLoad,
           CallsArePinned, LiveIffReferenced, OwnerIsInside, QueryingIsLoading,
           ShuttingIsShutting, OneLoader, PanicIsFinal, ShutdownsCounted, Idle, Calling
<1>7. QED
  BY <1>1, <1>2, <1>3, <1>4, <1>5, <1>6

LEMMA NextPreserves == Lifetimes /\ [Next]_vars => Lifetimes'
<1> SUFFICES ASSUME Lifetimes, [Next]_vars PROVE Lifetimes'
  OBVIOUS
<1>1. CASE UNCHANGED vars
  BY <1>1 DEF vars, perLoad, perThread, Lifetimes, TypeOK, BusyOnLoad, CallsArePinned,
              LiveIffReferenced, OwnerIsInside, QueryingIsLoading, ShuttingIsShutting,
              OneLoader, PanicIsFinal, ShutdownsCounted, Idle, Calling
<1>2. CASE Next
  BY <1>2, LoadingPreserves, ReferencesPreserve, ShutdownPreserves, CallsPreserve DEF Next
<1>3. QED
  BY <1>1, <1>2

\* What no call of SharedOperatorHost does.
NeverPoisoned == \A l \in Loads : poisoned[l] = FALSE

LEMMA NoPanicInside == Lifetimes /\ NeverPoisoned /\ [Next]_vars => NeverPoisoned'
<1> SUFFICES ASSUME Lifetimes, NeverPoisoned, [Next]_vars PROVE NeverPoisoned'
  OBVIOUS
<1>1. CASE \E t \in Threads : ReceiptPanics(t)
  <2> PICK t \in Threads : ReceiptPanics(t)
    BY <1>1
  <2>1. \A l \in Loads : owner[l] # t
    BY DEF ReceiptPanics, Lifetimes, OwnerIsInside
  <2>2. QED
    BY <2>1 DEF ReceiptPanics, NeverPoisoned
<1>2. CASE UNCHANGED poisoned
  BY <1>2 DEF NeverPoisoned
<1>3. ASSUME NEW t \in Threads,
             \/ \E l \in Loads : BeginLoad(t, l) \/ Register(t, l) \/ CloneArc(t, l)
             \/ LoadFails(t) \/ LoadSucceeds(t)
      PROVE  UNCHANGED poisoned
  BY <1>3 DEF BeginLoad, LoadFails, LoadSucceeds, Register, CloneArc
<1>4. ASSUME NEW t \in Threads,
             \/ \E l \in Loads, r \in Holders : DropReference(t, l, r) \/ BeginCall(t, l, r)
             \/ ShutdownReturns(t)
      PROVE  UNCHANGED poisoned
  BY <1>4 DEF DropReference, BeginCall, ShutdownReturns, perLoad
<1>5. ASSUME NEW t \in Threads,
             Refused(t) \/ Prepared(t) \/ Execute(t) \/ ExecuteReturns(t)
      PROVE  UNCHANGED poisoned
  BY <1>5 DEF Refused, Prepared, Execute, ExecuteReturns, perLoad
<1>6. CASE UNCHANGED vars
  BY <1>2, <1>6 DEF vars, perLoad
<1>7. CASE Next
  BY <1>1, <1>2, <1>3, <1>4, <1>5, <1>7 DEF Next
<1>8. QED
  BY <1>6, <1>7

\* Every reachable state satisfies the strengthening.
THEOREM Inductive == Spec => []Lifetimes
BY InitEstablishes, NextPreserves, PTL DEF Spec

\* The types of the plugin states and of the threads.
THEOREM TypeCorrect == Spec => []TypeOK
<1>1. Lifetimes => TypeOK
  BY DEF Lifetimes
<1>2. QED
  BY <1>1, Inductive, PTL

\* ARCHITECTURE.md, "keep the dynamic library loaded until the optional shutdown
\* callback completes": no callback runs in an unloaded library.
THEOREM NoCallbackAfterUnload == Spec => []CodeStaysLoaded
<1>1. Lifetimes => CodeStaysLoaded
  <2> SUFFICES ASSUME Lifetimes, NEW t \in Threads, NEW l \in Loads, Inside(t, l)
               PROVE  stage[l] \in {"loading", "live", "shutting"}
    BY DEF CodeStaysLoaded
  <2>1. CASE at[t] = "executing"
    BY <2>1 DEF Inside, Lifetimes, CallsArePinned, LiveIffReferenced, Calling
  <2>2. CASE at[t] \in {"querying", "shutting"}
    BY <2>2 DEF Inside, Lifetimes, QueryingIsLoading, ShuttingIsShutting
  <2>3. QED
    BY <2>1, <2>2 DEF Inside
<1>2. QED
  BY <1>1, Inductive, PTL

\* execute and shutdown of one load never overlap (lib.rs:271-280 and Drop).
THEOREM OneCallbackAtATime == Spec => []CallbacksSerialized
<1>1. Lifetimes => CallbacksSerialized
  BY HoldersDiffer DEF Lifetimes, OwnerIsInside, CallbacksSerialized
<1>2. QED
  BY <1>1, Inductive, PTL

\* Every load that came up is shut down exactly once before it is unloaded, even if
\* calls panicked: the mutex is never poisoned.
THEOREM ShutdownRunsOnce == Spec => []ShutDownExactlyOnce
<1>1. Lifetimes /\ NeverPoisoned => ShutDownExactlyOnce
  BY SilentLoads DEF Lifetimes, NeverPoisoned, ShutdownsCounted, ShutDownExactlyOnce
<1>2. Init => NeverPoisoned
  BY DEF Init, NeverPoisoned
<1>3. QED
  BY <1>1, <1>2, NoPanicInside, Inductive, PTL DEF Spec

\* No call of a load is in progress once its shutdown has begun.
THEOREM NothingAfterShutdown == Spec => []ShutdownIsLast
<1>1. Lifetimes => ShutdownIsLast
  <2> SUFFICES ASSUME Lifetimes, NEW l \in Loads, stage[l] \in {"shutting", "closed"},
                      NEW t \in Threads, on[t] = l
               PROVE  at[t] = "shutting"
    BY DEF ShutdownIsLast
  <2>1. ~Idle(t)
    BY HoldersDiffer DEF Lifetimes, BusyOnLoad
  <2>2. ~Calling(t)
    BY DEF Lifetimes, CallsArePinned, LiveIffReferenced
  <2>3. at[t] # "querying"
    BY DEF Lifetimes, QueryingIsLoading
  <2>4. QED
    BY <2>1, <2>2, <2>3 DEF Lifetimes, TypeOK, Activities, Idle, Calling
<1>2. QED
  BY <1>1, Inductive, PTL

-----------------------------------------------------------------------------
(* Host-byte plugins *)

Phases == {"size", "allocate", "execute"}

PhasesByPlugin ==
  \A t \in Threads : at[t] = "executing" =>
    phase[t] \in Phases /\ (on[t] \in BackendPlugins => phase[t] = "execute")

\* No other load of thread t's library.
Alone(t) == \A l \in Loads : ImageOf[l] = ImageOf[on[t]] => l = on[t]

\* From the answer of output_size to the end of execute.
SizedForMemory ==
  \A t \in Threads :
    /\ InPhase(t, "allocate") \/ InPhase(t, "execute")
    /\ on[t] \notin BackendPlugins /\ Alone(t)
    => sizedFor[t] = Memory(t)

BackendsNeverPanic == \A l \in BackendPlugins : poisoned[l] = FALSE

\* What the critical section of a call keeps besides.
Section ==
  /\ phase \in [Threads -> Phases \cup {None}]
  /\ memory \in [Images -> 0 .. 1]
  /\ sizedFor \in [Threads -> {0, 1, None}]
  /\ PhasesByPlugin /\ SizedForMemory

HostInv == Lifetimes /\ Section /\ BackendsNeverPanic

LEMMA HostInitEstablishes == HostInit => HostInv
<1> SUFFICES ASSUME HostInit PROVE HostInv
  OBVIOUS
<1>1. Lifetimes
  BY InitEstablishes DEF HostInit
<1>2. Section
  BY DEF HostInit, Init, Section, PhasesByPlugin, SizedForMemory, InPhase
<1>3. BackendsNeverPanic
  BY BackendsAreLoads DEF HostInit, Init, BackendsNeverPanic
<1>4. QED
  BY <1>1, <1>2, <1>3 DEF HostInv

\* Outside the critical sections nothing in them changes.
LEMMA OutsideKeepsSection ==
  ASSUME Section, Outside,
         \A t \in Threads : at'[t] = "executing" => at[t] = "executing" /\ on'[t] = on[t]
  PROVE  Section'
BY DEF Outside, Section, PhasesByPlugin, SizedForMemory, InPhase, Alone, Memory

\* Loads, references, drops and waiting calls.
LEMMA OutsidePreserves ==
  ASSUME HostInv, NEW t \in Threads, NEW l \in Loads,
         \/ LoadOperators(t, l) \/ LoadBackend(t, l)
         \/ Share(t, l) \/ Release(t, l)
         \/ \E r \in Holders : Call(t, l, r)
  PROVE  HostInv'
<1>1. Lifetimes /\ Section /\ BackendsNeverPanic
  BY DEF HostInv
<1>2. Lifetimes'
  <2>1. CASE LoadOperators(t, l) \/ LoadBackend(t, l)
    BY <1>1, <2>1, LoadingPreserves DEF LoadOperators, LoadBackend
  <2>2. CASE Share(t, l)
    BY <1>1, <2>2, ReferencesPreserve DEF Share
  <2>3. CASE Release(t, l)
    BY <1>1, <2>3, ReferencesPreserve, ShutdownPreserves DEF Release
  <2>4. ASSUME NEW r \in Holders, Call(t, l, r) PROVE Lifetimes'
    BY <1>1, <2>4, HoldersDiffer
       DEF Call, Reachable, Go, perLoad, Lifetimes, TypeOK, Activities, BusyOnLoad,
           CallsArePinned, LiveIffReferenced, OwnerIsInside, QueryingIsLoading,
           ShuttingIsShutting, OneLoader, PanicIsFinal, ShutdownsCounted, Idle, Calling
  <2>5. QED
    BY <2>1, <2>2, <2>3, <2>4
<1>3. Outside /\ UNCHANGED poisoned
  BY DEF LoadOperators, LoadBackend, Share, Release, Call, perLoad, BeginLoad, LoadFails,
         LoadSucceeds, Register, CloneArc, DropReference, ShutdownReturns
<1>4. \A u \in Threads : at'[u] = "executing" => at[u] = "executing" /\ on'[u] = on[u]
  <2>1. CASE UNCHANGED perThread
    BY <2>1 DEF perThread
  <2>2. CASE \E what \in Activities \ {"executing"}, k \in Loads \cup {None},
                  r \in Holders \cup {None} : Go(t, what, k, r)
    BY <1>1, <2>2 DEF Go, Lifetimes, TypeOK
  <2>3. QED
    BY <2>1, <2>2
       DEF LoadOperators, LoadBackend, Share, Release, Call, BeginLoad, LoadFails, Activities,
           LoadSucceeds, Register, CloneArc, DropReference, Destroy, CloseQuietly, BeginShutdown,
           ShutdownReturns, GoIdle
<1>5. QED
  BY <1>1, <1>2, <1>3, <1>4, OutsideKeepsSection DEF HostInv, BackendsNeverPanic

\* A call takes the mutex, and is an error if it is poisoned.
LEMMA EnterPreserves ==
  ASSUME HostInv, NEW t \in Threads, Enter(t)
  PROVE  HostInv'
<1>1. Lifetimes' /\ UNCHANGED poisoned
  BY CallsPreserve DEF HostInv, Enter, EnterUnlessPoisoned, Execute
<1>2. at[t] = "waiting"
  BY DEF Enter, EnterUnlessPoisoned, Execute
<1>3. \A u \in Threads \ {t} : at'[u] = at[u] /\ on'[u] = on[u] /\ phase'[u] = phase[u]
  BY DEF Enter, EnterUnlessPoisoned, Execute, GoIdle, Go, Move, HostInv, Lifetimes, TypeOK, Section
<1>4. /\ at'[t] \in {"idle", "executing"}
      /\ at'[t] = "executing" =>
           /\ on'[t] = on[t]
           /\ phase'[t] = IF on[t] \in BackendPlugins THEN "execute" ELSE "size"
  BY DEF Enter, EnterUnlessPoisoned, Execute, GoIdle, Go, Move, HostInv, Lifetimes, TypeOK, Section
<1>5. phase' \in [Threads -> Phases \cup {None}]
  BY DEF Enter, Move, HostInv, Section, Phases
<1>6. Section'
  BY <1>3, <1>4, <1>5
     DEF Enter, HostInv, Section, PhasesByPlugin, Phases, SizedForMemory, InPhase, Alone, Memory
<1>7. QED
  BY <1>1, <1>6 DEF HostInv, BackendsNeverPanic

\* Only the thread inside a load's section is inside.
LEMMA AloneInside ==
  ASSUME Lifetimes, NEW t \in Threads, at[t] = "executing",
         NEW u \in Threads \ {t}, at[u] = "executing"
  PROVE  on[t] \in Loads /\ on[u] \in Loads /\ on[u] # on[t]
BY HoldersDiffer DEF Lifetimes, BusyOnLoad, OwnerIsInside, Idle

\* The callbacks and the allocation between them.
LEMMA SectionPreserves ==
  ASSUME HostInv, NEW t \in Threads,
         \/ SizeRefused(t) \/ SizeAnswered(t) \/ OutputAllocated(t) \/ CallReturns(t)
  PROVE  HostInv'
<1>1. at[t] = "executing" /\ on[t] \in Loads /\ Lifetimes /\ Section
  BY HoldersDiffer
     DEF SizeRefused, SizeAnswered, OutputAllocated, CallReturns, InPhase, HostInv, Lifetimes,
         BusyOnLoad, Idle
<1>2. UNCHANGED poisoned
  BY DEF SizeRefused, SizeAnswered, OutputAllocated, CallReturns, ExecuteReturns, vars, perLoad
<1>3. CASE SizeAnswered(t) \/ OutputAllocated(t)
  <2>1. UNCHANGED vars /\ UNCHANGED memory
    BY <1>3 DEF SizeAnswered, GuardKept, OutputAllocated, vars, perLoad, perThread
  <2>2. Lifetimes'
    BY <1>1, <2>1, NextPreserves
  <2>3. Section'
    <3>1. CASE SizeAnswered(t)
      BY <1>1, <2>1, <3>1
         DEF SizeAnswered, Move, InPhase, Memory, Images, vars, perThread, Section,
             PhasesByPlugin, Phases, SizedForMemory, Alone
    <3>2. CASE OutputAllocated(t)
      BY <1>1, <2>1, <3>2
         DEF OutputAllocated, Move, InPhase, Memory, vars, perThread, Section,
             PhasesByPlugin, Phases, SizedForMemory, Alone
    <3>3. QED
      BY <1>3, <3>1, <3>2
  <2>4. QED
    BY <1>2, <2>2, <2>3 DEF HostInv, BackendsNeverPanic
<1>4. CASE SizeRefused(t) \/ CallReturns(t)
  <2>1. ExecuteReturns(t) /\ Move(t, None)
    BY <1>4 DEF SizeRefused, CallReturns
  <2>2. Lifetimes'
    BY <1>1, <2>1, CallsPreserve
  <2>3. /\ at'[t] # "executing"
        /\ \A u \in Threads \ {t} : at'[u] = at[u] /\ on'[u] = on[u] /\ phase'[u] = phase[u]
        /\ phase' \in [Threads -> Phases \cup {None}]
    BY <1>1, <2>1 DEF ExecuteReturns, GoIdle, Go, Move, Lifetimes, TypeOK, Section
  <2>4. /\ sizedFor' \in [Threads -> {0, 1, None}]
        /\ \A u \in Threads \ {t} : sizedFor'[u] = sizedFor[u]
        /\ memory' \in [Images -> 0 .. 1]
        /\ \A i \in Images \ {ImageOf[on[t]]} : memory'[i] = memory[i]
    BY <1>1, <1>4 DEF SizeRefused, CallReturns, Section
  <2>5. \A u \in Threads \ {t} : at[u] = "executing" /\ Alone(u) => ImageOf[on[u]] # ImageOf[on[t]]
    BY <1>1, AloneInside DEF Alone
  <2>6. Section'
    <3>1. PhasesByPlugin'
      BY <1>1, <2>3 DEF Section, PhasesByPlugin
    <3>2. SizedForMemory'
      <4> SUFFICES ASSUME NEW u \in Threads, (InPhase(u, "allocate") \/ InPhase(u, "execute"))',
                          on'[u] \notin BackendPlugins, Alone(u)'
                   PROVE  sizedFor'[u] = memory'[ImageOf[on'[u]]]
        BY DEF SizedForMemory, Memory
      <4>1. u # t /\ at[u] = "executing" /\ on'[u] = on[u]
        BY <2>3 DEF InPhase
      <4>2. on[u] \in Loads /\ Alone(u)
        BY <1>1, <4>1, AloneInside DEF Alone
      <4>3. sizedFor[u] = memory[ImageOf[on[u]]]
        BY <1>1, <2>3, <4>1, <4>2 DEF InPhase, Section, SizedForMemory, Memory
      <4>4. ImageOf[on[u]] \in Images \ {ImageOf[on[t]]}
        BY <2>5, <4>1, <4>2 DEF Images
      <4>5. QED
        BY <2>4, <4>1, <4>3, <4>4
    <3>3. QED
      BY <2>3, <2>4, <3>1, <3>2 DEF Section
  <2>7. QED
    BY <1>2, <2>2, <2>6 DEF HostInv, BackendsNeverPanic
<1>5. QED
  BY <1>3, <1>4

\* The panic of vec! poisons the mutex of the operator library it happens in, whose only
\* call inside is the one that panics.
LEMMA PanicPreserves ==
  ASSUME HostInv, NEW t \in Threads, OutputPanics(t)
  PROVE  HostInv'
<1>1. at[t] = "executing" /\ on[t] \in Loads /\ owner[on[t]] = t
  BY HoldersDiffer DEF OutputPanics, InPhase, HostInv, Lifetimes, BusyOnLoad, OwnerIsInside, Idle
<1>2. on[t] \notin BackendPlugins
  BY <1>1 DEF OutputPanics, InPhase, HostInv, Section, PhasesByPlugin
<1>3. stage[on[t]] = "live"
  BY <1>1 DEF HostInv, Lifetimes, CallsArePinned, LiveIffReferenced, Calling
<1>4. Lifetimes'
  BY <1>1, <1>3, HoldersDiffer
     DEF OutputPanics, Unlock, GoIdle, Go, HostInv, Lifetimes, TypeOK, Activities, BusyOnLoad,
         CallsArePinned, LiveIffReferenced, OwnerIsInside, QueryingIsLoading,
         ShuttingIsShutting, OneLoader, PanicIsFinal, ShutdownsCounted, Idle, Calling
<1>5. Section'
  BY <1>1
     DEF OutputPanics, GoIdle, Go, Move, HostInv, Lifetimes, TypeOK, Section, PhasesByPlugin,
         SizedForMemory, InPhase, Alone, Memory
<1>6. BackendsNeverPanic'
  BY <1>2, BackendsAreLoads DEF OutputPanics, HostInv, Lifetimes, TypeOK, BackendsNeverPanic
<1>7. QED
  BY <1>4, <1>5, <1>6 DEF HostInv

\* Questions to the oracles leave the plugins alone.
LEMMA HostNextPreserves == HostInv /\ [SystemNext]_allVars => HostInv'
<1> SUFFICES ASSUME HostInv, [SystemNext]_allVars PROVE HostInv'
  OBVIOUS
<1>1. CASE HostNext
  BY <1>1, OutsidePreserves, EnterPreserves, SectionPreserves, PanicPreserves DEF HostNext
<1>2. CASE UNCHANGED hostVars
  <2>1. UNCHANGED vars
    BY <1>2 DEF hostVars
  <2>2. Lifetimes'
    BY <2>1, NextPreserves DEF HostInv
  <2>3. QED
    BY <1>2, <2>1, <2>2
       DEF hostVars, vars, perLoad, perThread, HostInv, Section, PhasesByPlugin, SizedForMemory,
           InPhase, Alone, Memory, BackendsNeverPanic
<1>3. QED
  BY <1>1, <1>2 DEF SystemNext, AskGemm, AskAttention, Forget, allVars

\* Every reachable state satisfies the strengthening.
THEOREM HostInductive == SystemSpec => []HostInv
<1>1. SystemInit => HostInv
  BY HostInitEstablishes DEF SystemInit
<1>2. QED
  BY <1>1, HostNextPreserves, PTL DEF SystemSpec

\* vrb-operator-loader lib.rs:171: output_size and execute see one state of a plugin
\* whose library is loaded once.
THEOREM SizesAreCurrent == SystemSpec => []SizeIsCurrent
<1>1. HostInv => SizeIsCurrent
  BY DEF HostInv, Section, SizedForMemory, Alone, SizeIsCurrent
<1>2. QED
  BY <1>1, HostInductive, PTL

\* Nothing runs in a plugin once its mutex is poisoned.
THEOREM PanicsAreFinal == SystemSpec => []PanicIsFinal
<1>1. HostInv => PanicIsFinal
  BY DEF HostInv, Lifetimes
<1>2. QED
  BY <1>1, HostInductive, PTL

\* shutdown is lost only to a panic between the two callbacks of an operator library.
THEOREM ShutdownLostToPanics == SystemSpec => []OnlyPanicsSkipShutdown
<1>1. HostInv => OnlyPanicsSkipShutdown
  BY SilentLoads DEF HostInv, Lifetimes, ShutdownsCounted, BackendsNeverPanic, OnlyPanicsSkipShutdown
<1>2. QED
  BY <1>1, HostInductive, PTL

-----------------------------------------------------------------------------
(* Attention: places in row-major tensors *)

LEMMA RowIsInside ==
  ASSUME NEW rows \in Nat, NEW columns \in Nat,
         NEW row \in 0 .. rows - 1, NEW column \in 0 .. columns - 1
  PROVE  row * columns + column \in 0 .. rows * columns - 1
<1>1. (row + 1) * columns <= rows * columns
  OBVIOUS
<1>2. (row + 1) * columns = row * columns + columns
  OBVIOUS
<1>3. row * columns \in Nat /\ rows * columns \in Nat
  OBVIOUS
<1>4. QED
  BY <1>1, <1>2, <1>3

LEMMA RowOfPlace ==
  ASSUME NEW rows \in Nat, NEW columns \in Nat, NEW i \in 0 .. rows * columns - 1
  PROVE  \E row \in 0 .. rows - 1, column \in 0 .. columns - 1 : i = row * columns + column
<1>1. columns # 0 /\ rows # 0
  OBVIOUS
<1>2. PICK row, column : row = i \div columns /\ column = i % columns
  OBVIOUS
<1>3. i = columns * row + column /\ column \in 0 .. columns - 1 /\ row \in Nat
  BY <1>1, <1>2
<1>4. row < rows
  <2>1. SUFFICES ASSUME rows <= row PROVE FALSE
    BY <1>3
  <2>2. rows * columns <= row * columns
    BY <1>3, <2>1
  <2>3. QED
    BY <1>3, <2>2
<1>5. QED
  BY <1>3, <1>4

\* A dimension of d elements each.
LEMMA VectorIsInside ==
  ASSUME NEW n \in Nat, NEW d \in Nat, NEW row \in 0 .. n - 1
  PROVE  row * d + d <= n * d
<1>1. (row + 1) * d <= n * d
  OBVIOUS
<1>2. QED
  BY <1>1

\* RowOf numbers the vectors of a tensor.
LEMMA RowFits ==
  ASSUME NEW batches \in Nat, NEW heads \in Nat, NEW len \in Nat,
         NEW b \in 0 .. batches - 1, NEW h \in 0 .. heads - 1, NEW p \in 0 .. len - 1
  PROVE  RowOf(b, heads, h, len, p) \in 0 .. batches * heads * len - 1
<1>1. b * heads + h \in 0 .. batches * heads - 1
  BY RowIsInside
<1>2. batches * heads \in Nat
  OBVIOUS
<1>3. (b * heads + h) * len + p \in 0 .. (batches * heads) * len - 1
  BY <1>1, <1>2, RowIsInside
<1>4. QED
  BY <1>3 DEF RowOf

Vectors(n, batches, heads, len) ==
  batches \in Nat /\ heads \in Nat /\ len \in Nat /\ n = batches * heads * len

LEMMA RowsAreNumbered ==
  ASSUME NEW n, NEW batches, NEW heads, NEW len, Vectors(n, batches, heads, len),
         NEW i \in 0 .. n - 1
  PROVE  \E b \in 0 .. batches - 1, h \in 0 .. heads - 1, p \in 0 .. len - 1 :
           i = RowOf(b, heads, h, len, p)
<1>1. batches \in Nat /\ heads \in Nat /\ len \in Nat
  BY DEF Vectors
<1>2. batches * heads \in Nat /\ i \in 0 .. (batches * heads) * len - 1
  BY <1>1 DEF Vectors
<1>3. PICK row \in 0 .. batches * heads - 1, p \in 0 .. len - 1 : i = row * len + p
  BY <1>1, <1>2, RowOfPlace
<1>4. PICK b \in 0 .. batches - 1, h \in 0 .. heads - 1 : row = b * heads + h
  BY <1>1, RowOfPlace
<1>5. QED
  BY <1>3, <1>4 DEF RowOf

-----------------------------------------------------------------------------
(* Attention: what the checks of execute_attention_f32 say *)

LEMMA TimesIsExact ==
  ASSUME NEW a \in Nat \cup {None}, NEW b \in Nat, Attention!Times(a, b) # None
  PROVE  a \in Nat /\ Attention!Times(a, b) = a * b /\ a * b \in Nat
BY WordsAreNumbers DEF Attention!Times, Attention!Fitting

LEMMA TimesIsWord ==
  ASSUME NEW a \in Nat \cup {None}, NEW b \in Nat
  PROVE  Attention!Times(a, b) \in Nat \cup {None}
BY WordsAreNumbers DEF Attention!Times, Attention!Fitting

LEMMA ProductIsExact ==
  ASSUME NEW a \in Nat, NEW b \in Nat, NEW c \in Nat, NEW d \in Nat,
         Attention!CheckedProduct(<<a, b, c, d>>) # None
  PROVE  Attention!CheckedProduct(<<a, b, c, d>>) = a * b * c * d /\ a * b * c * d \in Nat
<1> DEFINE ab == Attention!Times(a, b)
           abc == Attention!Times(ab, c)
           abcd == Attention!Times(abc, d)
<1>1. Attention!CheckedProduct(<<a, b, c, d>>) = abcd
  BY DEF Attention!CheckedProduct
<1>2. ab \in Nat \cup {None} /\ abc \in Nat \cup {None}
  BY TimesIsWord
<1>3. abc \in Nat /\ abcd = abc * d /\ abc * d \in Nat
  BY <1>1, <1>2, TimesIsExact
<1>4. ab \in Nat /\ abc = ab * c
  <2>1. abc # None
    BY <1>3, WordsAreNumbers
  <2>2. QED
    BY <1>2, <2>1, TimesIsExact
<1>5. ab = a * b
  <2>1. ab # None
    BY <1>4, WordsAreNumbers
  <2>2. QED
    BY <2>1, TimesIsExact
<1>6. QED
  BY <1>1, <1>3, <1>4, <1>5

\* A control and lengths that pass the checks.
Accepted(c, lengths) == c \in Controls /\ Attention!Accepts(c, lengths)

LEMMA AcceptedDimensions ==
  ASSUME NEW c, NEW lengths, Accepted(c, lengths)
  PROVE  /\ c.batch \in Nat \ {0} /\ c.query_heads \in Nat \ {0} /\ c.kv_heads \in Nat \ {0}
         /\ c.query_len \in Nat \ {0} /\ c.kv_len \in Nat \ {0} /\ c.head_dim \in Nat \ {0}
         /\ c.query_heads % c.kv_heads = 0
         /\ "CAUSAL" \in c.flags => c.kv_len >= c.query_len
BY DEF Accepted, Controls, Attention!Accepts, Attention!ValidControl, Attention!HeadsGroup,
       Attention!IsCausal

LEMMA AcceptedLengths ==
  ASSUME NEW c, NEW lengths, Accepted(c, lengths)
  PROVE  /\ lengths[1] = c.batch * c.query_heads * c.query_len * c.head_dim
         /\ lengths[2] = c.batch * c.kv_heads * c.kv_len * c.head_dim
         /\ lengths[3] = c.batch * c.kv_heads * c.kv_len * c.head_dim
<1> DEFINE Q == Attention!QElements(c)
           K == Attention!KvElements(c)
           q == Attention!Times(Q, 4)
           k == Attention!Times(K, 4)
           queries == c.batch * c.query_heads * c.query_len * c.head_dim
           keys == c.batch * c.kv_heads * c.kv_len * c.head_dim
           expected == Attention!ExpectedLengths(c)
<1>1. /\ expected # None /\ Attention!ElementBytes(c.type) = 4
      /\ \A i \in 1 .. 3 : lengths[i] = expected[i] \div 4
  BY DEF Accepted, Attention!Accepts, Attention!ValidControl, Attention!ElementBytes
<1>2. expected = (IF None \in {q, k} THEN None ELSE <<q, k, k, q>>)
  BY <1>1 DEF Attention!ExpectedLengths
<1>3. q # None /\ k # None /\ expected = <<q, k, k, q>>
  <2> HIDE DEF q, k, expected
  <2>1. QED
    BY <1>1, <1>2
<1>4. Q # None /\ K # None
  <2> HIDE DEF Q, K
  <2>1. QED
    BY <1>3 DEF Attention!Times
<1>5. Q = queries /\ K = keys /\ queries \in Nat /\ keys \in Nat
  <2>1. PICK b, h, g, l, s, d :
          /\ b = c.batch /\ h = c.query_heads /\ g = c.kv_heads
          /\ l = c.query_len /\ s = c.kv_len /\ d = c.head_dim
    OBVIOUS
  <2>2. b \in Nat /\ h \in Nat /\ g \in Nat /\ l \in Nat /\ s \in Nat /\ d \in Nat
    BY <2>1, AcceptedDimensions
  <2>3. /\ Q = Attention!CheckedProduct(<<b, h, l, d>>)
        /\ K = Attention!CheckedProduct(<<b, g, s, d>>)
    BY <2>1 DEF Attention!QElements, Attention!KvElements
  <2>4. queries = b * h * l * d /\ keys = b * g * s * d
    BY <2>1
  <2> HIDE DEF Q, K, queries, keys
  <2>5. Q = queries /\ queries \in Nat
    BY <1>4, <2>2, <2>3, <2>4, ProductIsExact
  <2>6. K = keys /\ keys \in Nat
    BY <1>4, <2>2, <2>3, <2>4, ProductIsExact
  <2>7. QED
    BY <2>5, <2>6
<1> HIDE DEF Q, K, queries, keys, expected
<1>6. q = queries * 4 /\ k = keys * 4
  BY <1>3, <1>5, TimesIsExact
<1>7. (queries * 4) \div 4 = queries /\ (keys * 4) \div 4 = keys
  BY <1>5
<1>8. lengths[1] = queries /\ lengths[2] = keys /\ lengths[3] = keys
  BY <1>1, <1>3, <1>6, <1>7
<1>9. QED
  BY <1>8 DEF queries, keys

InGroup(head, group, s) == head \in s * group .. (s + 1) * group - 1

\* Groups of one size, and a query head.
Grouping(heads, shared, group, head) ==
  /\ heads \in Nat \ {0} /\ shared \in Nat \ {0} /\ heads % shared = 0
  /\ group = heads \div shared /\ head \in 0 .. heads - 1

\* The key and value head of a query head: the one whose group it is in.
LEMMA HeadIsShared ==
  ASSUME NEW heads, NEW shared, NEW group, NEW head, Grouping(heads, shared, group, head)
  PROVE  /\ group \in Nat \ {0}
         /\ head \div group \in 0 .. shared - 1
         /\ \A s \in 0 .. shared - 1 : InGroup(head, group, s) <=> s = head \div group
<1> USE DEF Grouping
<1>1. group \in Nat \ {0} /\ heads = group * shared
  <2>1. heads = shared * group /\ group \in Nat
    OBVIOUS
  <2>2. group # 0
    BY <2>1
  <2>3. QED
    BY <2>1, <2>2
<1>2. PICK q, r : q = head \div group /\ r = head % group
  OBVIOUS
<1>3. q \in Nat /\ r \in 0 .. group - 1 /\ head = q * group + r
  BY <1>1, <1>2
<1>4. q < shared
  <2>1. SUFFICES ASSUME shared <= q PROVE FALSE
    BY <1>3
  <2>2. group * shared <= q * group
    BY <1>1, <1>3, <2>1
  <2>3. QED
    BY <1>1, <1>3, <2>2
<1>5. head \in q * group .. (q + 1) * group - 1
  BY <1>1, <1>3
<1>6. ASSUME NEW s \in 0 .. shared - 1, head \in s * group .. (s + 1) * group - 1
      PROVE  s = q
  <2>1. CASE s < q
    <3>1. (s + 1) * group <= q * group
      BY <1>1, <1>3, <2>1
    <3>2. QED
      BY <1>1, <1>3, <1>6, <3>1
  <2>2. CASE q < s
    <3>1. (q + 1) * group <= s * group
      BY <1>1, <1>3, <2>2
    <3>2. QED
      BY <1>1, <1>3, <1>6, <3>1
  <2>3. QED
    BY <1>3, <2>1, <2>2
<1>7. q \in 0 .. shared - 1
  BY <1>3, <1>4
<1>8. \A s \in 0 .. shared - 1 : InGroup(head, group, s) <=> s = q
  BY <1>5, <1>6 DEF InGroup
<1>9. QED
  BY <1>1, <1>2, <1>7, <1>8

-----------------------------------------------------------------------------
(* Attention: the turns *)

LEMMA HeadsAreOne ==
  ASSUME NEW c, NEW lengths, Accepted(c, lengths), NEW h \in 0 .. c.query_heads - 1
  PROVE  GroupHeads(c, h) = {Attention!KvHead(c, h)}
<1>1. PICK n, g : n = c.query_heads /\ g = c.kv_heads
  OBVIOUS
<1>2. n \in Nat \ {0} /\ g \in Nat \ {0} /\ n % g = 0 /\ h \in 0 .. n - 1
  BY <1>1, AcceptedDimensions
<1>3. PICK size : size = n \div g
  OBVIOUS
<1>4. h \div size \in 0 .. g - 1 /\ \A s \in 0 .. g - 1 : InGroup(h, size, s) <=> s = h \div size
  <2>1. Grouping(n, g, size, h)
    BY <1>2, <1>3 DEF Grouping
  <2>2. QED
    BY <2>1, HeadIsShared
<1>5. GroupHeads(c, h) = {s \in 0 .. g - 1 : InGroup(h, size, s)} /\ Attention!KvHead(c, h) = h \div size
  BY <1>1, <1>3 DEF GroupHeads, Attention!KvHead, InGroup
<1>6. QED
  BY <1>4, <1>5

LEMMA TurnStaysInside ==
  ASSUME NEW c, NEW lengths, Accepted(c, lengths),
         NEW b \in 0 .. c.batch - 1, NEW h \in 0 .. c.query_heads - 1, NEW p \in 0 .. c.query_len - 1
  PROVE  LET turn == Attention!Turn(c, b, h, p)
         IN /\ turn.query + c.head_dim <= lengths[1]
            /\ \A key \in turn.keys : key + c.head_dim <= lengths[2]
            /\ turn.scores <= c.kv_len
<1> DEFINE shared == Attention!KvHead(c, h)
           last == Attention!MaxKey(c, p)
           d == c.head_dim
<1>1. /\ c.batch \in Nat /\ c.query_heads \in Nat \ {0} /\ c.kv_heads \in Nat \ {0}
      /\ c.query_len \in Nat /\ c.kv_len \in Nat \ {0} /\ d \in Nat
      /\ c.query_heads % c.kv_heads = 0
      /\ "CAUSAL" \in c.flags => c.kv_len >= c.query_len
  BY AcceptedDimensions
<1>2. shared \in 0 .. c.kv_heads - 1
  BY HeadsAreOne DEF GroupHeads
<1>3. last \in 0 .. c.kv_len - 1
  BY <1>1 DEF Attention!MaxKey, Attention!IsCausal
<1>4. /\ lengths[1] = (c.batch * c.query_heads * c.query_len) * d
      /\ lengths[2] = (c.batch * c.kv_heads * c.kv_len) * d
  BY AcceptedLengths
<1>5. /\ Attention!Turn(c, b, h, p).query = RowOf(b, c.query_heads, h, c.query_len, p) * d
      /\ Attention!Turn(c, b, h, p).keys =
           {RowOf(b, c.kv_heads, shared, c.kv_len, key) * d : key \in 0 .. last}
      /\ Attention!Turn(c, b, h, p).scores = last + 1
  BY DEF Attention!Turn, Attention!QueryBase, Attention!KeyBase, RowOf
<1> HIDE DEF shared, last, d
<1>6. RowOf(b, c.query_heads, h, c.query_len, p) \in 0 .. c.batch * c.query_heads * c.query_len - 1
  BY <1>1, RowFits
<1>7. ASSUME NEW key \in 0 .. last
      PROVE  RowOf(b, c.kv_heads, shared, c.kv_len, key) \in 0 .. c.batch * c.kv_heads * c.kv_len - 1
  <2>1. key \in 0 .. c.kv_len - 1
    BY <1>1, <1>3
  <2>2. QED
    BY <1>1, <1>2, <2>1, RowFits
<1>8. RowOf(b, c.query_heads, h, c.query_len, p) * d + d <= lengths[1]
  <2>1. c.batch * c.query_heads * c.query_len \in Nat
    BY <1>1
  <2>2. QED
    BY <1>1, <1>4, <1>6, <2>1, VectorIsInside
<1>9. \A key \in 0 .. last : RowOf(b, c.kv_heads, shared, c.kv_len, key) * d + d <= lengths[2]
  <2>1. c.batch * c.kv_heads * c.kv_len \in Nat
    BY <1>1
  <2>2. QED
    BY <1>1, <1>4, <1>7, <2>1, VectorIsInside
<1>10. last + 1 <= c.kv_len
  BY <1>1, <1>3
<1>11. QED
  BY <1>5, <1>8, <1>9, <1>10 DEF d

LEMMA SeenAreFirst ==
  ASSUME NEW c, NEW lengths, Accepted(c, lengths), NEW p \in 0 .. c.query_len - 1
  PROVE  Attention!MaxKey(c, p) \in Nat /\ SeenKeys(c, p) = 0 .. Attention!MaxKey(c, p)
<1>1. PICK n, k : n = c.query_len /\ k = c.kv_len
  OBVIOUS
<1>2. n \in Nat /\ k \in Nat \ {0} /\ p \in 0 .. n - 1 /\ ("CAUSAL" \in c.flags => k >= n)
  BY <1>1, AcceptedDimensions
<1>3. CASE "CAUSAL" \in c.flags
  <2>1. Attention!MaxKey(c, p) = k - n + p
    BY <1>1, <1>2, <1>3 DEF Attention!MaxKey, Attention!IsCausal
  <2>2. SeenKeys(c, p) = {y \in 0 .. k - 1 : k - y > n - 1 - p}
    BY <1>1, <1>3 DEF SeenKeys
  <2>3. \A y \in 0 .. k - 1 : k - y > n - 1 - p <=> y \in 0 .. k - n + p
    BY <1>2
  <2>4. \A y \in 0 .. k - n + p : y \in 0 .. k - 1
    BY <1>2, <1>3
  <2>5. QED
    BY <1>2, <1>3, <2>1, <2>2, <2>3, <2>4
<1>4. CASE "CAUSAL" \notin c.flags
  BY <1>1, <1>2, <1>4 DEF Attention!MaxKey, Attention!IsCausal, SeenKeys
<1>5. QED
  BY <1>3, <1>4

\* Numbers with a common offset, and multiples of a common size, are as many.
LEMMA ShiftsCount ==
  ASSUME NEW base \in Nat, NEW last \in Nat
  PROVE  Cardinality({base + key : key \in 0 .. last}) = last + 1
<1>1. {base + key : key \in 0 .. last} = base .. base + last
  <2>1. \A i \in base .. base + last : i - base \in 0 .. last /\ i = base + (i - base)
    OBVIOUS
  <2>2. QED
    BY <2>1
<1>2. PICK top : top = base + last
  OBVIOUS
<1>3. Cardinality(base .. top) = top - base + 1
  BY <1>2, FS_Interval
<1> DEFINE shifts == {base + key : key \in 0 .. last}
<1> HIDE DEF shifts
<1>4. shifts = base .. top
  BY <1>1, <1>2 DEF shifts
<1>5. Cardinality(shifts) = last + 1
  BY <1>2, <1>3, <1>4
<1>6. QED
  BY <1>5 DEF shifts

LEMMA MultiplesCount ==
  ASSUME NEW n \in Nat, NEW d \in Nat \ {0}
  PROVE  Cardinality({i * d : i \in 0 .. n - 1}) = n
<1> DEFINE S == 0 .. n - 1
           T == {i * d : i \in S}
           f == [i \in S |-> i * d]
<1>1. f \in [S -> T] /\ \A t \in T : \E i \in S : f[i] = t
  OBVIOUS
<1>2. \A i, j \in S : f[i] = f[j] => i = j
  <2>1. ASSUME NEW i \in S, NEW j \in S, i < j PROVE i * d # j * d
    <3>1. (i + 1) * d <= j * d
      BY <2>1
    <3>2. QED
      BY <3>1
  <2>2. QED
    BY <2>1
<1>3. IsFiniteSet(S) /\ Cardinality(S) = n
  BY FS_Interval
<1> HIDE DEF S, T, f
<1>4. f \in Bijection(S, T)
  BY <1>1, <1>2 DEF Bijection, Injection, Surjection, IsInjective
<1>5. ExistsBijection(S, T)
  BY <1>4 DEF ExistsBijection
<1>6. Cardinality(T) = n
  BY <1>3, <1>5, FS_Bijection
<1>7. QED
  BY <1>6 DEF S, T

LEMMA TurnAttends ==
  ASSUME NEW c, NEW lengths, Accepted(c, lengths),
         NEW b \in 0 .. c.batch - 1, NEW h \in 0 .. c.query_heads - 1, NEW p \in 0 .. c.query_len - 1
  PROVE  Attention!Turn(c, b, h, p) =
           [query |-> c.head_dim * RowOf(b, c.query_heads, h, c.query_len, p),
            keys |-> {c.head_dim * row : row \in KeyRows(c, b, h, p)},
            scores |-> Cardinality(KeyRows(c, b, h, p))]
<1> DEFINE shared == Attention!KvHead(c, h)
           last == Attention!MaxKey(c, p)
           d == c.head_dim
           base == (b * c.kv_heads + shared) * c.kv_len
           query == RowOf(b, c.query_heads, h, c.query_len, p)
<1>1. /\ c.batch \in Nat /\ c.query_heads \in Nat \ {0} /\ c.kv_heads \in Nat \ {0}
      /\ c.query_len \in Nat /\ c.kv_len \in Nat /\ d \in Nat
      /\ c.query_heads % c.kv_heads = 0
  BY AcceptedDimensions
<1>2. shared \in Nat
  <2>1. shared \in 0 .. c.kv_heads - 1
    BY HeadsAreOne DEF GroupHeads
  <2>2. QED
    BY <1>1, <2>1
<1>3. last \in Nat
  BY SeenAreFirst
<1>4. base \in Nat
  <2>1. b * c.kv_heads + shared \in Nat
    BY <1>1, <1>2
  <2>2. QED
    BY <1>1, <2>1
<1>5. KeyRows(c, b, h, p) = {base + key : key \in 0 .. last}
  <2>1. GroupHeads(c, h) = {shared} /\ SeenKeys(c, p) = 0 .. last
    BY HeadsAreOne, SeenAreFirst
  <2>2. \A key : RowOf(b, c.kv_heads, shared, c.kv_len, key) = base + key
    BY DEF RowOf
  <2> HIDE DEF shared, last, base
  <2>3. QED
    BY <2>1, <2>2 DEF KeyRows
<1>6. query \in Nat
  <2>1. b * c.query_heads + h \in Nat
    BY <1>1
  <2>2. (b * c.query_heads + h) * c.query_len \in Nat
    BY <1>1, <2>1
  <2>3. QED
    BY <2>2 DEF RowOf
<1>7. Attention!Turn(c, b, h, p) =
        [query |-> query * d, keys |-> {(base + key) * d : key \in 0 .. last}, scores |-> last + 1]
  BY DEF Attention!Turn, Attention!QueryBase, Attention!KeyBase, RowOf
<1> HIDE DEF shared, last, d, base, query
<1>8. query * d = d * query
  BY <1>1, <1>6
<1>9. {(base + key) * d : key \in 0 .. last} = {d * row : row \in KeyRows(c, b, h, p)}
  <2>1. \A key \in 0 .. last : (base + key) * d = d * (base + key)
    BY <1>1, <1>4
  <2>2. QED
    BY <1>5, <2>1
<1>10. Cardinality(KeyRows(c, b, h, p)) = last + 1
  BY <1>3, <1>4, <1>5, ShiftsCount
<1>11. QED
  BY <1>7, <1>8, <1>9, <1>10 DEF d, query

-----------------------------------------------------------------------------
(* Attention: the answer *)

LEMMA NothingShort ==
  ASSUME NEW q \in Attentions, Accepted(q.control, Lengths(q))
  PROVE  q.short = <<0, 0, 0>>
<1> DEFINE c == q.control
           queries == c.batch * c.query_heads * c.query_len * c.head_dim
           keys == c.batch * c.kv_heads * c.kv_len * c.head_dim
<1>1. q.short \in [1 .. 3 -> Int]
  BY AttentionsAreTyped
<1>2. queries \in Nat /\ keys \in Nat
  <2>1. PICK b, h, g, l, s, d :
          /\ b = c.batch /\ h = c.query_heads /\ g = c.kv_heads
          /\ l = c.query_len /\ s = c.kv_len /\ d = c.head_dim
    OBVIOUS
  <2>2. b \in Nat /\ h \in Nat /\ g \in Nat /\ l \in Nat /\ s \in Nat /\ d \in Nat
    BY <2>1, AcceptedDimensions
  <2>3. b * h * l * d \in Nat /\ b * g * s * d \in Nat
    BY <2>2
  <2>4. QED
    BY <2>1, <2>3
<1>3. Lengths(q)[1] = queries /\ Lengths(q)[2] = keys /\ Lengths(q)[3] = keys
  BY AcceptedLengths
<1>4. Lengths(q) = <<queries - q.short[1], keys - q.short[2], keys - q.short[3]>>
  BY DEF Lengths
<1> HIDE DEF queries, keys
<1>5. q.short[1] = 0 /\ q.short[2] = 0 /\ q.short[3] = 0
  BY <1>1, <1>2, <1>3, <1>4
<1>6. QED
  BY <1>1, <1>5

LEMMA EveryVectorIsWritten ==
  ASSUME NEW c, NEW lengths, Accepted(c, lengths)
  PROVE  c.head_dim * Cardinality({turn.query : turn \in Attention!ExecuteAttention(c, lengths)})
           = lengths[1]
<1> DEFINE turns == Attention!ExecuteAttention(c, lengths)
           n == c.batch * c.query_heads * c.query_len
           d == c.head_dim
           row(b, h, p) == RowOf(b, c.query_heads, h, c.query_len, p)
           B == 0 .. c.batch - 1
           H == 0 .. c.query_heads - 1
           P == 0 .. c.query_len - 1
           queries == {turn.query : turn \in turns}
           vectors == {row(b, h, p) * d : b \in B, h \in H, p \in P}
           multiples == {i * d : i \in 0 .. n - 1}
<1>1. /\ c.batch \in Nat /\ c.query_heads \in Nat /\ c.query_len \in Nat /\ d \in Nat \ {0}
  BY AcceptedDimensions
<1>2. n \in Nat
  <2>1. c.batch * c.query_heads \in Nat
    BY <1>1
  <2>2. QED
    BY <1>1, <2>1
<1>3. turns = {Attention!Turn(c, b, h, p) : b \in B, h \in H, p \in P}
  BY DEF Attention!ExecuteAttention, Accepted
<1>4. \A b \in B, h \in H, p \in P : Attention!Turn(c, b, h, p).query = row(b, h, p) * d
  BY DEF Attention!Turn, Attention!QueryBase, RowOf
<1>5. /\ \A b \in B, h \in H, p \in P : row(b, h, p) \in 0 .. n - 1
      /\ \A i \in 0 .. n - 1 : \E b \in B, h \in H, p \in P : i = row(b, h, p)
  <2>1. \A b \in B, h \in H, p \in P : row(b, h, p) \in 0 .. n - 1
    BY <1>1, RowFits
  <2>2. ASSUME NEW i \in 0 .. n - 1 PROVE \E b \in B, h \in H, p \in P : i = row(b, h, p)
    <3>1. Vectors(n, c.batch, c.query_heads, c.query_len)
      BY <1>1 DEF Vectors
    <3> HIDE DEF n
    <3>2. QED
      BY <3>1, RowsAreNumbered
  <2>3. QED
    BY <2>1, <2>2
<1> HIDE DEF turns, n, d, row, B, H, P
<1>6. queries = vectors
  BY <1>3, <1>4
<1>7. vectors = multiples
  BY <1>5
<1>8. Cardinality(queries) = n
  <2>1. Cardinality(multiples) = n
    BY <1>1, <1>2, MultiplesCount
  <2> HIDE DEF queries, vectors, multiples
  <2>2. QED
    BY <1>6, <1>7, <2>1
<1>9. lengths[1] = n * d
  BY AcceptedLengths DEF n, d
<1>10. d * n = n * d
  BY <1>1, <1>2
<1>11. QED
  BY <1>8, <1>9, <1>10 DEF turns, d, queries

\* An answer is the turns of an accepted question.
AttentionAsked ==
  asked # None /\ asked.kind = "attention" =>
    \E q \in Attentions :
      asked.question = q /\ asked.answer = Attention!ExecuteAttention(q.control, Lengths(q))

LEMMA AskedIsInside == AttentionAsked => AttentionStaysInside
<1> SUFFICES ASSUME AttentionAsked, asked # None, asked.kind = "attention", asked.answer # None
             PROVE  AttentionStaysInside
  BY DEF AttentionStaysInside
<1>1. PICK q \in Attentions :
        asked.question = q /\ asked.answer = Attention!ExecuteAttention(q.control, Lengths(q))
  BY DEF AttentionAsked
<1> DEFINE c == q.control
           lengths == Lengths(q)
           answer == asked.answer
           B == 0 .. c.batch - 1
           H == 0 .. c.query_heads - 1
           P == 0 .. c.query_len - 1
<1>2. Accepted(c, lengths)
  BY <1>1, AttentionsAreTyped DEF Attention!ExecuteAttention, Accepted
<1>3. answer = {Attention!Turn(c, b, h, p) : b \in B, h \in H, p \in P}
  BY <1>1, <1>2 DEF Attention!ExecuteAttention, Accepted
<1>4. q.short = <<0, 0, 0>>
  BY <1>2, NothingShort
<1>5. \A turn \in answer :
        /\ turn.query + c.head_dim <= lengths[1]
        /\ \A key \in turn.keys : key + c.head_dim <= lengths[2]
        /\ turn.scores <= c.kv_len
  <2>1. \A b \in B, h \in H, p \in P :
          /\ Attention!Turn(c, b, h, p).query + c.head_dim <= lengths[1]
          /\ \A key \in Attention!Turn(c, b, h, p).keys : key + c.head_dim <= lengths[2]
          /\ Attention!Turn(c, b, h, p).scores <= c.kv_len
    BY <1>2, TurnStaysInside
  <2> HIDE DEF B, H, P, answer, lengths
  <2>2. QED
    BY <1>3, <2>1
<1>6. c.head_dim * Cardinality({turn.query : turn \in answer}) = lengths[1]
  BY <1>1, <1>2, EveryVectorIsWritten
<1>7. answer = AttendingTurns(c)
  <2> DEFINE attends(b, h, p) ==
               [query |-> c.head_dim * RowOf(b, c.query_heads, h, c.query_len, p),
                keys |-> {c.head_dim * row : row \in KeyRows(c, b, h, p)},
                scores |-> Cardinality(KeyRows(c, b, h, p))]
  <2>1. \A b \in B, h \in H, p \in P : Attention!Turn(c, b, h, p) = attends(b, h, p)
    BY <1>2, TurnAttends
  <2>2. AttendingTurns(c) = {attends(b, h, p) : b \in B, h \in H, p \in P}
    BY DEF AttendingTurns
  <2> HIDE DEF B, H, P, answer, c, attends
  <2>3. answer = {attends(b, h, p) : b \in B, h \in H, p \in P}
    BY <1>3, <2>1
  <2>4. QED
    BY <2>2, <2>3
<1>8. StaysInside(q, answer)
  <2> HIDE DEF answer
  <2>1. QED
    BY <1>4, <1>5, <1>6, <1>7 DEF StaysInside
<1>9. QED
  BY <1>1, <1>8 DEF AttentionStaysInside

\* crates/vrb-attention-reference: every index that execute_attention_f32 computes lies
\* inside its tensor, and every turn attends to the keys it should.
THEOREM AttentionIsInside == SystemSpec => []AttentionStaysInside
<1>1. SystemInit => AttentionAsked
  BY DEF SystemInit, AttentionAsked
<1>2. AttentionAsked /\ [SystemNext]_allVars => AttentionAsked'
  <2> SUFFICES ASSUME AttentionAsked, [SystemNext]_allVars PROVE AttentionAsked'
    OBVIOUS
  <2>1. CASE UNCHANGED asked
    BY <2>1, Zenon DEF AttentionAsked
  <2>2. CASE Forget
    BY <2>2 DEF Forget, AttentionAsked
  <2>3. ASSUME NEW g \in Gemms, NEW candidates, AskGemm(g, candidates) PROVE AttentionAsked'
    <3>1. asked'.kind = "gemm"
      BY <2>3 DEF AskGemm
    <3>2. QED
      BY <3>1 DEF AttentionAsked
  <2>4. ASSUME NEW q \in Attentions, AskAttention(q) PROVE AttentionAsked'
    BY <2>4 DEF AskAttention, AttentionAsked
  <2>5. QED
    BY <2>1, <2>2, <2>3, <2>4 DEF SystemNext, allVars
<1>3. QED
  BY <1>1, <1>2, AskedIsInside, PTL DEF SystemSpec

-----------------------------------------------------------------------------
(* GEMM: the checked arithmetic of a request's and a response's length *)

LEMMA GemmTimes ==
  ASSUME NEW a \in Nat, NEW b \in Nat
  PROVE  /\ a * b \in Nat
         /\ Gemm!Times(a, b) = IF a * b <= U64Max THEN a * b ELSE None
         /\ Gemm!Times(None, b) = None
<1>1. a # None /\ b # None
  BY WordsAreNumbers
<1>2. a * b \in Nat
  OBVIOUS
<1>3. QED
  BY <1>1, <1>2 DEF Gemm!Times, Gemm!Fitting

LEMMA GemmPlus ==
  ASSUME NEW a \in Nat, NEW b \in Nat
  PROVE  /\ Gemm!Plus(a, b) = IF a + b <= U64Max THEN a + b ELSE None
         /\ Gemm!Plus(None, b) = None /\ Gemm!Plus(a, None) = None
         /\ Gemm!Plus(None, None) = None
<1>1. a # None /\ b # None
  BY WordsAreNumbers
<1>2. QED
  BY <1>1 DEF Gemm!Plus, Gemm!Fitting

\* The f32 values of a request, by ordinary arithmetic.
Payload(m, n, k, hasC) == m * k + k * n + (IF hasC THEN m * n ELSE 0)

LEMMA RequestLength ==
  ASSUME NEW m \in Nat, NEW n \in Nat, NEW k \in Nat, NEW hasC \in BOOLEAN,
         Gemm!EncodedRequestLen(m, n, k, hasC) # None
  PROVE  /\ Gemm!EncodedRequestLen(m, n, k, hasC) = 56 + 4 * Payload(m, n, k, hasC)
         /\ Payload(m, n, k, hasC) \in Nat
         /\ m * k <= U64Max /\ k * n <= U64Max /\ m * n <= U64Max
<1> DEFINE mk == Gemm!Times(m, k)
           kn == Gemm!Times(k, n)
           mn == Gemm!Times(m, n)
           factors == Gemm!Plus(mk, kn)
           total == Gemm!PayloadElements(m, n, k, hasC)
           bytes == Gemm!Times(total, 4)
           length == Gemm!EncodedRequestLen(m, n, k, hasC)
<1>1. /\ total = IF mn = None THEN None ELSE IF hasC THEN Gemm!Plus(factors, mn) ELSE factors
      /\ length = Gemm!Plus(56, bytes)
  BY DEF Gemm!PayloadElements, Gemm!Elements, Gemm!EncodedRequestLen, Gemm!RequestHeaderLen,
         Gemm!F32Bytes
<1>2. PICK a \in Nat, b \in Nat, c \in Nat : a = m * k /\ b = k * n /\ c = m * n
  BY GemmTimes
<1>3. /\ mk = IF a <= U64Max THEN a ELSE None
      /\ kn = IF b <= U64Max THEN b ELSE None
      /\ mn = IF c <= U64Max THEN c ELSE None
  BY <1>2, GemmTimes
<1>4. U64Max \in Nat /\ None \notin Nat
  BY WordsAreNumbers
<1> HIDE DEF mk, kn, mn, factors, total, bytes, length
<1>5. bytes # None /\ total # None /\ mn # None
  <2>1. bytes # None
    BY <1>1, <1>4, GemmPlus, WordsAreNumbers DEF length
  <2>2. total # None
    BY <2>1, GemmTimes DEF bytes
  <2>3. QED
    BY <1>1, <2>1, <2>2
<1>6. mk # None /\ kn # None /\ factors = a + b /\ a <= U64Max /\ b <= U64Max
  <2>1. factors # None
    BY <1>1, <1>3, <1>4, <1>5, GemmPlus
  <2>2. mk # None /\ kn # None
    BY <1>3, <1>4, <2>1, GemmPlus DEF factors
  <2>3. QED
    BY <1>3, <1>4, <2>1, <2>2, GemmPlus DEF factors
<1>7. c <= U64Max /\ mn = c
  BY <1>3, <1>5
<1>8. total = a + b + (IF hasC THEN c ELSE 0)
  BY <1>1, <1>4, <1>5, <1>6, <1>7, GemmPlus
<1>9. length = 56 + 4 * total /\ total \in Nat
  <2>1. total \in Nat
    BY <1>8
  <2>2. PICK d \in Nat : d = total * 4 /\ d = 4 * total
    BY <2>1
  <2>3. bytes = d
    BY <1>5, <2>1, <2>2, GemmTimes DEF bytes
  <2>4. Gemm!Plus(56, d) = IF 56 + d <= U64Max THEN 56 + d ELSE None
    BY GemmPlus
  <2>5. length # None
    BY DEF length
  <2>6. QED
    BY <1>1, <2>1, <2>2, <2>3, <2>4, <2>5
<1>10. QED
  BY <1>2, <1>6, <1>7, <1>8, <1>9 DEF Payload, length

LEMMA ResponseLength ==
  ASSUME NEW m \in Nat, NEW n \in Nat, m * n <= U64Max
  PROVE  Gemm!EncodedResponseLen(m, n) =
           IF 32 + 4 * (m * n) <= U64Max THEN 32 + 4 * (m * n) ELSE None
<1>1. PICK c \in Nat : c = m * n
  BY GemmTimes
<1>2. Gemm!EncodedResponseLen(m, n) = Gemm!Plus(32, Gemm!Times(c, 4))
  BY <1>1, GemmTimes
     DEF Gemm!EncodedResponseLen, Gemm!Elements, Gemm!ResponseHeaderLen, Gemm!F32Bytes
<1>3. U64Max \in Nat
  BY WordsAreNumbers
<1>4. PICK d \in Nat : d = c * 4 /\ d = 4 * c
  OBVIOUS
<1>5. Gemm!Times(c, 4) = IF d <= U64Max THEN d ELSE None
  BY <1>4, GemmTimes
<1>6. Gemm!Plus(32, d) = IF 32 + d <= U64Max THEN 32 + d ELSE None
  BY GemmPlus
<1>7. Gemm!Plus(32, None) = None
  BY GemmPlus
<1> HIDE DEF Gemm!EncodedResponseLen
<1>8. QED
  BY <1>1, <1>2, <1>3, <1>4, <1>5, <1>6, <1>7

-----------------------------------------------------------------------------
(* GEMM: the request that arrives *)

LEMMA HeaderIsInspected ==
  ASSUME NEW message, {message.m, message.n, message.k, message.length} \subseteq Nat,
         Gemm!Inspect(message) # None
  PROVE  HeaderIsConsistent(message)
<1> DEFINE hasC == "HAS_C" \in message.flags
           length == Gemm!EncodedRequestLen(message.m, message.n, message.k, hasC)
<1>1. /\ message.magic = Gemm!RequestMagic /\ message.version = 1 /\ message.header = 56
      /\ message.flags \subseteq {"HAS_C"} /\ length = message.length
  BY DEF Gemm!Inspect, Gemm!RequestHeaderLen, Gemm!Version, Gemm!KnownFlags
<1>2. length # None /\ hasC \in BOOLEAN
  BY <1>1, WordsAreNumbers
<1>3. length = 56 + 4 * Payload(message.m, message.n, message.k, hasC)
  <2> HIDE DEF hasC
  <2>1. QED
    BY <1>2, RequestLength
<1>4. QED
  BY <1>1, <1>3 DEF HeaderIsConsistent, Payload

\* The request that g's caller encodes, and what inspect_request says of it.
Meta(g) ==
  [m |-> g.m, n |-> g.n, k |-> g.k, hasC |-> g.c # None, alpha |-> g.alpha, beta |-> g.beta,
   a |-> g.m * g.k, b |-> g.k * g.n, c |-> g.m * g.n]
MatrixC(g) == IF g.c = None THEN << >> ELSE RowMajor(g.c, g.m, g.n)
Request(g) ==
  [length |-> 56 + 4 * Payload(g.m, g.n, g.k, g.c # None), magic |-> Gemm!RequestMagic,
   version |-> 1, header |-> 56, flags |-> IF g.c # None THEN {"HAS_C"} ELSE {},
   m |-> g.m, n |-> g.n, k |-> g.k, alpha |-> g.alpha, beta |-> g.beta,
   payload |-> RowMajor(g.a, g.m, g.k) \o RowMajor(g.b, g.k, g.n) \o MatrixC(g)]

LEMMA Dimensions ==
  ASSUME NEW g \in Gemms
  PROVE  /\ g.m \in Nat /\ g.n \in Nat /\ g.k \in Nat
         /\ g.m <= U64Max /\ g.n <= U64Max /\ g.k <= U64Max
         /\ g.alpha \in Int /\ g.beta \in Int
         /\ g.m * g.k \in Nat /\ g.k * g.n \in Nat /\ g.m * g.n \in Nat
<1>1. g.m \in 0 .. U64Max /\ g.n \in 0 .. U64Max /\ g.k \in 0 .. U64Max
  BY GemmsAreTyped
<1>2. g.alpha \in Int /\ g.beta \in Int
  BY GemmsAreTyped
<1>3. U64Max \in Nat
  BY WordsAreNumbers
<1>4. g.m \in Nat /\ g.n \in Nat /\ g.k \in Nat /\ g.m <= U64Max /\ g.n <= U64Max /\ g.k <= U64Max
  BY <1>1, <1>3
<1>5. QED
  BY <1>2, <1>4, GemmTimes

\* Where the oracle's div and mod find an element of a row-major matrix.
LEMMA PlaceOfElement ==
  ASSUME NEW rows \in Nat, NEW columns \in Nat,
         NEW row \in 0 .. rows - 1, NEW column \in 0 .. columns - 1,
         NEW i, i = row * columns + column
  PROVE  i \in 0 .. rows * columns - 1 /\ i \div columns = row /\ i % columns = column
<1>1. i \in 0 .. rows * columns - 1
  BY RowIsInside
<1>2. i = columns * row + column /\ columns \in Nat \ {0}
  OBVIOUS
<1>3. PICK q, r : q = i \div columns /\ r = i % columns
  OBVIOUS
<1>4. i = columns * q + r /\ r \in 0 .. columns - 1 /\ q \in Nat
  BY <1>1, <1>2, <1>3
<1>5. q = row
  <2>1. columns * q + r = columns * row + column
    BY <1>2, <1>4
  <2>2. CASE q < row
    <3>1. columns * (q + 1) <= columns * row
      BY <1>2, <1>4, <2>2
    <3>2. columns * (q + 1) = columns * q + columns
      BY <1>2, <1>4
    <3>3. QED
      BY <1>2, <1>4, <2>1, <3>1, <3>2
  <2>3. CASE row < q
    <3>1. columns * (row + 1) <= columns * q
      BY <1>2, <1>4, <2>3
    <3>2. columns * (row + 1) = columns * row + columns
      BY <1>2, <1>4
    <3>3. QED
      BY <1>2, <1>4, <2>1, <3>1, <3>2
  <2>4. QED
    BY <1>4, <2>2, <2>3
<1>6. QED
  BY <1>1, <1>2, <1>3, <1>4, <1>5

\* A matrix is stored row by row.
LEMMA RowMajorIsSequence ==
  ASSUME NEW rows \in Nat, NEW columns \in Nat,
         NEW matrix \in [(1 .. rows) \X (1 .. columns) -> Int]
  PROVE  /\ RowMajor(matrix, rows, columns) \in Seq(Int)
         /\ Len(RowMajor(matrix, rows, columns)) = rows * columns
         /\ \A i \in 1 .. rows, j \in 1 .. columns :
              RowMajor(matrix, rows, columns)[(i - 1) * columns + j] = matrix[<<i, j>>]
<1>1. PICK n \in Nat : n = rows * columns
  BY GemmTimes
<1> DEFINE s == RowMajor(matrix, rows, columns)
<1>2. s = [i \in 1 .. n |-> matrix[<<((i - 1) \div columns) + 1, ((i - 1) % columns) + 1>>]]
  BY <1>1 DEF RowMajor
<1>3. ASSUME NEW row \in 0 .. rows - 1, NEW column \in 0 .. columns - 1,
             NEW i, i = row * columns + column
      PROVE  i \in 0 .. n - 1 /\ i \div columns = row /\ i % columns = column
  BY <1>1, <1>3, PlaceOfElement
<1>4. ASSUME NEW i \in 1 .. n PROVE s[i] \in Int
  <2>1. i - 1 \in 0 .. rows * columns - 1
    BY <1>1
  <2>2. PICK row \in 0 .. rows - 1, column \in 0 .. columns - 1 : i - 1 = row * columns + column
    BY <2>1, RowOfPlace
  <2>3. (i - 1) \div columns = row /\ (i - 1) % columns = column
    BY <1>3, <2>2
  <2>4. s[i] = matrix[<<row + 1, column + 1>>]
    BY <1>2, <2>3, Zenon
  <2>5. row + 1 \in 1 .. rows /\ column + 1 \in 1 .. columns
    OBVIOUS
  <2>6. QED
    BY <2>4, <2>5
<1>5. s \in Seq(Int) /\ Len(s) = n
  <2>1. s \in [1 .. n -> Int]
    BY <1>2, <1>4
  <2> HIDE DEF s
  <2>2. QED
    BY <2>1
<1>6. ASSUME NEW i \in 1 .. rows, NEW j \in 1 .. columns
      PROVE  s[(i - 1) * columns + j] = matrix[<<i, j>>]
  <2>1. PICK row \in 0 .. rows - 1, column \in 0 .. columns - 1 : row = i - 1 /\ column = j - 1
    OBVIOUS
  <2>2. PICK p \in Int : p = row * columns
    OBVIOUS
  <2>3. p + column \in 0 .. n - 1 /\ (p + column) \div columns = row /\ (p + column) % columns = column
    BY <1>3, <2>2
  <2>4. p + j \in 1 .. n /\ (p + j) - 1 = p + column
    BY <2>1, <2>3
  <2>5. s[p + j] = matrix[<<row + 1, column + 1>>]
    BY <1>2, <2>3, <2>4
  <2>6. QED
    BY <2>1, <2>2, <2>5
<1>7. QED
  BY <1>1, <1>5, <1>6

\* The matrices of g as sequences.
LEMMA MatricesAreSequences ==
  ASSUME NEW g \in Gemms
  PROVE  /\ RowMajor(g.a, g.m, g.k) \in Seq(Int) /\ Len(RowMajor(g.a, g.m, g.k)) = g.m * g.k
         /\ RowMajor(g.b, g.k, g.n) \in Seq(Int) /\ Len(RowMajor(g.b, g.k, g.n)) = g.k * g.n
         /\ MatrixC(g) \in Seq(Int)
         /\ g.c # None =>
              /\ g.c \in [(1 .. g.m) \X (1 .. g.n) -> Int]
              /\ Len(MatrixC(g)) = g.m * g.n /\ RowMajor(g.c, g.m, g.n) # None
<1>1. /\ g.m \in Nat /\ g.n \in Nat /\ g.k \in Nat
      /\ g.a \in [(1 .. g.m) \X (1 .. g.k) -> Int] /\ g.b \in [(1 .. g.k) \X (1 .. g.n) -> Int]
      /\ g.c \in [(1 .. g.m) \X (1 .. g.n) -> Int] \cup {None}
  BY Dimensions, GemmsAreTyped
<1>2. /\ RowMajor(g.a, g.m, g.k) \in Seq(Int) /\ Len(RowMajor(g.a, g.m, g.k)) = g.m * g.k
      /\ RowMajor(g.b, g.k, g.n) \in Seq(Int) /\ Len(RowMajor(g.b, g.k, g.n)) = g.k * g.n
  BY <1>1, RowMajorIsSequence
<1>3. CASE g.c = None
  BY <1>2, <1>3 DEF MatrixC
<1>4. CASE g.c # None
  <2>1. RowMajor(g.c, g.m, g.n) \in Seq(Int) /\ Len(RowMajor(g.c, g.m, g.n)) = g.m * g.n
    BY <1>1, <1>4, RowMajorIsSequence
  <2>2. QED
    BY <1>1, <1>2, <1>4, <2>1, NoneIsNoMessage DEF MatrixC
<1>5. QED
  BY <1>3, <1>4

LEMMA EncodedIsRequest ==
  ASSUME NEW g \in Gemms, Encoded(g) # None
  PROVE  /\ Encoded(g) = Request(g)
         /\ Gemm!EncodedRequestLen(g.m, g.n, g.k, g.c # None) # None
<1> DEFINE a == RowMajor(g.a, g.m, g.k)
           b == RowMajor(g.b, g.k, g.n)
           c == IF g.c = None THEN None ELSE RowMajor(g.c, g.m, g.n)
           r == [m |-> g.m, n |-> g.n, k |-> g.k, alpha |-> g.alpha, beta |-> g.beta,
                 a |-> a, b |-> b, c |-> c]
           length == Gemm!EncodedRequestLen(g.m, g.n, g.k, g.c # None)
<1>1. (c # None) = (g.c # None)
  BY MatricesAreSequences
<1>2. Encoded(g) = Gemm!EncodeRequest(r)
  BY DEF Encoded
<1>3. MatrixC(g) = IF g.c # None THEN c ELSE << >>
  BY DEF MatrixC
<1>4. /\ r.m = g.m /\ r.n = g.n /\ r.k = g.k /\ r.alpha = g.alpha /\ r.beta = g.beta
      /\ r.a = a /\ r.b = b /\ r.c = c
  OBVIOUS
<1> HIDE DEF a, b, c, r
<1>5. /\ length # None
      /\ Encoded(g) =
           [length |-> length, magic |-> Gemm!RequestMagic, version |-> 1, header |-> 56,
            flags |-> IF g.c # None THEN {"HAS_C"} ELSE {},
            m |-> g.m, n |-> g.n, k |-> g.k, alpha |-> g.alpha, beta |-> g.beta,
            payload |-> a \o b \o MatrixC(g)]
  BY <1>1, <1>2, <1>3, <1>4 DEF Gemm!EncodeRequest, Gemm!Version, Gemm!RequestHeaderLen
<1>6. length = 56 + 4 * Payload(g.m, g.n, g.k, g.c # None)
  BY <1>5, Dimensions, RequestLength
<1>7. QED
  BY <1>5, <1>6 DEF Request, a, b

LEMMA RequestIsInspected ==
  ASSUME NEW g \in Gemms, Encoded(g) # None
  PROVE  /\ Gemm!Inspect(Request(g)) = Meta(g) /\ Meta(g) # None
         /\ g.m * g.k <= U64Max /\ g.k * g.n <= U64Max /\ g.m * g.n <= U64Max
<1> DEFINE hasC == g.c # None
           total == Payload(g.m, g.n, g.k, hasC)
<1>1. /\ Gemm!EncodedRequestLen(g.m, g.n, g.k, hasC) = 56 + 4 * total /\ total \in Nat
      /\ g.m * g.k <= U64Max /\ g.k * g.n <= U64Max /\ g.m * g.n <= U64Max
  <2>1. Gemm!EncodedRequestLen(g.m, g.n, g.k, hasC) # None
    BY EncodedIsRequest
  <2>2. g.m \in Nat /\ g.n \in Nat /\ g.k \in Nat /\ hasC \in BOOLEAN
    BY Dimensions
  <2> HIDE DEF hasC
  <2>3. QED
    BY <2>1, <2>2, RequestLength
<1>2. ("HAS_C" \in Request(g).flags) = hasC /\ Request(g).flags \subseteq {"HAS_C"}
  BY DEF Request
<1>3. Request(g).length = 56 + 4 * total /\ 56 + 4 * total >= 56
  BY <1>1 DEF Request
<1> HIDE DEF total
<1>4. Gemm!Inspect(Request(g)) = Meta(g)
  BY <1>1, <1>2, <1>3
     DEF Gemm!Inspect, Request, Meta, Gemm!RequestHeaderLen, Gemm!Version, Gemm!KnownFlags
<1>5. Meta(g) # None
  <2>1. Meta(g) \in [m : Nat, n : Nat, k : Nat, hasC : BOOLEAN, alpha : Int, beta : Int,
                     a : Nat, b : Nat, c : Nat]
    BY Dimensions DEF Meta
  <2>2. QED
    BY <2>1, NoneIsNoMessage
<1>6. QED
  BY <1>1, <1>4, <1>5

LEMMA Slice ==
  ASSUME NEW s \in Seq(Int), NEW cursor \in Nat, NEW count \in Nat, cursor + count <= Len(s)
  PROVE  /\ SubSeq(s, cursor + 1, cursor + count) \in Seq(Int)
         /\ \A i \in 1 .. count : SubSeq(s, cursor + 1, cursor + count)[i] = s[cursor + i]
<1>1. PICK low \in Int, high \in Int : low = cursor + 1 /\ high = cursor + count
  OBVIOUS
<1>2. \A i \in low .. high : s[i] \in Int
  BY <1>1
<1>3. /\ SubSeq(s, low, high) \in Seq(Int)
      /\ \A i \in 1 .. high - low + 1 : SubSeq(s, low, high)[i] = s[low + i - 1]
  BY <1>2, SubSeqProperties
<1>4. high - low + 1 = count /\ \A i \in 1 .. count : low + i - 1 = cursor + i
  BY <1>1
<1>5. QED
  BY <1>1, <1>3, <1>4

\* Three sequences one after the other.
LEMMA Joined ==
  ASSUME NEW r \in Seq(Int), NEW s \in Seq(Int), NEW t \in Seq(Int), NEW v, v = r \o s \o t
  PROVE  /\ v \in Seq(Int) /\ Len(v) = Len(r) + Len(s) + Len(t)
         /\ \A i \in 1 .. Len(r) : v[i] = r[i]
         /\ \A i \in 1 .. Len(s) : v[Len(r) + i] = s[i]
         /\ \A i \in 1 .. Len(t) : v[Len(r) + Len(s) + i] = t[i]
<1>1. Len(r) \in Nat /\ Len(s) \in Nat /\ Len(t) \in Nat
  OBVIOUS
<1>2. PICK u : u = r \o s
  OBVIOUS
<1>3. /\ u \in Seq(Int) /\ Len(u) = Len(r) + Len(s)
      /\ \A i \in 1 .. Len(r) + Len(s) : u[i] = IF i <= Len(r) THEN r[i] ELSE s[i - Len(r)]
  BY <1>2, ConcatProperties
<1>4. v = u \o t
  BY <1>2
<1>5. ASSUME NEW prefix \in Seq(Int)
      PROVE  /\ prefix \o t \in Seq(Int) /\ Len(prefix \o t) = Len(prefix) + Len(t)
             /\ \A i \in 1 .. Len(prefix) + Len(t) :
                  (prefix \o t)[i] = IF i <= Len(prefix) THEN prefix[i] ELSE t[i - Len(prefix)]
  BY ConcatProperties
<1>6. /\ v \in Seq(Int) /\ Len(v) = Len(u) + Len(t)
      /\ \A i \in 1 .. Len(u) + Len(t) : v[i] = IF i <= Len(u) THEN u[i] ELSE t[i - Len(u)]
  BY <1>3, <1>4, <1>5
<1>7. \A i \in 1 .. Len(r) : v[i] = r[i]
  BY <1>1, <1>3, <1>6
<1>8. \A i \in 1 .. Len(s) : v[Len(r) + i] = s[i]
  <2> SUFFICES ASSUME NEW i \in 1 .. Len(s) PROVE v[Len(r) + i] = s[i]
    OBVIOUS
  <2>1. PICK j \in Nat : j = Len(r) + i
    BY <1>1
  <2>2. j \in 1 .. Len(r) + Len(s) /\ ~(j <= Len(r)) /\ j - Len(r) = i
    BY <1>1, <2>1
  <2>3. j <= Len(u) /\ j \in 1 .. Len(u) + Len(t)
    BY <1>1, <1>3, <2>2
  <2>4. v[j] = u[j] /\ u[j] = s[i]
    BY <1>3, <1>6, <2>2, <2>3
  <2>5. QED
    BY <2>1, <2>4
<1>9. \A i \in 1 .. Len(t) : v[Len(r) + Len(s) + i] = t[i]
  <2> SUFFICES ASSUME NEW i \in 1 .. Len(t) PROVE v[Len(r) + Len(s) + i] = t[i]
    OBVIOUS
  <2>1. PICK j \in Nat : j = Len(r) + Len(s) + i
    BY <1>1
  <2>2. j \in 1 .. Len(u) + Len(t) /\ ~(j <= Len(u)) /\ j - Len(u) = i
    BY <1>1, <1>3, <2>1
  <2>3. v[j] = t[i]
    BY <1>6, <2>2
  <2>4. QED
    BY <2>1, <2>3
<1>10. QED
  BY <1>2, <1>3, <1>4, <1>6, <1>7, <1>8, <1>9

LEMMA DecodedValues ==
  ASSUME NEW g \in Gemms, Encoded(g) # None, NEW r, r = Gemm!DecodeRequest(Request(g))
  PROVE  /\ r.meta = Meta(g)
         /\ \A i \in 1 .. g.m * g.k : r.a[i] = RowMajor(g.a, g.m, g.k)[i]
         /\ \A i \in 1 .. g.k * g.n : r.b[i] = RowMajor(g.b, g.k, g.n)[i]
         /\ g.c = None => r.c = None
         /\ g.c # None =>
              r.c # None /\ \A i \in 1 .. g.m * g.n : r.c[i] = RowMajor(g.c, g.m, g.n)[i]
<1>1. PICK a \in Seq(Int), b \in Seq(Int), c \in Seq(Int) :
        a = RowMajor(g.a, g.m, g.k) /\ b = RowMajor(g.b, g.k, g.n) /\ c = MatrixC(g)
  BY MatricesAreSequences
<1>2. PICK x \in Nat, y \in Nat, z \in Nat : x = g.m * g.k /\ y = g.k * g.n /\ z = g.m * g.n
  BY Dimensions
<1>3. Len(a) = x /\ Len(b) = y /\ (g.c # None => Len(c) = z)
  BY <1>1, <1>2, MatricesAreSequences
<1>4. PICK p : p = a \o b \o c
  OBVIOUS
<1>5. /\ p \in Seq(Int) /\ Len(p) = x + y + Len(c)
      /\ \A i \in 1 .. x : p[i] = a[i]
      /\ \A i \in 1 .. y : p[x + i] = b[i]
      /\ \A i \in 1 .. Len(c) : p[x + y + i] = c[i]
  <2>1. /\ p \in Seq(Int) /\ Len(p) = Len(a) + Len(b) + Len(c)
        /\ \A i \in 1 .. Len(a) : p[i] = a[i]
        /\ \A i \in 1 .. Len(b) : p[Len(a) + i] = b[i]
        /\ \A i \in 1 .. Len(c) : p[Len(a) + Len(b) + i] = c[i]
    BY <1>4, Joined
  <2>2. QED
    BY <1>3, <2>1
<1>6. r = [meta |-> Meta(g),
           a |-> SubSeq(p, 0 + 1, 0 + x), b |-> SubSeq(p, x + 1, x + y),
           c |-> IF g.c # None THEN SubSeq(p, x + y + 1, x + y + z) ELSE None]
  <2>1. Request(g).payload = p
    BY <1>1, <1>4 DEF Request
  <2>2. Meta(g).a = x /\ Meta(g).b = y /\ Meta(g).c = z /\ Meta(g).hasC = (g.c # None)
    BY <1>2 DEF Meta
  <2>3. Gemm!Inspect(Request(g)) = Meta(g)
    BY RequestIsInspected
  <2> HIDE DEF Request, Meta
  <2>4. QED
    BY <2>1, <2>2, <2>3 DEF Gemm!DecodeRequest
<1>7. \A i \in 1 .. x : r.a[i] = a[i]
  <2>1. 0 + x <= Len(p) /\ \A i \in 1 .. x : 0 + i = i
    BY <1>5
  <2>2. \A i \in 1 .. x : SubSeq(p, 0 + 1, 0 + x)[i] = p[0 + i]
    BY <1>5, <2>1, Slice
  <2>3. QED
    BY <1>5, <1>6, <2>1, <2>2
<1>8. \A i \in 1 .. y : r.b[i] = b[i]
  <2>1. x + y <= Len(p)
    BY <1>5
  <2>2. \A i \in 1 .. y : SubSeq(p, x + 1, x + y)[i] = p[x + i]
    BY <1>5, <2>1, Slice
  <2>3. QED
    BY <1>5, <1>6, <2>2
<1>9. ASSUME g.c # None PROVE r.c # None /\ \A i \in 1 .. z : r.c[i] = c[i]
  <2>1. PICK w \in Nat : w = x + y
    OBVIOUS
  <2>2. w + z <= Len(p)
    BY <1>3, <1>5, <1>9, <2>1
  <2>3. /\ SubSeq(p, w + 1, w + z) \in Seq(Int)
        /\ \A i \in 1 .. z : SubSeq(p, w + 1, w + z)[i] = p[w + i]
    BY <1>5, <2>2, Slice
  <2>4. r.c = SubSeq(p, w + 1, w + z)
    BY <1>6, <1>9, <2>1
  <2>5. r.c # None
    BY <2>3, <2>4, NoneIsNoMessage
  <2>6. \A i \in 1 .. z : p[w + i] = c[i]
    BY <1>3, <1>5, <1>9, <2>1
  <2>7. QED
    BY <2>3, <2>4, <2>5, <2>6
<1>10. g.c # None => c = RowMajor(g.c, g.m, g.n)
  BY <1>1 DEF MatrixC
<1>11. r.meta = Meta(g) /\ (g.c = None => r.c = None)
  BY <1>6
<1>12. \A i \in 1 .. g.m * g.k : r.a[i] = RowMajor(g.a, g.m, g.k)[i]
  BY <1>1, <1>2, <1>7
<1>13. \A i \in 1 .. g.k * g.n : r.b[i] = RowMajor(g.b, g.k, g.n)[i]
  BY <1>1, <1>2, <1>8
<1>14. g.c # None => r.c # None /\ \A i \in 1 .. g.m * g.n : r.c[i] = RowMajor(g.c, g.m, g.n)[i]
  BY <1>2, <1>9, <1>10
<1>15. QED
  BY <1>11, <1>12, <1>13, <1>14

-----------------------------------------------------------------------------
(* GEMM: the loops *)

\* The instance sums as the library does.
LEMMA SameSum == \A f : Gemm!SumFunction(f) = SumFunction(f)
BY Zenon DEF Gemm!SumFunction, Gemm!SumFunctionOnSet, Gemm!FoldFunctionOnSet,
             Gemm!MapThenFoldSet, SumFunction, SumFunctionOnSet, FoldFunctionOnSet, MapThenFoldSet

\* Every element of the output is alpha A B + beta C there.
LEMMA ElementIsProduct ==
  ASSUME NEW g \in Gemms, Encoded(g) # None, NEW r, r = Gemm!DecodeRequest(Request(g)),
         NEW i \in 1 .. g.m, NEW j \in 1 .. g.n
  PROVE  /\ (i - 1) * g.n + j \in 1 .. g.m * g.n
         /\ Gemm!Element(r, ((i - 1) * g.n + j) - 1) = ProductOf(g, i, j)
         /\ ProductOf(g, i, j) \in Int
<1>1. PICK m \in Nat, n \in Nat, k \in Nat, alpha \in Int, beta \in Int :
        m = g.m /\ n = g.n /\ k = g.k /\ alpha = g.alpha /\ beta = g.beta
  BY Dimensions
<1>2. PICK row \in 0 .. m - 1, column \in 0 .. n - 1 : row = i - 1 /\ column = j - 1
  BY <1>1
<1>3. PICK x : x = row * n + column
  OBVIOUS
<1>4. x \in 0 .. m * n - 1 /\ x \div n = row /\ x % n = column
  BY <1>3, PlaceOfElement
<1>5. x = ((i - 1) * g.n + j) - 1 /\ x + 1 = (i - 1) * g.n + j
  BY <1>1, <1>2, <1>3
<1> DEFINE f == [d \in 1 .. k |-> g.a[<<i, d>>] * g.b[<<d, j>>]]
           h == [depth \in 0 .. k - 1 |->
                   alpha * r.a[row * k + depth + 1] * r.b[(depth * n + column) + 1]]
<1>6. \A d \in 1 .. k : g.a[<<i, d>>] \in Int /\ g.b[<<d, j>>] \in Int
  BY <1>1, GemmsAreTyped
<1>7. \A d \in 1 .. k :
        r.a[row * k + (d - 1) + 1] = g.a[<<i, d>>] /\ r.b[((d - 1) * n + column) + 1] = g.b[<<d, j>>]
  <2> SUFFICES ASSUME NEW d \in 1 .. k
               PROVE  /\ r.a[row * k + (d - 1) + 1] = g.a[<<i, d>>]
                      /\ r.b[((d - 1) * n + column) + 1] = g.b[<<d, j>>]
    OBVIOUS
  <2>1. PICK depth \in 0 .. k - 1 : depth = d - 1
    OBVIOUS
  <2>2. row * k + depth \in 0 .. m * k - 1 /\ depth * n + column \in 0 .. k * n - 1
    BY RowIsInside
  <2>3. PICK y \in Nat, z \in Nat : y = row * k + depth + 1 /\ z = (depth * n + column) + 1
    BY <2>2
  <2>4. y \in 1 .. m * k /\ z \in 1 .. k * n
    BY <2>2, <2>3
  <2>5. r.a[y] = RowMajor(g.a, m, k)[y] /\ r.b[z] = RowMajor(g.b, k, n)[z]
    BY <1>1, <2>4, DecodedValues
  <2>6. y = (i - 1) * k + d /\ z = (d - 1) * n + j
    BY <1>2, <2>1, <2>3
  <2>7. /\ g.a \in [(1 .. m) \X (1 .. k) -> Int] /\ g.b \in [(1 .. k) \X (1 .. n) -> Int]
        /\ i \in 1 .. m /\ j \in 1 .. n
    BY <1>1, GemmsAreTyped
  <2>8. RowMajor(g.a, m, k)[(i - 1) * k + d] = g.a[<<i, d>>]
    BY <2>7, RowMajorIsSequence
  <2>9. RowMajor(g.b, k, n)[(d - 1) * n + j] = g.b[<<d, j>>]
    BY <2>7, RowMajorIsSequence
  <2>10. QED
    BY <2>1, <2>3, <2>5, <2>6, <2>8, <2>9
<1>8. Scaled(h, f, alpha, k)
  <2>1. \A d \in 1 .. k : f[d] \in Int /\ h[d - 1] = alpha * f[d]
    <3> SUFFICES ASSUME NEW d \in 1 .. k PROVE f[d] \in Int /\ h[d - 1] = alpha * f[d]
      OBVIOUS
    <3>1. PICK p \in Int, q \in Int : p = g.a[<<i, d>>] /\ q = g.b[<<d, j>>]
      BY <1>6
    <3>2. f[d] = p * q
      BY <3>1
    <3>3. h[d - 1] = alpha * p * q
      <4>1. PICK depth \in 0 .. k - 1 : depth = d - 1
        OBVIOUS
      <4>2. r.a[row * k + depth + 1] = p /\ r.b[(depth * n + column) + 1] = q
        BY <1>7, <3>1, <4>1
      <4>3. h[depth] = alpha * r.a[row * k + depth + 1] * r.b[(depth * n + column) + 1]
        OBVIOUS
      <4> HIDE DEF h
      <4>4. QED
        BY <4>1, <4>2, <4>3
    <3>4. alpha * p * q = alpha * (p * q) /\ p * q \in Int
      OBVIOUS
    <3>5. QED
      BY <3>2, <3>3, <3>4
  <2>2. \A depth \in 0 .. k - 1 : h[depth] \in Int
    <3> SUFFICES ASSUME NEW depth \in 0 .. k - 1 PROVE h[depth] \in Int
      OBVIOUS
    <3>1. PICK d \in 1 .. k : d = depth + 1 /\ depth = d - 1
      OBVIOUS
    <3>2. PICK p \in Int : p = f[d]
      BY <2>1
    <3>3. alpha * p \in Int
      OBVIOUS
    <3> HIDE DEF f, h
    <3>4. QED
      BY <2>1, <3>1, <3>2, <3>3
  <2>3. f \in [1 .. k -> Int] /\ h \in [0 .. k - 1 -> Int]
    BY <2>1, <2>2
  <2> HIDE DEF f, h
  <2>4. QED
    BY <2>1, <2>3 DEF Scaled
<1>9. SumFunction(f) \in Int /\ SumFunction(h) = alpha * SumFunction(f)
  <2> HIDE DEF f, h
  <2>1. QED
    BY <1>8, SumOfScaled
<1>10. ProductOf(g, i, j) =
         alpha * SumFunction(f) + (IF g.c = None THEN 0 ELSE beta * g.c[<<i, j>>])
  BY <1>1, Zenon DEF ProductOf
<1> DEFINE initial == IF beta # 0 /\ r.c # None THEN beta * r.c[x + 1] ELSE 0
<1>11. Gemm!Element(r, x) = IF alpha # 0 THEN initial + SumFunction(h) ELSE initial
  <2>1. /\ r.meta.m = m /\ r.meta.n = n /\ r.meta.k = k
        /\ r.meta.alpha = alpha /\ r.meta.beta = beta
    <3>1. r.meta = Meta(g)
      BY DecodedValues
    <3>2. QED
      BY <1>1, <3>1 DEF Meta
  <2> DEFINE terms == [depth \in 0 .. r.meta.k - 1 |->
                         r.meta.alpha * r.a[(x \div r.meta.n) * r.meta.k + depth + 1]
                                      * r.b[(depth * r.meta.n + (x % r.meta.n)) + 1]]
             start == IF r.meta.beta # 0 /\ r.c # None THEN r.meta.beta * r.c[x + 1] ELSE 0
  <2>2. Gemm!Element(r, x) =
          IF r.meta.alpha # 0 THEN start + Gemm!SumFunction(terms) ELSE start
    BY Zenon DEF Gemm!Element, Gemm!IndexOfB
  <2>3. terms = h
    BY <1>4, <2>1
  <2>4. start = initial
    BY <2>1
  <2> HIDE DEF terms, start, h, initial
  <2>5. QED
    BY <2>1, <2>2, <2>3, <2>4, SameSum
<1>12. /\ initial = IF g.c = None THEN 0 ELSE beta * g.c[<<i, j>>]
       /\ initial \in Int
  <2>1. CASE g.c = None
    BY <2>1, DecodedValues
  <2>2. CASE g.c # None
    <3>1. r.c # None /\ r.c[x + 1] = RowMajor(g.c, m, n)[x + 1]
      BY <1>1, <1>4, <2>2, DecodedValues
    <3>2. RowMajor(g.c, m, n)[(i - 1) * n + j] = g.c[<<i, j>>] /\ g.c[<<i, j>>] \in Int
      <4>1. g.c \in [(1 .. m) \X (1 .. n) -> Int] /\ i \in 1 .. m /\ j \in 1 .. n
        BY <1>1, <2>2, GemmsAreTyped
      <4>2. QED
        BY <4>1, RowMajorIsSequence
    <3>3. PICK p \in Int : p = g.c[<<i, j>>] /\ p = r.c[x + 1]
      BY <1>1, <1>5, <3>1, <3>2
    <3>4. beta * p \in Int /\ (beta = 0 => beta * p = 0)
      OBVIOUS
    <3>5. QED
      BY <2>2, <3>1, <3>3, <3>4
  <2>3. QED
    BY <2>1, <2>2
<1>13. Gemm!Element(r, x) = ProductOf(g, i, j) /\ ProductOf(g, i, j) \in Int
  <2> HIDE DEF f, h, initial
  <2>1. PICK total \in Int, first \in Int : total = SumFunction(f) /\ first = initial
    BY <1>9, <1>12
  <2>2. PICK sum \in Int : sum = alpha * total /\ (alpha = 0 => sum = 0)
    OBVIOUS
  <2>3. SumFunction(h) = sum /\ ProductOf(g, i, j) = sum + first
    BY <1>9, <1>10, <1>12, <2>1, <2>2
  <2>4. QED
    BY <1>11, <2>1, <2>2, <2>3
<1>14. QED
  BY <1>1, <1>4, <1>5, <1>13

-----------------------------------------------------------------------------
(* GEMM: the answers *)

Within(g) ==
  /\ \A size \in {g.m * g.k, g.k * g.n, g.m * g.n} : size <= MaxElements
  /\ g.m * g.n * g.k <= MaxMultiplyAdds

LEMMA LimitsAreExact ==
  ASSUME NEW g \in Gemms, Encoded(g) # None
  PROVE  Gemm!WithinLimits(Meta(g)) = Within(g)
<1>1. PICK x \in Nat, y \in Nat, z \in Nat : x = g.m * g.k /\ y = g.k * g.n /\ z = g.m * g.n
  BY Dimensions
<1>2. PICK m \in Nat, n \in Nat, k \in Nat : m = g.m /\ n = g.n /\ k = g.k
  BY Dimensions
<1>3. MaxElements \in Nat /\ MaxMultiplyAdds \in Nat /\ U64Max \in Nat
  BY LimitsAreNumbers, WordsAreNumbers
<1>4. Gemm!Operations(Meta(g)) = m * n * k
  <2> DEFINE width == (U64Max + 1) * (U64Max + 1)
  <2>1. z <= U64Max /\ k <= U64Max
    BY <1>1, <1>2, Dimensions, RequestIsInspected
  <2>2. z * k \in Nat /\ z * k < width
    <3>1. z * k <= U64Max * k
      BY <1>3, <2>1
    <3>2. U64Max * k <= U64Max * U64Max
      BY <1>3, <2>1
    <3>3. U64Max * U64Max < width
      BY <1>3
    <3>4. z * k \in Nat /\ U64Max * k \in Nat /\ U64Max * U64Max \in Nat /\ width \in Nat
      BY <1>3
    <3> HIDE DEF width
    <3>5. QED
      BY <3>1, <3>2, <3>3, <3>4
  <2>3. Gemm!Operations(Meta(g)) = (m * n * k) % width
    BY <1>2 DEF Gemm!Operations, Meta
  <2>4. m * n * k = z * k
    BY <1>1, <1>2
  <2>5. width \in Nat \ {0}
    BY <1>3
  <2> HIDE DEF width
  <2>6. QED
    BY <2>2, <2>3, <2>4, <2>5
<1>5. Meta(g).a = x /\ Meta(g).b = y /\ Meta(g).c = z
  BY <1>1 DEF Meta
<1>6. Gemm!WithinLimits(Meta(g)) <=>
        {x, y, z} \subseteq 0 .. MaxElements /\ m * n * k <= MaxMultiplyAdds
  BY <1>4, <1>5 DEF Gemm!WithinLimits
<1>7. Within(g) <=>
        (\A size \in {x, y, z} : size <= MaxElements) /\ m * n * k <= MaxMultiplyAdds
  BY <1>1, <1>2 DEF Within
<1>8. QED
  BY <1>3, <1>6, <1>7 DEF Gemm!WithinLimits, Within

\* What the checks of both entry points say of what arrives from g's caller.
LEMMA ChecksSay ==
  ASSUME NEW g \in Gemms, Encoded(g) # None, NEW input, input = Damaged(Encoded(g), g.damage)
  PROVE  /\ g.damage = << >> => input = Request(g)
         /\ Gemm!Checks(input) =
              IF g.damage # << >> THEN "Protocol"
              ELSE IF Within(g) THEN "OK" ELSE "ResourceLimit"
<1>1. CASE g.damage # << >>
  <2>1. /\ {input.m, input.n, input.k, input.length} \subseteq 0 .. U64Max
        /\ ~HeaderIsConsistent(input)
    BY <1>1, DamageShows
  <2>2. {input.m, input.n, input.k, input.length} \subseteq Nat
    BY <2>1, WordsAreNumbers
  <2>3. Gemm!Inspect(input) = None
    BY <2>1, <2>2, HeaderIsInspected
  <2>4. QED
    BY <1>1, <2>3 DEF Gemm!Checks
<1>2. CASE g.damage = << >>
  <2>1. input = Request(g)
    <3>1. Encoded(g) = Request(g) /\ DOMAIN g.damage = {}
      BY <1>2, EncodedIsRequest
    <3>2. input = [f \in DOMAIN Request(g) |-> Request(g)[f]]
      BY <3>1, Zenon DEF Damaged
    <3>3. QED
      BY <3>2 DEF Request
  <2>2. Gemm!Inspect(input) = Meta(g) /\ Meta(g) # None
    BY <2>1, RequestIsInspected
  <2>3. QED
    BY <1>2, <2>1, <2>2, LimitsAreExact DEF Gemm!Checks
<1>3. QED
  BY <1>1, <1>2

\* The error of g, or "OK", and the length of its response.
Length(g) == 32 + 4 * (g.m * g.n)
Outcome(g) ==
  IF g.damage # << >> THEN "Protocol"
  ELSE IF ~Within(g) THEN "ResourceLimit"
  ELSE IF Length(g) > U64Max THEN "Protocol" ELSE "OK"

LEMMA LengthIsTold ==
  ASSUME NEW g \in Gemms, Encoded(g) # None, NEW input, input = Damaged(Encoded(g), g.damage)
  PROVE  Gemm!RequiredOutputLen(input) =
           [status |-> Outcome(g), output |-> IF Outcome(g) = "OK" THEN Length(g) ELSE None]
<1>1. Length(g) \in Nat /\ Length(g) # None /\ U64Max \in Nat
  BY Dimensions, WordsAreNumbers DEF Length
<1>2. CASE Gemm!Checks(input) # "OK"
  <2>1. Gemm!Checks(input) = Outcome(g)
    BY <1>2, ChecksSay DEF Outcome
  <2> HIDE DEF Outcome
  <2>2. QED
    BY <1>2, <2>1 DEF Gemm!RequiredOutputLen, Gemm!Answered
<1>3. CASE Gemm!Checks(input) = "OK"
  <2>1. input = Request(g) /\ g.damage = << >> /\ Within(g)
    BY <1>3, ChecksSay
  <2>2. Gemm!EncodedResponseLen(g.m, g.n) = IF Length(g) <= U64Max THEN Length(g) ELSE None
    BY Dimensions, RequestIsInspected, ResponseLength DEF Length
  <2>3. input.m = g.m /\ input.n = g.n
    BY <2>1 DEF Request
  <2> HIDE DEF Length, Within
  <2>4. QED
    BY <1>1, <1>3, <2>1, <2>2, <2>3 DEF Gemm!RequiredOutputLen, Gemm!Answered, Outcome
<1>4. QED
  BY <1>2, <1>3

\* What the loops compute for g, and the response that carries it.
Values(g) ==
  [i \in 1 .. Meta(g).c |-> Gemm!Element(Gemm!DecodeRequest(Request(g)), i - 1)]
Response(g) ==
  [length |-> Length(g), magic |-> Gemm!ResponseMagic, version |-> 1, header |-> 32,
   m |-> g.m, n |-> g.n, payload |-> Values(g)]

LEMMA ValuesAreProducts ==
  ASSUME NEW g \in Gemms, Encoded(g) # None
  PROVE  /\ Values(g) \in Seq(Int) /\ Len(Values(g)) = g.m * g.n
         /\ \A i \in 1 .. g.m, j \in 1 .. g.n :
              Values(g)[(i - 1) * g.n + j] = ProductOf(g, i, j)
<1>1. PICK m \in Nat, n \in Nat, z \in Nat : m = g.m /\ n = g.n /\ z = m * n
  BY Dimensions
<1>2. PICK r : r = Gemm!DecodeRequest(Request(g))
  OBVIOUS
<1>3. Values(g) = [i \in 1 .. z |-> Gemm!Element(r, i - 1)]
  BY <1>1, <1>2 DEF Values, Meta
<1>4. ASSUME NEW i \in 1 .. m, NEW j \in 1 .. n, NEW x, x = (i - 1) * n + j
      PROVE  x \in 1 .. z /\ Values(g)[x] = ProductOf(g, i, j) /\ Values(g)[x] \in Int
  <2>1. /\ x \in 1 .. z /\ Gemm!Element(r, x - 1) = ProductOf(g, i, j)
        /\ ProductOf(g, i, j) \in Int
    BY <1>1, <1>2, <1>4, ElementIsProduct
  <2>2. Values(g)[x] = Gemm!Element(r, x - 1)
    BY <1>3, <2>1
  <2>3. QED
    BY <2>1, <2>2
<1>5. ASSUME NEW x \in 1 .. z PROVE Values(g)[x] \in Int
  <2>1. PICK place \in Int : place = x - 1
    OBVIOUS
  <2>2. place \in 0 .. m * n - 1
    BY <1>1, <2>1
  <2>3. PICK row \in 0 .. m - 1, column \in 0 .. n - 1 : place = row * n + column
    BY <2>2, RowOfPlace
  <2>4. PICK i \in 1 .. m, j \in 1 .. n : i = row + 1 /\ j = column + 1
    OBVIOUS
  <2>5. x = (i - 1) * n + j
    BY <2>1, <2>3, <2>4
  <2>6. QED
    BY <1>4, <2>5
<1>6. Values(g) \in Seq(Int) /\ Len(Values(g)) = z
  <2>1. Values(g) \in [1 .. z -> Int]
    BY <1>3, <1>5
  <2> HIDE DEF Values
  <2>2. QED
    BY <2>1
<1>7. \A i \in 1 .. m, j \in 1 .. n : Values(g)[(i - 1) * n + j] = ProductOf(g, i, j)
  BY <1>4
<1>8. QED
  BY <1>1, <1>6, <1>7

\* The response is one, and its decoder gives what it carries.
LEMMA ResponseIsDecoded ==
  ASSUME NEW g \in Gemms, Encoded(g) # None, Length(g) <= U64Max
  PROVE  /\ Gemm!EncodeResponse(g.m, g.n, Values(g)) = Response(g) /\ Response(g) # None
         /\ Gemm!DecodeResponse(Response(g)) = [m |-> g.m, n |-> g.n, values |-> Values(g)]
<1>1. Length(g) \in Nat /\ Length(g) # None /\ Length(g) >= 32
  BY Dimensions, WordsAreNumbers DEF Length
<1>2. Gemm!EncodedResponseLen(g.m, g.n) = Length(g)
  BY Dimensions, RequestIsInspected, ResponseLength DEF Length
<1>3. Values(g) \in Seq(Int) /\ Len(Values(g)) = g.m * g.n
  BY ValuesAreProducts
<1> HIDE DEF Length, Values
<1>4. Gemm!EncodeResponse(g.m, g.n, Values(g)) = Response(g)
  BY <1>1, <1>2, <1>3
     DEF Gemm!EncodeResponse, Response, Gemm!Version, Gemm!ResponseHeaderLen
<1>5. Response(g) # None
  <2>1. Response(g) \in [length : Nat, magic : {Gemm!ResponseMagic}, version : Nat,
                         header : Nat, m : Nat, n : Nat, payload : Seq(Int)]
    BY <1>1, <1>3, Dimensions DEF Response
  <2>2. QED
    BY <2>1, NoneIsNoMessage
<1>6. Gemm!DecodeResponse(Response(g)) = [m |-> g.m, n |-> g.n, values |-> Values(g)]
  BY <1>1, <1>2 DEF Gemm!DecodeResponse, Response, Gemm!Version, Gemm!ResponseHeaderLen
<1>7. QED
  BY <1>4, <1>5, <1>6

LEMMA OracleSays ==
  ASSUME NEW g \in Gemms, Encoded(g) # None, NEW input, input = Damaged(Encoded(g), g.damage)
  PROVE  Gemm!ExecuteBytes(input) =
           [status |-> Outcome(g), output |-> IF Outcome(g) = "OK" THEN Response(g) ELSE None]
<1>1. Length(g) \in Nat /\ U64Max \in Nat
  BY Dimensions, WordsAreNumbers DEF Length
<1> DEFINE request == Gemm!DecodeRequest(input)
           values == [i \in 1 .. request.meta.c |-> Gemm!Element(request, i - 1)]
           result == IF Gemm!Checks(input) = "OK"
                     THEN Gemm!EncodeResponse(input.m, input.n, values) ELSE None
<1>2. Gemm!ExecuteBytes(input) = Gemm!Answered(input, result)
  BY Zenon DEF Gemm!ExecuteBytes
<1>3. CASE Gemm!Checks(input) # "OK"
  <2>1. Gemm!Checks(input) = Outcome(g)
    BY <1>3, ChecksSay DEF Outcome
  <2>2. result = None
    BY <1>3
  <2> HIDE DEF Outcome, result
  <2>3. QED
    BY <1>2, <1>3, <2>1, <2>2 DEF Gemm!Answered
<1>4. CASE Gemm!Checks(input) = "OK"
  <2>1. input = Request(g) /\ g.damage = << >> /\ Within(g)
    BY <1>4, ChecksSay
  <2>2. input.m = g.m /\ input.n = g.n
    BY <2>1 DEF Request
  <2>3. values = Values(g)
    <3>1. request.meta = Meta(g) /\ request = Gemm!DecodeRequest(Request(g))
      BY <2>1, DecodedValues
    <3> HIDE DEF request
    <3>2. QED
      BY <3>1 DEF Values
  <2>4. result = Gemm!EncodeResponse(g.m, g.n, Values(g))
    <3> HIDE DEF values
    <3>1. QED
      BY <1>4, <2>2, <2>3
  <2>5. CASE Length(g) <= U64Max
    <3>1. result = Response(g) /\ Response(g) # None
      BY <2>4, <2>5, ResponseIsDecoded
    <3>2. Outcome(g) = "OK"
      BY <1>1, <2>1, <2>5 DEF Outcome
    <3> HIDE DEF result, Outcome, Response
    <3>3. QED
      BY <1>2, <1>4, <3>1, <3>2 DEF Gemm!Answered
  <2>6. CASE ~(Length(g) <= U64Max)
    <3>1. Gemm!EncodedResponseLen(g.m, g.n) = None
      BY <2>6, Dimensions, RequestIsInspected, ResponseLength DEF Length
    <3>2. result = None
      <4> HIDE DEF result
      <4>1. QED
        BY <2>4, <3>1 DEF Gemm!EncodeResponse
    <3>3. Outcome(g) = "Protocol"
      BY <1>1, <2>1, <2>6 DEF Outcome
    <3> HIDE DEF result, Outcome
    <3>4. QED
      BY <1>2, <1>4, <3>2, <3>3 DEF Gemm!Answered
  <2>7. QED
    BY <2>5, <2>6
<1>5. QED
  BY <1>3, <1>4

\* The plugin gives what the oracle gives, in the plugin's words, unless the host finds
\* the output too large; it never lacks the capacity that it asked for.
LEMMA PluginSays ==
  ASSUME NEW g \in Gemms, Encoded(g) # None, NEW input, input = Damaged(Encoded(g), g.damage)
  PROVE  Gemm!ExecutePlugin(input) =
           IF Outcome(g) # "OK" THEN [status |-> Gemm!StatusOf(Outcome(g)), output |-> None]
           ELSE IF Length(g) > MaxOutputBytes THEN [status |-> "OutputTooLarge", output |-> None]
           ELSE [status |-> "OK", output |-> Response(g)]
<1>1. Outcome(g) \in {"OK", "Protocol", "ResourceLimit"} /\ Length(g) \in Nat
  BY Dimensions DEF Outcome, Length
<1>2. Gemm!RequiredOutputLen(input) =
        [status |-> Outcome(g), output |-> IF Outcome(g) = "OK" THEN Length(g) ELSE None]
  BY LengthIsTold
<1>3. Response(g).length = Length(g)
  BY DEF Response
<1>4. Gemm!ExecuteBytes(input) =
        [status |-> Outcome(g), output |-> IF Outcome(g) = "OK" THEN Response(g) ELSE None]
  BY OracleSays
<1> HIDE DEF Outcome, Length, Response
<1>5. Gemm!OutputSize(input) =
        [status |-> Gemm!StatusOf(Outcome(g)),
         output |-> IF Outcome(g) = "OK" THEN Length(g) ELSE None]
  BY <1>2 DEF Gemm!OutputSize
<1>6. Gemm!StatusOf(Outcome(g)) = "OK" <=> Outcome(g) = "OK"
  BY <1>1 DEF Gemm!StatusOf
<1>7. CASE Outcome(g) = "OK"
  <2>1. Gemm!Execute(input, Length(g)) = [status |-> "OK", output |-> Response(g)]
    <3>1. ~(Gemm!ExecuteBytes(input).output.length > Length(g))
      BY <1>1, <1>3, <1>4, <1>7
    <3>2. Gemm!ExecuteBytes(input) = [status |-> "OK", output |-> Response(g)]
      BY <1>4, <1>7
    <3> HIDE DEF Gemm!ExecuteBytes
    <3>3. Gemm!Execute(input, Length(g)) =
            [Gemm!ExecuteBytes(input) EXCEPT !.status = Gemm!StatusOf(@)]
      BY <3>1 DEF Gemm!Execute
    <3>4. Gemm!StatusOf("OK") = "OK"
      BY <1>6, <1>7
    <3>5. QED
      BY <3>2, <3>3, <3>4
  <2>2. QED
    BY <1>5, <1>6, <1>7, <2>1 DEF Gemm!ExecutePlugin
<1>8. CASE Outcome(g) # "OK"
  BY <1>5, <1>6, <1>8 DEF Gemm!ExecutePlugin
<1>9. QED
  BY <1>7, <1>8

\* The registries that callers ask, and when none of their operators serves g.
Registries == {<<"oracle", "plugin">>, <<"plugin", "oracle">>, << >>}
Unserved(g, operators) ==
  operators = << >> \/ g.request.kind # "Gemm" \/ g.request.zeroCopy

LEMMA SelectionSays ==
  ASSUME NEW g \in Gemms, NEW operators \in Registries,
         NEW chosen, chosen = Gemm!FirstCompatible(g.request, operators)
  PROVE  IF Unserved(g, operators) THEN chosen = None ELSE chosen \in {"oracle", "plugin"}
<1> DEFINE fitting == {i \in DOMAIN operators : Gemm!Compatible(g.request)}
           favoured == {i \in fitting : Gemm!OperatorCapabilities.backend = g.request.preferred}
           First(places) == operators[CHOOSE i \in places : \A j \in places : i <= j]
<1>1. chosen = IF favoured # {} THEN First(favoured)
               ELSE IF fitting # {} THEN First(fitting) ELSE None
  BY Zenon DEF Gemm!FirstCompatible
<1>2. Gemm!Compatible(g.request) <=> g.request.kind = "Gemm" /\ ~g.request.zeroCopy
  BY GemmsAreTyped DEF Gemm!Compatible, Gemm!OperatorCapabilities
<1>3. operators = << >> => DOMAIN operators = {}
  OBVIOUS
<1>4. CASE Unserved(g, operators)
  <2>1. fitting = {} /\ favoured = {}
    BY <1>2, <1>3, <1>4 DEF Unserved
  <2>2. QED
    BY <1>1, <1>4, <2>1
<1>5. CASE ~Unserved(g, operators)
  <2>1. operators \in {<<"oracle", "plugin">>, <<"plugin", "oracle">>}
    BY <1>5 DEF Unserved, Registries
  <2>2. DOMAIN operators = {1, 2} /\ \A i \in {1, 2} : operators[i] \in {"oracle", "plugin"}
    <3>1. CASE operators = <<"oracle", "plugin">>
      BY <3>1
    <3>2. CASE operators = <<"plugin", "oracle">>
      BY <3>2
    <3>3. QED
      BY <2>1, <3>1, <3>2
  <2>3. fitting = {1, 2}
    BY <1>2, <1>5, <2>2 DEF Unserved
  <2>4. ASSUME NEW places \in {{1, 2}, {1}, {2}} PROVE First(places) \in {"oracle", "plugin"}
    <3>1. \E i \in places : \A j \in places : i <= j
      BY <2>4
    <3>2. PICK least : least = CHOOSE i \in places : \A j \in places : i <= j
      OBVIOUS
    <3>3. least \in places
      BY <3>1, <3>2, Zenon
    <3>4. least \in {1, 2}
      BY <2>4, <3>3
    <3>5. QED
      BY <2>2, <3>2, <3>4
  <2>5. favoured \in {{}, {1, 2}, {1}, {2}}
    BY <2>3
  <2> HIDE DEF fitting, favoured, First
  <2>6. CASE favoured = {}
    <3>1. chosen = First({1, 2})
      BY <1>1, <2>3, <2>6
    <3>2. QED
      BY <1>5, <2>4, <3>1
  <2>7. CASE favoured # {}
    <3>1. chosen = First(favoured) /\ favoured \in {{1, 2}, {1}, {2}}
      BY <1>1, <2>5, <2>7
    <3>2. QED
      BY <1>5, <2>4, <3>1
  <2>8. QED
    BY <2>6, <2>7
<1>6. QED
  BY <1>4, <1>5

-----------------------------------------------------------------------------
(* GEMM: the invariant *)

\* A GEMM that was answered was asked of some registry.
GemmAsked ==
  asked # None /\ asked.kind = "gemm" =>
    \E g \in Gemms, operators \in Registries :
      /\ Encoded(g) # None
      /\ asked = [kind |-> "gemm", question |-> g, operators |-> operators,
                  answer |-> Gemm!ExecuteRegistered(g.request, operators,
                               Damaged(Encoded(g), g.damage))]

\* What a caller gets from a registry.
LEMMA RegistrySays ==
  ASSUME NEW g \in Gemms, Encoded(g) # None, NEW operators \in Registries, NEW answer,
         answer = Gemm!ExecuteRegistered(g.request, operators, Damaged(Encoded(g), g.damage))
  PROVE  CASE answer.status = "OK" ->
                ~Unserved(g, operators) /\ Outcome(g) = "OK" /\ answer.output = Response(g)
           [] answer.status = "OutputTooLarge" -> Length(g) > MaxOutputBytes
           [] answer.status \in {"Protocol", "INVALID_ARGUMENT"} -> Outcome(g) = "Protocol"
           [] answer.status \in {"ResourceLimit", "UNSUPPORTED"} -> Outcome(g) = "ResourceLimit"
           [] answer.status = "NoCompatibleOperator" -> Unserved(g, operators)
           [] OTHER -> FALSE
<1>1. PICK input, chosen :
        input = Damaged(Encoded(g), g.damage) /\ chosen = Gemm!FirstCompatible(g.request, operators)
  OBVIOUS
<1>2. IF Unserved(g, operators) THEN chosen = None ELSE chosen \in {"oracle", "plugin"}
  BY <1>1, SelectionSays
<1>3. None \notin {"oracle", "plugin"}
  BY NoneIsNoMessage DEF Gemm!Operators
<1>4. Outcome(g) \in {"OK", "Protocol", "ResourceLimit"}
  BY DEF Outcome
<1>5. Gemm!ExecuteBytes(input) =
        [status |-> Outcome(g), output |-> IF Outcome(g) = "OK" THEN Response(g) ELSE None]
  BY <1>1, OracleSays
<1>6. Gemm!ExecutePlugin(input) =
        IF Outcome(g) # "OK" THEN [status |-> Gemm!StatusOf(Outcome(g)), output |-> None]
        ELSE IF Length(g) > MaxOutputBytes THEN [status |-> "OutputTooLarge", output |-> None]
        ELSE [status |-> "OK", output |-> Response(g)]
  BY <1>1, PluginSays
<1> HIDE DEF Outcome, Length, Response, Unserved, Gemm!ExecuteBytes, Gemm!ExecutePlugin,
             Gemm!FirstCompatible
<1>7. answer = CASE chosen = None -> [status |-> "NoCompatibleOperator", output |-> None]
                 [] chosen = "oracle" -> Gemm!ExecuteBytes(input)
                 [] chosen = "plugin" -> Gemm!ExecutePlugin(input)
  BY <1>1 DEF Gemm!ExecuteRegistered
<1>8. CASE chosen = None
  <2>1. answer.status = "NoCompatibleOperator" /\ Unserved(g, operators)
    BY <1>2, <1>3, <1>7, <1>8
  <2>2. QED
    BY <2>1
<1>9. CASE chosen = "oracle"
  <2>1. answer = Gemm!ExecuteBytes(input) /\ ~Unserved(g, operators)
    BY <1>2, <1>3, <1>7, <1>9
  <2>2. QED
    BY <1>4, <1>5, <2>1
<1>10. CASE chosen = "plugin"
  <2>1. answer = Gemm!ExecutePlugin(input) /\ ~Unserved(g, operators)
    BY <1>2, <1>3, <1>7, <1>10
  <2>2. CASE Outcome(g) = "OK"
    <3>1. \/ answer.status = "OK" /\ answer.output = Response(g)
          \/ answer.status = "OutputTooLarge" /\ Length(g) > MaxOutputBytes
      BY <1>6, <2>1, <2>2
    <3>2. QED
      BY <2>1, <2>2, <3>1
  <2>3. CASE Outcome(g) # "OK"
    <3>1. answer.status = Gemm!StatusOf(Outcome(g))
      BY <1>6, <2>1, <2>3
    <3>2. \/ answer.status = "INVALID_ARGUMENT" /\ Outcome(g) = "Protocol"
          \/ answer.status = "UNSUPPORTED" /\ Outcome(g) = "ResourceLimit"
      BY <1>4, <2>3, <3>1 DEF Gemm!StatusOf
    <3>3. QED
      BY <3>2
  <2>4. QED
    BY <2>2, <2>3
<1>11. QED
  BY <1>2, <1>8, <1>9, <1>10

LEMMA AskedIsServed == GemmAsked => GemmIsServed
<1> SUFFICES ASSUME GemmAsked, asked # None, asked.kind = "gemm" PROVE GemmIsServed
  BY DEF GemmIsServed
<1>1. PICK g \in Gemms, operators \in Registries :
        /\ Encoded(g) # None
        /\ asked = [kind |-> "gemm", question |-> g, operators |-> operators,
                    answer |-> Gemm!ExecuteRegistered(g.request, operators,
                                 Damaged(Encoded(g), g.damage))]
  BY DEF GemmAsked
<1> DEFINE answer == asked.answer
<1>2. /\ asked.question = g /\ asked.operators = operators
      /\ answer = Gemm!ExecuteRegistered(g.request, operators, Damaged(Encoded(g), g.damage))
  BY <1>1
<1> HIDE DEF answer
<1>3. PICK decoded : decoded = Gemm!DecodeResponse(answer.output)
  OBVIOUS
<1>4. /\ Length(g) = 32 + 4 * g.m * g.n /\ Length(g) \in Nat
      /\ MaxOutputBytes \in Nat /\ U64Max \in Nat
  BY Dimensions, LimitsAreNumbers, WordsAreNumbers DEF Length
<1>5. /\ Outcome(g) = "OK" => g.damage = << >> /\ Within(g) /\ Length(g) <= U64Max
      /\ Outcome(g) = "Protocol" => g.damage # << >> \/ Length(g) > U64Max
      /\ Outcome(g) = "ResourceLimit" => g.damage = << >> /\ ~Within(g)
  BY <1>4 DEF Outcome
<1> DEFINE served ==
      /\ ~Unserved(g, operators) /\ g.damage = << >> /\ Within(g)
      /\ decoded.m = g.m /\ decoded.n = g.n
      /\ Len(decoded.values) = g.m * g.n
      /\ \A i \in 1 .. g.m, j \in 1 .. g.n :
           decoded.values[(i - 1) * g.n + j] = ProductOf(g, i, j)
<1>6. ASSUME answer.status = "OK" PROVE served
  <2>1. ~Unserved(g, operators) /\ Outcome(g) = "OK" /\ answer.output = Response(g)
    BY <1>1, <1>2, <1>6, RegistrySays
  <2>2. decoded = [m |-> g.m, n |-> g.n, values |-> Values(g)]
    BY <1>1, <1>3, <1>5, <2>1, ResponseIsDecoded
  <2> HIDE DEF Values, ProductOf, Within, Unserved
  <2>3. QED
    BY <1>1, <1>5, <2>1, <2>2, ValuesAreProducts
<1>7. (CASE answer.status = "OK" -> served
         [] answer.status = "OutputTooLarge" -> 32 + 4 * g.m * g.n > MaxOutputBytes
         [] answer.status \in {"Protocol", "INVALID_ARGUMENT"} ->
              g.damage # << >> \/ 32 + 4 * g.m * g.n > U64Max
         [] answer.status \in {"ResourceLimit", "UNSUPPORTED"} -> g.damage = << >> /\ ~Within(g)
         [] answer.status = "NoCompatibleOperator" -> Unserved(g, operators)
         [] OTHER -> FALSE)
  <2> HIDE DEF served, Outcome, Length, Within, Unserved, Response
  <2>1. CASE answer.status = "OK"
    BY <1>6, <2>1
  <2>2. CASE answer.status # "OK"
    BY <1>1, <1>2, <1>4, <1>5, <2>2, RegistrySays
  <2>3. QED
    BY <2>1, <2>2
<1>8. QED
  BY <1>2, <1>3, <1>7 DEF GemmIsServed, Within, Unserved, answer

\* The registry, the oracle, its plugin and the codec: whoever encodes a GEMM and has it
\* executed by crates/vrb-gemm-reference, directly or through the loader, decodes its
\* product, or is told the error that its request deserves.
THEOREM GemmsAreServed == SystemSpec => []GemmIsServed
<1>1. SystemInit => GemmAsked
  BY DEF SystemInit, GemmAsked
<1>2. GemmAsked /\ [SystemNext]_allVars => GemmAsked'
  <2> SUFFICES ASSUME GemmAsked, [SystemNext]_allVars PROVE GemmAsked'
    OBVIOUS
  <2>1. CASE UNCHANGED asked
    BY <2>1, Zenon DEF GemmAsked
  <2>2. CASE Forget
    BY <2>2 DEF Forget, GemmAsked
  <2>3. ASSUME NEW g \in Gemms, NEW candidates \in Registries, AskGemm(g, candidates)
        PROVE  GemmAsked'
    BY <2>3, Zenon DEF AskGemm, GemmAsked
  <2>4. ASSUME NEW q \in Attentions, AskAttention(q) PROVE GemmAsked'
    <3>1. asked'.kind = "attention"
      BY <2>4 DEF AskAttention
    <3>2. QED
      BY <3>1 DEF GemmAsked
  <2>5. QED
    BY <2>1, <2>2, <2>3, <2>4 DEF SystemNext, allVars, Registries
<1>3. QED
  BY <1>1, <1>2, AskedIsServed, PTL DEF SystemSpec

=============================================================================
