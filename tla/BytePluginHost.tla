--------------------------- MODULE BytePluginHost ---------------------------
(***************************************************************************)
(* The plugins that exchange host bytes: operator libraries                *)
(* (crates/vrb-operator-loader) and backend plugins (crates/vrb-backends,  *)
(* plugin.rs).  They live and die like the plugins of SharedOperatorHost,  *)
(* whose actions are used here, but their calls take the mutex at once.    *)
(* An operator library's execute_plugin then asks for the output's size,   *)
(* allocates it and executes, all in one critical section: what panics in  *)
(* there poisons the mutex.                                                *)
(***************************************************************************)
EXTENDS SharedOperatorHost

CONSTANT BackendPlugins  \* the loads of backend plugins; the others load operators

ASSUME BackendsAreLoads == BackendPlugins \subseteq Loads

VARIABLES
  phase,     \* thread -> where it is while at[t] = "executing": size, allocate, execute
  memory,    \* image -> the plugin's own state, as a count modulo 2 of its changes
  sizedFor   \* thread -> the plugin state for which output_size gave the capacity

hostVars == <<vars, phase, memory, sizedFor>>

Images == {ImageOf[l] : l \in Loads}
Memory(t) == memory[ImageOf[on[t]]]

\* Neither the lifetime of a plugin nor a caller outside the critical section
\* changes what is in it.
Outside == UNCHANGED <<phase, memory, sizedFor>>

InPhase(t, p) == at[t] = "executing" /\ phase[t] = p

Move(t, p) == phase' = [phase EXCEPT ![t] = p]

HostInit ==
  /\ Init
  /\ phase = [t \in Threads |-> None]
  /\ memory = [i \in Images |-> 0]
  /\ sizedFor = [t \in Threads |-> None]

-----------------------------------------------------------------------------
(* Lifetimes *)

\* LoadedOperatorLibrary::load_with_policy: entry and query_operator run unlocked, any
\* error drops the library without shutdown.
LoadOperators(t, l) ==
  /\ l \notin BackendPlugins
  /\ BeginLoad(t, l) \/ (on[t] = l /\ (LoadFails(t) \/ LoadSucceeds(t)))
  /\ Outside

\* DynamicPluginBackend::load; only the entry runs.
LoadBackend(t, l) ==
  /\ l \in BackendPlugins
  /\ BeginLoad(t, l) \/ (on[t] = l /\ (LoadFails(t) \/ LoadSucceeds(t)))
  /\ Outside

\* Arcs reach registries (register_into, RuntimeBuilder::backend) and callers.
Share(t, l) == (Register(t, l) \/ CloneArc(t, l)) /\ Outside

\* The last Arc's drop calls shutdown under the mutex, unless it is poisoned.
Release(t, l) ==
  /\ (\E r \in Holders : DropReference(t, l, r)) \/ (on[t] = l /\ ShutdownReturns(t))
  /\ Outside

-----------------------------------------------------------------------------
(* Calls *)

\* execute_plugin, execute_raw and probe_plugin begin with lock().
Call(t, l, r) ==
  /\ Idle(t) /\ r \in Reachable(t, l)
  /\ Go(t, "waiting", l, r)
  /\ UNCHANGED perLoad /\ Outside

\* Mutant: a poisoned mutex is entered all the same (PoisonError::into_inner).
EnterAnyway(t) ==
  /\ at[t] = "waiting" /\ LockFree(on[t])
  /\ owner' = [owner EXCEPT ![on[t]] = t]
  /\ Go(t, "executing", on[t], via[t])
  /\ UNCHANGED <<stage, refs, poisoned, shutdowns>>

\* A poisoned mutex is the call's error.
EnterUnlessPoisoned(t) == Execute(t)

Enter(t) ==
  /\ EnterUnlessPoisoned(t)
  /\ Move(t, IF at'[t] = "idle" THEN None
             ELSE IF on[t] \in BackendPlugins THEN "execute" ELSE "size")
  /\ UNCHANGED <<memory, sizedFor>>

\* output_size reports an error, or more than max_output_bytes.
SizeRefused(t) ==
  /\ InPhase(t, "size") /\ ExecuteReturns(t) /\ Move(t, None)
  /\ UNCHANGED <<memory, sizedFor>>

\* Mutant: the guard lives for one callback only.
GuardPerCallback(t) == Unlock(t, on[t])

\* One guard for both callbacks.
GuardKept(t) == UNCHANGED owner

SizeAnswered(t) ==
  /\ InPhase(t, "size") /\ Move(t, "allocate")
  /\ sizedFor' = [sizedFor EXCEPT ![t] = Memory(t)]
  /\ GuardKept(t)
  /\ UNCHANGED <<stage, refs, poisoned, shutdowns, perThread, memory>>

\* The answer is within max_output_bytes but more than a Vec can hold: vec! panics.
OutputPanics(t) ==
  /\ InPhase(t, "allocate")
  /\ poisoned' = [poisoned EXCEPT ![on[t]] = TRUE]
  /\ Unlock(t, on[t]) /\ GoIdle(t)
  /\ Move(t, None) /\ sizedFor' = [sizedFor EXCEPT ![t] = None]
  /\ UNCHANGED <<stage, refs, shutdowns, memory>>

OutputAllocated(t) ==
  /\ InPhase(t, "allocate") /\ Move(t, "execute")
  /\ UNCHANGED <<vars, memory, sizedFor>>

\* execute, or a backend's execute or probe, returns, with whatever status; it may have
\* changed what the plugin keeps.  A backend without execute returns at once.
CallReturns(t) ==
  /\ InPhase(t, "execute") /\ ExecuteReturns(t)
  /\ memory' \in {memory, [memory EXCEPT ![ImageOf[on[t]]] = 1 - @]}
  /\ Move(t, None) /\ sizedFor' = [sizedFor EXCEPT ![t] = None]

HostNext ==
  \E t \in Threads :
    \/ \E l \in Loads :
         \/ LoadOperators(t, l) \/ LoadBackend(t, l)
         \/ Share(t, l) \/ Release(t, l)
         \/ \E r \in Holders : Call(t, l, r)
    \/ Enter(t)
    \/ SizeRefused(t) \/ SizeAnswered(t)
    \/ OutputPanics(t) \/ OutputAllocated(t)
    \/ CallReturns(t)

HostSpec == HostInit /\ [][HostNext]_hostVars

-----------------------------------------------------------------------------
(* Properties *)

\* The output that execute gets has the size the plugin asked for in the state it now
\* is in: no other call came between the two callbacks.  A second load of the library
\* has a mutex of its own (SharedStateSerialized), so the library is loaded once.
SizeIsCurrent ==
  \A t \in Threads :
    InPhase(t, "execute") /\ on[t] \notin BackendPlugins
      /\ (\A l \in Loads : ImageOf[l] = ImageOf[on[t]] => l = on[t])
    => sizedFor[t] = Memory(t)

\* A panic leaves the plugin between two callbacks; nothing runs in it any more, of the
\* calls that wait for the mutex or of later ones (OperatorPluginExecutionError::Poisoned).
PanicIsFinal ==
  \A l \in Loads : poisoned[l] =>
    \A t \in Threads : on[t] = l => at[t] \notin {"executing", "shutting"}

\* When the library is unloaded its shutdown has run exactly once, or the mutex was
\* poisoned and it has not run at all: nothing else loses or repeats it.  Backend
\* plugins never lose it: no host code that can panic runs under their mutex.
OnlyPanicsSkipShutdown ==
  \A l \in Loads \ Silent :
    /\ poisoned[l] => l \notin BackendPlugins
    /\ shutdowns[l] = IF stage[l] = "closed" /\ ~poisoned[l] THEN 1 ELSE 0

=============================================================================
