------------------------- MODULE SharedOperatorHost -------------------------
(***************************************************************************)
(* The life of the plugins that crates/vrb-shared-operator-loader loads.   *)
(* Each load_with_policy makes one LoadedSharedPluginState: the plugin's   *)
(* callbacks behind a mutex, and the dynamic library.  Operators, the      *)
(* library value, registries and callers share it by Arc; the thread that  *)
(* drops the last Arc runs Drop, which calls shutdown and then unloads.    *)
(*                                                                         *)
(* Threads call operators, clone and drop references and load plugins in   *)
(* any order.  A plugin callback takes time: it begins and it returns.     *)
(***************************************************************************)
EXTENDS Integers, FiniteSets

CONSTANTS
  Threads,
  Loads,      \* the calls of load_with_policy
  Silent,     \* the loads of plugins whose descriptor has no shutdown callback
  ImageOf,    \* load -> the shared library (DLL) that its path names
  Library,    \* the reference kept by a LoadedSharedOperatorLibrary value
  Registry,   \* the reference kept by a SharedOperatorRegistry
  None

ASSUME SilentLoads == Silent \subseteq Loads
ASSUME HoldersDiffer ==
  /\ Library # Registry
  /\ {Library, Registry} \cap Threads = {}
  /\ None \notin Threads \cup Loads \cup {Library, Registry}

Holders == Threads \cup {Library, Registry}

VARIABLES
  stage,      \* load -> unused, loading, live, shutting, closed, or failed
  refs,       \* load -> who holds an Arc of its state
  owner,      \* load -> the thread inside its callbacks mutex, or None
  poisoned,   \* load -> its mutex is poisoned
  shutdowns,  \* load -> calls of its shutdown callback that returned
  at,         \* thread -> what it is doing
  on,         \* thread -> the load it is doing it to, or None
  via         \* thread -> the reference its call goes through, or None

perLoad   == <<stage, refs, owner, poisoned, shutdowns>>
perThread == <<at, on, via>>
vars == <<perLoad, perThread>>

-----------------------------------------------------------------------------
(* Helpers *)

Idle(t) == at[t] = "idle"

\* The thread is in a call of execute_plugin.
Calling(t) == at[t] \in {"preparing", "waiting", "executing"}

\* The thread runs code of load l's image.
Inside(t, l) == on[t] = l /\ at[t] \in {"querying", "executing", "shutting"}

Go(t, what, l, r) ==
  /\ at' = [at EXCEPT ![t] = what]
  /\ on' = [on EXCEPT ![t] = l]
  /\ via' = [via EXCEPT ![t] = r]

GoIdle(t) == Go(t, "idle", None, None)

\* References that thread t can use: the shared ones and its own.
Reachable(t, l) == refs[l] \cap {Library, Registry, t}

\* A reference is not dropped while a call borrows it.
Borrowed(l, r) == \E t \in Threads : Calling(t) /\ on[t] = l /\ via[t] = r

\* Mutant: operators do not keep the plugin state, the library value does.
LibraryGone(rest) == Library \notin rest

\* The state is dropped with its last Arc.
LastDropped(rest) == rest = {}

LockFree(l) == owner[l] = None

\* Mutant: the guard is kept.
KeepLock(t, l) == owner' = owner

Unlock(t, l) == owner' = [owner EXCEPT ![l] = None]

\* Mutant: the library is dropped before shutdown is called.
UnloadedFirst == "closed"

\* Drop::drop runs with `_library` still held.
DuringShutdown == "shutting"

-----------------------------------------------------------------------------
(* Loading *)

Init ==
  /\ stage = [l \in Loads |-> "unused"]
  /\ refs = [l \in Loads |-> {}]
  /\ owner = [l \in Loads |-> None]
  /\ poisoned = [l \in Loads |-> FALSE]
  /\ shutdowns = [l \in Loads |-> 0]
  /\ at = [t \in Threads |-> "idle"]
  /\ on = [t \in Threads |-> None]
  /\ via = [t \in Threads |-> None]

\* Library::new; the entry point and query_operator then run unlocked.
BeginLoad(t, l) ==
  /\ Idle(t) /\ stage[l] = "unused"
  /\ stage' = [stage EXCEPT ![l] = "loading"]
  /\ Go(t, "querying", l, None)
  /\ UNCHANGED <<refs, owner, poisoned, shutdowns>>

\* Any error drops the library; there is no state yet, so no shutdown.
LoadFails(t) ==
  /\ at[t] = "querying"
  /\ stage' = [stage EXCEPT ![on[t]] = "failed"]
  /\ GoIdle(t)
  /\ UNCHANGED <<refs, owner, poisoned, shutdowns>>

LoadSucceeds(t) ==
  /\ at[t] = "querying"
  /\ stage' = [stage EXCEPT ![on[t]] = "live"]
  /\ refs' = [refs EXCEPT ![on[t]] = {Library}]
  /\ GoIdle(t)
  /\ UNCHANGED <<owner, poisoned, shutdowns>>

-----------------------------------------------------------------------------
(* References *)

\* register_into clones the operators' Arcs into a registry.
Register(t, l) ==
  /\ Idle(t) /\ Library \in refs[l]
  /\ refs' = [refs EXCEPT ![l] = @ \cup {Registry}]
  /\ UNCHANGED <<stage, owner, poisoned, shutdowns, perThread>>

CloneArc(t, l) ==
  /\ Idle(t) /\ refs[l] # {}
  /\ refs' = [refs EXCEPT ![l] = @ \cup {t}]
  /\ UNCHANGED <<stage, owner, poisoned, shutdowns, perThread>>

\* Drop for LoadedSharedPluginState: nothing is called when there is no shutdown
\* callback or the mutex is poisoned, and the library goes.
CloseQuietly(l) ==
  /\ stage' = [stage EXCEPT ![l] = "closed"]
  /\ UNCHANGED <<owner, perThread>>

BeginShutdown(t, l) ==
  /\ stage' = [stage EXCEPT ![l] = DuringShutdown]
  /\ owner' = [owner EXCEPT ![l] = t]
  /\ Go(t, "shutting", l, None)

Destroy(t, l) ==
  IF l \in Silent \/ poisoned[l] THEN CloseQuietly(l) ELSE BeginShutdown(t, l)

DropReference(t, l, r) ==
  /\ Idle(t) /\ r \in Reachable(t, l) /\ ~Borrowed(l, r)
  /\ LET rest == refs[l] \ {r} IN
     /\ refs' = [refs EXCEPT ![l] = rest]
     /\ IF LastDropped(rest) THEN Destroy(t, l) ELSE UNCHANGED <<stage, owner, perThread>>
  /\ UNCHANGED <<poisoned, shutdowns>>

\* shutdown returns; the guard and then the library are dropped.
ShutdownReturns(t) ==
  /\ at[t] = "shutting"
  /\ shutdowns' = [shutdowns EXCEPT ![on[t]] = @ + 1]
  /\ stage' = [stage EXCEPT ![on[t]] = "closed"]
  /\ Unlock(t, on[t])
  /\ GoIdle(t)
  /\ UNCHANGED <<refs, poisoned>>

-----------------------------------------------------------------------------
(* Calls of execute_plugin *)

\* Mutant: the mutex is taken before the invocation is checked and copied.
BeginCallLocked(t, l, r) ==
  /\ Idle(t) /\ r \in Reachable(t, l) /\ LockFree(l)
  /\ owner' = [owner EXCEPT ![l] = t]
  /\ Go(t, "preparing", l, r)
  /\ UNCHANGED <<stage, refs, poisoned, shutdowns>>

BeginCall(t, l, r) ==
  /\ Idle(t) /\ r \in Reachable(t, l)
  /\ Go(t, "preparing", l, r)
  /\ UNCHANGED perLoad

\* The invocation is invalid or over a limit of the policy.
Refused(t) ==
  /\ at[t] = "preparing"
  /\ GoIdle(t)
  /\ UNCHANGED perLoad

\* max_receipt_bytes is more than a Vec can hold: vec! panics.  A panic poisons a
\* mutex whose guard the thread holds.
ReceiptPanics(t) ==
  /\ at[t] = "preparing"
  /\ poisoned' = [l \in Loads |-> poisoned[l] \/ owner[l] = t]
  /\ owner' = [l \in Loads |-> IF owner[l] = t THEN None ELSE owner[l]]
  /\ GoIdle(t)
  /\ UNCHANGED <<stage, refs, shutdowns>>

Prepared(t) ==
  /\ at[t] = "preparing"
  /\ Go(t, "waiting", on[t], via[t])
  /\ UNCHANGED perLoad

\* A poisoned mutex is an error of the call.
Execute(t) ==
  /\ at[t] = "waiting" /\ LockFree(on[t])
  /\ IF poisoned[on[t]]
     THEN GoIdle(t) /\ UNCHANGED owner
     ELSE /\ owner' = [owner EXCEPT ![on[t]] = t]
          /\ Go(t, "executing", on[t], via[t])
  /\ UNCHANGED <<stage, refs, poisoned, shutdowns>>

\* Whatever the status and the receipt, the guard is dropped.
ExecuteReturns(t) ==
  /\ at[t] = "executing"
  /\ Unlock(t, on[t])
  /\ GoIdle(t)
  /\ UNCHANGED <<stage, refs, poisoned, shutdowns>>

Next ==
  \E t \in Threads :
    \/ \E l \in Loads :
         \/ BeginLoad(t, l)
         \/ Register(t, l) \/ CloneArc(t, l)
         \/ \E r \in Holders : DropReference(t, l, r) \/ BeginCall(t, l, r)
    \/ LoadFails(t) \/ LoadSucceeds(t)
    \/ ShutdownReturns(t)
    \/ Refused(t) \/ ReceiptPanics(t) \/ Prepared(t)
    \/ Execute(t) \/ ExecuteReturns(t)

Spec == Init /\ [][Next]_vars

\* Plugin callbacks return and running threads keep running.  A thread blocked on
\* a free mutex is woken, but std::sync::Mutex does not say in which order.
Fairness ==
  \A t \in Threads :
    /\ WF_vars(Prepared(t))
    /\ WF_vars(Execute(t))
    /\ WF_vars(ExecuteReturns(t))
    /\ WF_vars(ShutdownReturns(t))

FairSpec == Spec /\ Fairness

-----------------------------------------------------------------------------
(* Properties *)

Stages == {"unused", "loading", "live", "shutting", "closed", "failed"}
Activities == {"idle", "querying", "preparing", "waiting", "executing", "shutting"}

\* The types of the plugin states and of the threads.
TypeOK ==
  /\ stage \in [Loads -> Stages]
  /\ refs \in [Loads -> SUBSET Holders]
  /\ owner \in [Loads -> Threads \cup {None}]
  /\ poisoned \in [Loads -> BOOLEAN]
  /\ shutdowns \in [Loads -> 0 .. 1]
  /\ at \in [Threads -> Activities]
  /\ on \in [Threads -> Loads \cup {None}]
  /\ via \in [Threads -> Holders \cup {None}]

\* ARCHITECTURE.md, host-byte boundary, "keep the dynamic library loaded until the
\* optional shutdown callback completes": no thread is ever inside a callback of a
\* plugin whose library has been unloaded, whoever drops which reference when.
CodeStaysLoaded ==
  \A t \in Threads, l \in Loads :
    Inside(t, l) => stage[l] \in {"loading", "live", "shutting"}

\* The callbacks of one load (execute and shutdown) never overlap.
CallbacksSerialized ==
  \A l \in Loads, t, u \in Threads :
    /\ on[t] = l /\ at[t] \in {"executing", "shutting"}
    /\ on[u] = l /\ at[u] \in {"executing", "shutting"}
    => t = u

\* Every load that came up and whose plugin has a shutdown callback is shut down
\* exactly once by the time it is unloaded: no legal use of the API, not even a
\* call that panics while it is prepared, poisons the mutex and skips shutdown.
ShutDownExactlyOnce ==
  \A l \in Loads \ Silent :
    shutdowns[l] = IF stage[l] = "closed" THEN 1 ELSE 0

\* shutdown is the last callback: once it has begun no call of that load is in
\* progress, and none begins.
ShutdownIsLast ==
  \A l \in Loads : stage[l] \in {"shutting", "closed"} =>
    \A t \in Threads : on[t] = l => at[t] = "shutting"

\* A call waiting for the plugin mutex is not left with a free mutex: again and
\* again some call of that load gets in.
LockIsPassedOn ==
  \A l \in Loads :
    (\E t \in Threads : at[t] = "waiting" /\ on[t] = l)
      ~> (\E t \in Threads : at[t] = "executing" /\ on[t] = l)

\* The comment above the call (lib.rs:276-278) says that callbacks sharing plugin
\* state are serialized by the mutex.  Two loads of one library share its
\* descriptor's user_data, and each has a mutex of its own.
SharedStateSerialized ==
  \A t, u \in Threads :
    /\ at[t] = "executing" /\ at[u] = "executing"
    /\ ImageOf[on[t]] = ImageOf[on[u]]
    => t = u

=============================================================================
