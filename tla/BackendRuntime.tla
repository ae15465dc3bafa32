--------------------------- MODULE BackendRuntime ---------------------------
(***************************************************************************)
(* crates/vrb-core: the Runtime that an application builds from backends   *)
(* and measurements, and its route, which probes one backend after the     *)
(* other and then selects.  Devices come and go meanwhile.                 *)
(***************************************************************************)
EXTENDS Routing

CONSTANT MaxChanges  \* bound: devices that come or go during one route

VARIABLES
  runtime,  \* [built, backends, table] of a RuntimeBuilder or Runtime, or None
  up,       \* the backends whose device is there; looked at while there is a runtime
  route,    \* the call of route: [request, left, found, done, answer], or None
  \* History of the call of route
  steady,   \* the backends that were up all the time, and answered when they were probed
  seen,     \* those that were up at some time
  changes   \* devices that came or went

runtimeVars == <<runtime, up, route, steady, seen, changes>>

RuntimeInit ==
  /\ runtime = None /\ route = None /\ up = {}
  /\ steady = {} /\ seen = {} /\ changes = 0

\* RuntimeBuilder::new and performance_table: the table is copied once.
NewBuilder(table) ==
  /\ runtime = None
  /\ runtime' = [built |-> FALSE, backends |-> {}, table |-> table]
  /\ up' \in SUBSET Backends
  /\ UNCHANGED <<route, steady, seen, changes>>

NoRuntime == runtime' = None /\ up' = {}

\* register: a second backend of one id is an error, and backend(self, ..)? has then
\* consumed the builder.
AddBackend(b) ==
  /\ runtime # None /\ ~runtime.built
  /\ IF b \in runtime.backends THEN NoRuntime
     ELSE runtime' = [runtime EXCEPT !.backends = @ \cup {b}] /\ UNCHANGED up
  /\ UNCHANGED <<route, steady, seen, changes>>

Build ==
  /\ runtime # None /\ ~runtime.built
  /\ runtime' = [runtime EXCEPT !.built = TRUE]
  /\ UNCHANGED <<up, route, steady, seen, changes>>

BeginRoute(request) ==
  /\ runtime # None /\ runtime.built /\ route = None
  /\ route' = [request |-> request, left |-> runtime.backends, found |-> {},
               done |-> FALSE, answer |-> None]
  /\ steady' = up \cap runtime.backends /\ seen' = up \cap runtime.backends
  /\ UNCHANGED <<runtime, up, changes>>

\* Mutant: what an error leaves is not marked unavailable.
KeptOnError(b, answers) == IF b \in up \/ ~answers THEN {b} ELSE {}

\* A probe says whether there is a device; an error makes the backend unavailable.
FoundBy(b, answers) == IF b \in up /\ answers THEN {b} ELSE {}

\* BackendRegistry::probes goes through the map in the order of its keys.
ProbeNext(answers) ==
  /\ route # None /\ route.left # {}
  /\ LET b == CHOOSE x \in route.left : \A y \in route.left : x <= y IN
     /\ route' = [route EXCEPT !.left = @ \ {b}, !.found = @ \cup FoundBy(b, answers)]
     /\ steady' = IF answers THEN steady ELSE steady \ {b}
  /\ UNCHANGED <<runtime, up, seen, changes>>

SelectFound ==
  /\ route # None /\ route.left = {} /\ ~route.done
  /\ route' = [route EXCEPT !.done = TRUE, !.answer = Route(route.request, route.found, runtime.table)]
  /\ UNCHANGED <<runtime, up, steady, seen, changes>>

\* The caller has its answer; it may keep the runtime.
RouteReturns ==
  /\ route # None /\ route.done
  /\ route' = None /\ changes' = 0 /\ steady' = {} /\ seen' = {}
  /\ UNCHANGED <<runtime, up>>

DropRuntime ==
  /\ runtime # None /\ route = None
  /\ NoRuntime
  /\ UNCHANGED <<route, steady, seen, changes>>

\* Only what happens during a route matters to it.
DeviceComesOrGoes(b) ==
  /\ route # None /\ changes < MaxChanges
  /\ up' = IF b \in up THEN up \ {b} ELSE up \cup {b}
  /\ steady' = steady \ {b}
  /\ seen' = seen \cup ({b} \cap runtime.backends)
  /\ changes' = changes + 1
  /\ UNCHANGED <<runtime, route>>

RuntimeNext(requests) ==
  \/ \E b \in Backends : AddBackend(b) \/ DeviceComesOrGoes(b)
  \/ Build \/ DropRuntime
  \/ \E request \in requests : BeginRoute(request)
  \/ \E answers \in BOOLEAN : ProbeNext(answers)
  \/ SelectFound \/ RouteReturns

-----------------------------------------------------------------------------
(* Properties *)

\* A route is no snapshot: a backend may go before the next is probed, and be back.  Still
\* its answer is a backend of the runtime that was up and can do what is asked, and no
\* backend that was up all the time would have been faster by the measurements; it finds
\* none only if no compatible backend was up all the time.  What the caller holds when it
\* asks for the backend may be gone again: that is all that route can promise.
RouteWasRight ==
  route # None /\ route.done =>
    LET request == route.request
        able == {b \in steady : Supports(b, request)}
        Us(b) == runtime.table[b][request.operation]
    IN IF route.answer = None THEN able = {}
       ELSE /\ route.answer \in seen /\ Supports(route.answer, request)
            /\ \A b \in able \ {route.answer} :
                 \/ /\ Us(route.answer) # None
                    /\ Us(b) # None =>
                         \/ Us(route.answer) < Us(b)
                         \/ Us(route.answer) = Us(b) /\ route.answer < b
                 \/ Us(route.answer) = None /\ Us(b) = None /\ Rank[route.answer] <= Rank[b]

=============================================================================
