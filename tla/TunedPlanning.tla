---------------------------- MODULE TunedPlanning ----------------------------
(***************************************************************************)
(* From measurements to decisions: a process projects its autotune         *)
(* database onto a performance table, and routes a request or plans a      *)
(* chain with it, while others record, save, load and crash.               *)
(***************************************************************************)
EXTENDS AutotuneStore, ExecutionPlan, BackendRuntime

CONSTANTS
  Here,       \* the context of the running system
  Workloads   \* [chain, available]: requests, and the backends that probes find

ASSUME WorkloadsAreTyped ==
  \A w \in Workloads :
    /\ w.chain \in Seq([operation : Operations, needs : SUBSET STRING]) /\ w.chain # << >>
    /\ w.available \subseteq Backends

VARIABLE decision  \* the last plan, with what it was asked, or None

vars == <<store, decision, runtimeVars>>

-----------------------------------------------------------------------------

\* AutotuneDatabase::performance_table_for.
PerformanceTableFor(database, context) ==
  [b \in Backends |-> [o \in Operations |->
     LET key == [context |-> context, backend |-> b, operation |-> o]
         positions == {i \in DOMAIN database : database[i].key = key}
     IN IF positions = {} THEN None ELSE database[LastOf(positions)].us]]

Decision(s, w) ==
  LET table == PerformanceTableFor(db[s], Here) IN
  [by |-> s, chain |-> w.chain, available |-> w.available,
   plan |-> Plan(w.chain, w.available, table),
   routes |-> [i \in DOMAIN w.chain |-> Route(w.chain[i], w.available, table)]]

\* A decision reads the decider's memory only: deciding while nobody is in save, with
\* nothing else going on, is deciding at any time.
Decide(s) ==
  /\ decision = None /\ \A u \in Savers : doing[u] = "idle"
  /\ \E w \in Workloads : decision' = Decision(s, w)
  /\ UNCHANGED <<store, runtimeVars>>

TunedInit == Init /\ RuntimeInit /\ decision = None

\* The decider has used its decision.
Forget == decision # None /\ decision' = None /\ UNCHANGED <<store, runtimeVars>>

\* An application starts a runtime with what it measured, or with no table.  A runtime
\* copies the table: again nothing else need go on.  Bound: while the file is as it was found.
StartRuntime(s) ==
  /\ decision = None /\ \A u \in Savers : doing[u] = "idle"
  /\ \A u \in Savers \ {s} : db[u] = << >>
  /\ ~spoiled /\ file \in Earlier \cup {NoFile}
  /\ \A p \in Processes : temporary[p] = NoFile
  /\ \E table \in {EmptyTable, PerformanceTableFor(db[s], Here)} : NewBuilder(table)
  /\ UNCHANGED <<store, decision>>

RequestsAsked == {w.chain[1] : w \in Workloads}

Next ==
  \/ decision = None /\ runtime = None /\ StoreNext /\ UNCHANGED <<decision, runtimeVars>>
  \/ runtime = None /\ \E s \in Savers : Decide(s)
  \/ Forget
  \/ \E s \in Savers : StartRuntime(s)
  \/ RuntimeNext(RequestsAsked) /\ UNCHANGED <<store, decision>>

Spec == TunedInit /\ [][Next]_vars

-----------------------------------------------------------------------------
(* Properties *)

\* What counts of the decider's database for backend b running a request: the reference
\* the decisions are measured by.
Measured(b, request) ==
  Measurement(db[decision.by],
              [context |-> Here, backend |-> b, operation |-> request.operation])

ReferenceCost(b, request) ==
  IF Measured(b, request) # NoFile THEN Measured(b, request)
  ELSE UnmeasuredUs + RankPenaltyUs * Rank[b]

ReferenceChange(a, b) ==
  CASE a = b -> 0
    [] a # b /\ <<a, b>> \in DOMAIN Transitions -> Transitions[a, b]
    [] OTHER -> DefaultTransitionUs

ReferenceTotal(chain, assignment) ==
  SumFunction([i \in DOMAIN chain |->
    ReferenceCost(assignment[i], chain[i])
      + (IF i = 1 THEN 0 ELSE ReferenceChange(assignment[i - 1], assignment[i]))])

Assignments(chain, available) ==
  {f \in [DOMAIN chain -> available] : \A i \in DOMAIN chain : Supports(f[i], chain[i])}

\* A plan is the best there is (V0.2.md:33-35): no other choice of compatible backends
\* runs the chain in less time by the measurements of this environment and shape, the
\* total is what its steps really cost, and only a chain that cannot run has no plan.
PlanIsOptimal ==
  decision # None =>
    LET chain == decision.chain
        choices == Assignments(chain, decision.available)
    IN IF choices = {} THEN decision.plan = None
       ELSE LET chosen == [i \in DOMAIN chain |-> decision.plan.steps[i].backend]
            IN /\ chosen \in choices
               /\ ReferenceTotal(chain, chosen) = decision.plan.total
               /\ \A f \in choices : decision.plan.total <= ReferenceTotal(chain, f)

\* Planner and router agree on a single request when every compatible backend has been
\* measured, or none has and the planner's penalty for a kind is not zero, which
\* PlannerConfig permits.
PlannerAgreesWithRouter ==
  decision # None /\ Len(decision.chain) = 1 =>
    LET request == decision.chain[1]
        compatible == Compatible(request, decision.available)
        measured == {b \in compatible : Measured(b, request) # NoFile}
    IN measured = compatible \/ (measured = {} /\ RankPenaltyUs # 0) =>
         IF compatible = {} THEN decision.plan = None /\ decision.routes[1] = None
         ELSE decision.routes[1] = decision.plan.steps[1].backend

=============================================================================
