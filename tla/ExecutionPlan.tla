---------------------------- MODULE ExecutionPlan ----------------------------
(***************************************************************************)
(* crates/vrb-execution-plan: the dynamic programme that gives every       *)
(* request of a chain a backend, counting what it costs to change backend  *)
(* between two requests.                                                   *)
(***************************************************************************)
EXTENDS Routing, Sequences

CONSTANTS
  UnmeasuredUs,         \* PlannerConfig.unmeasured_operator_us
  DefaultTransitionUs,  \* PlannerConfig.default_transition_us
  RankPenaltyUs,        \* PlannerConfig.bootstrap_rank_penalty_us
  Transitions           \* TransitionCostTable: <<from, to>> -> microseconds, partial

\* validate_cost
ASSUME CostsAreNumbers ==
  /\ UnmeasuredUs \in Nat /\ DefaultTransitionUs \in Nat /\ RankPenaltyUs \in Nat
  /\ \A pair \in DOMAIN Transitions : Transitions[pair] \in Nat

OperatorCost(b, request, table) ==
  LET median == MedianUs(table, b, request.operation)
  IN IF median # None THEN median ELSE UnmeasuredUs + RankPenaltyUs * Rank[b]

TransitionCost(a, b) ==
  IF a = b THEN 0
  ELSE IF <<a, b>> \in DOMAIN Transitions THEN Transitions[a, b]
  ELSE DefaultTransitionUs

\* Mutant: the cheapest predecessor, whatever the way from it costs.
CheapestBefore(layer, b) == FirstMinimum([a \in DOMAIN layer |-> layer[a].total])

\* The predecessor from which backend b is reached at least cost.
BestBefore(layer, b) ==
  FirstMinimum([a \in DOMAIN layer |-> layer[a].total + TransitionCost(a, b)])

\* The State in which a request is run on backend b, at this cost, after what went before.
StateAfter(before, b, cost) ==
  LET a == BestBefore(before, b)
      change == TransitionCost(a, b)
  IN [total |-> before[a].total + change + cost, operator |-> cost, transition |-> change,
      previous |-> a]

FirstState(cost) == [total |-> cost, operator |-> cost, transition |-> 0, previous |-> None]

\* layers[i][b]: the State of the cheapest way to run requests 1..i, the last on b.
Layers(chain, available, table) ==
  LET layer[i \in 1 .. Len(chain)] ==
        [b \in Compatible(chain[i], available) |->
           LET cost == OperatorCost(b, chain[i], table) IN
           IF i = 1 THEN FirstState(cost) ELSE StateAfter(layer[i - 1], b, cost)]
  IN layer

\* The walk back from the cheapest state of the last layer.
Reconstructed(layers, n) ==
  LET chosen[i \in 1 .. n] ==
        IF i = n THEN FirstMinimum([b \in DOMAIN layers[n] |-> layers[n][b].total])
        ELSE layers[i + 1][chosen[i + 1]].previous
  IN [i \in 1 .. n |->
        LET state == layers[i][chosen[i]] IN
        [backend |-> chosen[i], operator |-> state.operator,
         transition |-> state.transition, cumulative |-> state.total]]

\* CostAwarePlanner::plan; None stands for NoCompatibleBackend.
Plan(chain, available, table) ==
  IF chain = << >> THEN [steps |-> << >>, total |-> 0]
  ELSE IF \E i \in DOMAIN chain : Compatible(chain[i], available) = {} THEN None
  ELSE LET steps == Reconstructed(Layers(chain, available, table), Len(chain))
       IN [steps |-> steps, total |-> steps[Len(chain)].cumulative]

=============================================================================
