------------------------------- MODULE Routing -------------------------------
(***************************************************************************)
(* crates/vrb-core: the performance table and the routing of one request   *)
(* to a backend.  Median latencies are whole microseconds.  A request      *)
(* names an operation (with its data type) and the features it requires    *)
(* (external memory, external semaphore, zero copy).                       *)
(***************************************************************************)
EXTENDS Integers, FiniteSets

CONSTANTS
  Backends,    \* BackendIds: numbers, in the order of a BTreeMap's keys
  Operations,
  Rank,        \* backend -> the bootstrap rank of its kind, 0 is preferred
  Offers,      \* backend -> [operations, features] of its CapabilitySet
  None

ASSUME BackendsAreNumbers == Backends \subseteq Nat /\ None \notin Nat
ASSUME RanksAreNumbers == Rank \in [Backends -> Nat]

\* CapabilitySet::supports.
Supports(b, request) ==
  /\ request.operation \in Offers[b].operations
  /\ request.needs \subseteq Offers[b].features

\* The probes that a route or a plan considers.
Compatible(request, available) == {b \in available : Supports(b, request)}

EmptyTable == [b \in Backends |-> [o \in Operations |-> None]]

\* PerformanceTable::record replaces what was measured before: of the records at these
\* positions the last stays.
LastOf(positions) == CHOOSE i \in positions : \A j \in positions : j <= i

MedianUs(table, b, o) == table[b][o]

\* Iterator::min_by: where the cost is least; of equal costs the first.
FirstMinimum(cost) ==
  CHOOSE b \in DOMAIN cost :
    \A c \in DOMAIN cost : cost[b] < cost[c] \/ (cost[b] = cost[c] /\ b <= c)

\* Mutant: the bootstrap order decides although there are measurements.
PreferredKind(request, available, table) ==
  LET compatible == Compatible(request, available)
  IN IF compatible = {} THEN None ELSE FirstMinimum([b \in compatible |-> Rank[b]])

\* FastestCompatible::select: the fastest measured backend, else the preferred kind.
Route(request, available, table) ==
  LET compatible == Compatible(request, available)
      median == [b \in compatible |-> MedianUs(table, b, request.operation)]
      measured == {b \in compatible : median[b] # None}
  IN IF compatible = {} THEN None
     ELSE IF measured # {} THEN FirstMinimum([b \in measured |-> median[b]])
     ELSE FirstMinimum([b \in compatible |-> Rank[b]])

=============================================================================
