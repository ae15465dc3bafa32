--------------------------- MODULE MCTunedPlanning ---------------------------
(* Two processes, two operations, and a HIP, a Vulkan and a CPU backend.     *)
EXTENDS TunedPlanning

CONSTANTS s1, s2, here, elsewhere, gemm, attention

MCProcessOf == [s \in {s1, s2} |-> s]
MCBackends == 1 .. 3
MCRank == <<4, 0, 1>>
MCOffers ==
  [b \in MCBackends |->
     [operations |-> IF b = 1 THEN {gemm} ELSE {gemm, attention},
      features |-> IF b = 1 THEN {} ELSE {"zero_copy"}]]
MCTransitions == [e \in {<<2, 3>>} |-> 7]

Key(c, b, o) == [context |-> c, backend |-> b, operation |-> o]
MCKeys ==
  {Key(here, 2, gemm), Key(here, 3, gemm), Key(here, 3, attention), Key(elsewhere, 2, gemm)}
\* The file holds a key twice: lookup says 1 of it, plans are made by 4.
MCEarlier ==
  {<<[key |-> Key(here, 2, gemm), us |-> 1], [key |-> Key(here, 3, gemm), us |-> 2],
     [key |-> Key(here, 3, attention), us |-> 9], [key |-> Key(here, 2, gemm), us |-> 4]>>}

Request(o, needs) == [operation |-> o, needs |-> needs]
MCWorkloads ==
  {[chain |-> <<Request(gemm, {"zero_copy"})>>, available |-> {1, 2, 3}],
   [chain |-> <<Request(gemm, {"zero_copy"}), Request(attention, {}), Request(gemm, {"zero_copy"})>>,
    available |-> {1, 2, 3}],
   [chain |-> <<Request(gemm, {}), Request(attention, {})>>, available |-> {1}]}

MCSymmetry == Permutations({s1, s2})

=============================================================================
