-------------------------- MODULE MCResidencyCache --------------------------
(* A small residency cache for TLC: three keys, one of them with two          *)
(* generations of different size, and two requests that validation refuses.  *)
EXTENDS ResidencyCache, TLC

CONSTANTS k1, k2, k3

SpecOf(k, g, b) == [key |-> k, generation |-> g, device_index |-> 0, bytes |-> b]

MCSpecs ==
  { SpecOf(k1, 1, 1), SpecOf(k1, 2, 2), SpecOf(k2, 1, 1), SpecOf(k3, 1, 3),
    SpecOf(k2, 2, 0), SpecOf(k3, 2, 4),
    [SpecOf(k2, 1, 1) EXCEPT !.device_index = -1] }

MCKeys == {k1, k2, k3}

Interchangeable == Permutations(Allocs) \cup Permutations(Threads)

=============================================================================
