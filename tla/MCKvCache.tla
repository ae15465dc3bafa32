----------------------------- MODULE MCKvCache -----------------------------
(* Blocks for TLC: of one or two tokens for every start the bounds allow, an   *)
(* empty one, one without bytes; one that ends at U64Max, one after it, and one *)
(* that follows the others but whose end overflows.                             *)
EXTENDS KvCache

BlockOf(start, count, b) == [token_start |-> start, token_count |-> count, bytes |-> b]

MCKeys ==
  { [sequence_id |-> 1, layer |-> 0], [sequence_id |-> 1, layer |-> 1],
    [sequence_id |-> 2, layer |-> 0] }

MCBlocks ==
  { BlockOf(start, 1, b) : start \in 0 .. 2, b \in {1, 2} }
  \cup { BlockOf(0, 2, 3), BlockOf(0, 0, 1), BlockOf(1, 1, 0), BlockOf(2, U64Max - 2, 1),
         BlockOf(U64Max, 1, 1), BlockOf(2, U64Max - 1, 1) }

=============================================================================
