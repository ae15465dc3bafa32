------------------------- MODULE AttentionReference -------------------------
(***************************************************************************)
(* crates/vrb-attention-reference: the CPU oracle of FP32 attention, as    *)
(* the places that its loops read and write.  The softmax itself is left   *)
(* out; a sum of weights that is not finite is an error (NumericalFailure) *)
(* that a caller's values decide.                                          *)
(***************************************************************************)
EXTENDS AttentionProtocol

CONSTANTS MaxTensorElements, MaxScoreElements  \* AttentionLimits

\* The checks of execute_attention_f32; lengths are those of q, k and v.
Accepts(c, lengths) ==
  /\ ValidControl(c) /\ c.type = "F32"
  /\ \A i \in 1 .. 3 : lengths[i] = ExpectedLengths(c)[i] \div 4
  /\ ExpectedLengths(c)[4] \div 4 <= MaxTensorElements
  /\ LET scores == CheckedProduct(<<c.batch, c.query_heads, c.query_len, c.kv_len>>)
     IN scores # None /\ scores <= MaxScoreElements

KvHead(c, head) == head \div (c.query_heads \div c.kv_heads)

\* The last key that a query position attends to: the last position sees all.
MaxKey(c, position) ==
  LET base == IF c.kv_len > c.query_len THEN c.kv_len - c.query_len ELSE 0
  IN IF IsCausal(c) THEN base + position ELSE c.kv_len - 1

\* q_base and o_base
QueryBase(c, batch, head, position) ==
  ((batch * c.query_heads + head) * c.query_len + position) * c.head_dim

\* k_base and v_base
KeyBase(c, batch, head, key) ==
  ((batch * c.kv_heads + KvHead(c, head)) * c.kv_len + key) * c.head_dim

\* One turn of the loops: the vector of q it reads and of the output it writes, the
\* vectors of k and v it reads, and how many scores it fills.
Turn(c, batch, head, position) ==
  [query |-> QueryBase(c, batch, head, position),
   keys |-> {KeyBase(c, batch, head, key) : key \in 0 .. MaxKey(c, position)},
   scores |-> MaxKey(c, position) + 1]

\* execute_attention_f32: its turns, or None for an error.
ExecuteAttention(c, lengths) ==
  IF Accepts(c, lengths)
  THEN {Turn(c, batch, head, position) : batch \in 0 .. c.batch - 1,
          head \in 0 .. c.query_heads - 1, position \in 0 .. c.query_len - 1}
  ELSE None

=============================================================================
