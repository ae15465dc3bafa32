--------------------------- MODULE MCCpuReferences ---------------------------
(* An operator library, a backend plugin and the CPU oracles by TLC. *)
EXTENDS CpuReferences

CONSTANTS library, backend

MCImageOf == [l \in {library, backend} |-> l]

Matrix(rows, columns, step) ==
  [p \in (1 .. rows) \X (1 .. columns) |-> p[1] + step * p[2]]

ByteRequest(zeroCopy) == [kind |-> "Gemm", preferred |-> "Cpu", zeroCopy |-> zeroCopy]

Question(m, n, k, alpha, beta, hasC, damage) ==
  [m |-> m, n |-> n, k |-> k, alpha |-> alpha, beta |-> beta,
   a |-> Matrix(m, k, 2), b |-> Matrix(k, n, 3), c |-> IF hasC THEN Matrix(m, n, 5) ELSE None,
   damage |-> damage, request |-> ByteRequest(FALSE)]

\* Small shapes with every scalar; a shape beyond each limit; messages not as encoded.
MCGemms ==
  {Question(m, n, k, alpha, beta, hasC, << >>) :
     m \in 0 .. 2, n \in 0 .. 2, k \in 0 .. 2, alpha \in {0, 2}, beta \in {0, 3},
     hasC \in BOOLEAN}
  \cup {Question(s[1], s[2], s[3], 1, 0, FALSE, << >>) :
          s \in {<<3, 1, 2>>, <<5, 5, 1>>, <<5, 5, 5>>, <<16, 15, 1>>, <<15, 15, 5>>}}
  \cup {Question(2, 1, 2, 1, 1, TRUE, damage) :
          damage \in {[magic |-> "VRBGEMR1"], [version |-> 2], [header |-> 32],
                      [flags |-> {"HAS_C", "reserved"}], [flags |-> {}], [length |-> 55],
                      [k |-> 1], [m |-> 1000], [length |-> 92]}}
  \cup {[Question(1, 1, 1, 1, 0, FALSE, << >>) EXCEPT !.request = ByteRequest(TRUE)]}

Control(batch, queryHeads, kvHeads, queryLen, kvLen, headDim, flags) ==
  [batch |-> batch, query_heads |-> queryHeads, kv_heads |-> kvHeads, query_len |-> queryLen,
   kv_len |-> kvLen, head_dim |-> headDim, flags |-> flags, type |-> "F32", scale |-> TRUE,
   device |-> 0]

MCAttentions ==
  {[control |-> Control(b, h, g, q, k, d, flags), short |-> <<0, 0, 0>>] :
     b \in 1 .. 2, h \in 1 .. 4, g \in 1 .. 3, q \in 1 .. 3, k \in 1 .. 3, d \in 1 .. 2,
     flags \in {{}, {"CAUSAL"}}}
  \cup {[control |-> Control(1, 2, 1, 2, 2, 2, {}), short |-> s] :
          s \in {<<1, 0, 0>>, <<0, 1, 0>>, <<0, 0, 1>>}}
  \cup {[control |-> [Control(1, 2, 1, 2, 2, 2, {}) EXCEPT !.type = "F16"],
         short |-> <<0, 0, 0>>]}

=============================================================================
