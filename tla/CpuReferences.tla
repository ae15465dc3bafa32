---------------------------- MODULE CpuReferences ----------------------------
(***************************************************************************)
(* The host-byte plugins of BytePluginHost beside the CPU oracles: a GEMM  *)
(* encoded by a caller, answered by the operator that the registry finds,  *)
(* decoded by the caller; and an attention on the caller's own tensors.    *)
(* The oracles keep no state and share none with a plugin, so asking them  *)
(* while no plugin is loaded is asking at any time.                        *)
(***************************************************************************)
EXTENDS BytePluginHost, FiniteSets, Functions, Sequences

CONSTANTS
  U64Max, MaxElements, MaxMultiplyAdds, MaxOutputBytes,
  MaxTensorElements, MaxScoreElements,
  Gemms,       \* what callers ask: [m, n, k, alpha, beta, a, b, c, damage, request], where
               \* a, b and c are matrices, functions of <<row, column>>, c maybe None
  Attentions   \* [control, short]: how many elements each of Q, K and V is short of

\* AttentionControl, with the fields of its header; u64 and u32 are numbers.
Controls ==
  [batch : Nat, query_heads : Nat, kv_heads : Nat, query_len : Nat, kv_len : Nat, head_dim : Nat,
   flags : SUBSET STRING, type : {"F32", "F16", "Bf16"}, scale : BOOLEAN, device : Int]

ASSUME WordsAreNumbers == U64Max \in Nat \ {0} /\ None \notin Int
ASSUME LimitsAreNumbers == {MaxElements, MaxMultiplyAdds, MaxOutputBytes} \subseteq Nat
ASSUME AttentionsAreTyped ==
  \A q \in Attentions : q.control \in Controls /\ q.short \in [1 .. 3 -> Int]

VARIABLE asked  \* a question that was answered, with its answer, or None

Gemm == INSTANCE GemmReference
Attention == INSTANCE AttentionReference

allVars == <<hostVars, asked>>

\* How a caller stores a matrix: row by row.
RowMajor(matrix, rows, columns) ==
  [i \in 1 .. rows * columns |-> matrix[<<((i - 1) \div columns) + 1, ((i - 1) % columns) + 1>>]]

Encoded(g) ==
  Gemm!EncodeRequest(
    [m |-> g.m, n |-> g.n, k |-> g.k, alpha |-> g.alpha, beta |-> g.beta,
     a |-> RowMajor(g.a, g.m, g.k), b |-> RowMajor(g.b, g.k, g.n),
     c |-> IF g.c = None THEN None ELSE RowMajor(g.c, g.m, g.n)])

\* What arrives may not be what was encoded: damage replaces some fields.
Damaged(message, damage) ==
  [f \in DOMAIN message |-> IF f \in DOMAIN damage THEN damage[f] ELSE message[f]]

\* A header that is one of a request, and tells the length of its message, by ordinary
\* arithmetic.
HeaderIsConsistent(message) ==
  LET m == message.m
      n == message.n
      k == message.k
      c == IF "HAS_C" \in message.flags THEN m * n ELSE 0
  IN /\ message.magic = Gemm!RequestMagic /\ message.version = 1 /\ message.header = 56
     /\ message.flags \subseteq {"HAS_C"}
     /\ message.length = 56 + 4 * (m * k + k * n + c)

\* What stands where None may: operators, matrices, GemmRequestMeta and a response.
ASSUME NoneIsNoMessage ==
  /\ None \notin Gemm!Operators /\ None \notin Seq(Int)
  /\ None \notin [m : Nat, n : Nat, k : Nat, hasC : BOOLEAN, alpha : Int, beta : Int,
                  a : Nat, b : Nat, c : Nat]
  /\ None \notin [length : Nat, magic : {Gemm!ResponseMagic}, version : Nat, header : Nat,
                  m : Nat, n : Nat, payload : Seq(Int)]

\* Matrices have the dimensions that their request says.
ASSUME GemmsAreTyped ==
  \A g \in Gemms :
    /\ {g.m, g.n, g.k} \subseteq 0 .. U64Max /\ {g.alpha, g.beta} \subseteq Int
    /\ g.a \in [(1 .. g.m) \X (1 .. g.k) -> Int] /\ g.b \in [(1 .. g.k) \X (1 .. g.n) -> Int]
    /\ g.c \in [(1 .. g.m) \X (1 .. g.n) -> Int] \cup {None}
    /\ g.request.zeroCopy \in BOOLEAN

\* Bound: damage shows in the header.  What it leaves consistent is another request.
ASSUME DamageShows ==
  \A g \in Gemms : g.damage # << >> /\ Encoded(g) # None =>
    LET arrived == Damaged(Encoded(g), g.damage) IN
    /\ {arrived.m, arrived.n, arrived.k, arrived.length} \subseteq 0 .. U64Max
    /\ ~HeaderIsConsistent(arrived)

AskGemm(g, candidates) ==
  /\ UNCHANGED hostVars /\ \A l \in Loads : stage[l] = "unused"
  /\ asked = None /\ Encoded(g) # None
  /\ asked' = [kind |-> "gemm", question |-> g, operators |-> candidates,
               answer |-> Gemm!ExecuteRegistered(g.request, candidates,
                            Damaged(Encoded(g), g.damage))]

\* The caller's own tensors, maybe an element short.
Lengths(q) ==
  LET c == q.control
      queries == c.batch * c.query_heads * c.query_len * c.head_dim
      keys == c.batch * c.kv_heads * c.kv_len * c.head_dim
  IN <<queries - q.short[1], keys - q.short[2], keys - q.short[3]>>

AskAttention(q) ==
  /\ UNCHANGED hostVars /\ \A l \in Loads : stage[l] = "unused"
  /\ asked = None
  /\ asked' = [kind |-> "attention", question |-> q,
               answer |-> Attention!ExecuteAttention(q.control, Lengths(q))]

Forget == asked # None /\ asked' = None /\ UNCHANGED hostVars

SystemInit == HostInit /\ asked = None

SystemNext ==
  \/ asked = None /\ HostNext /\ UNCHANGED asked
  \/ \E g \in Gemms, candidates \in {<<"oracle", "plugin">>, <<"plugin", "oracle">>, << >>} :
       AskGemm(g, candidates)
  \/ \E q \in Attentions : AskAttention(q)
  \/ Forget

SystemSpec == SystemInit /\ [][SystemNext]_allVars

-----------------------------------------------------------------------------
(* Properties *)

\* An element of what g asks for, by mathematics.
ProductOf(g, i, j) ==
  g.alpha * SumFunction([d \in 1 .. g.k |-> g.a[<<i, d>>] * g.b[<<d, j>>]])
    + (IF g.c = None THEN 0 ELSE g.beta * g.c[<<i, j>>])

\* The reference crate is the oracle that every GEMM is compared with, so a caller that
\* encodes a request, has it executed and decodes the answer gets alpha A B + beta C, from
\* the oracle and from its plugin alike: output_size and execute read the message apart
\* and must agree.  What is over the limits by ordinary arithmetic, or damaged on the
\* way, is refused with its own error, and nothing else is.
GemmIsServed ==
  asked # None /\ asked.kind = "gemm" =>
    LET g == asked.question
        status == asked.answer.status
        decoded == Gemm!DecodeResponse(asked.answer.output)
        within == /\ \A size \in {g.m * g.k, g.k * g.n, g.m * g.n} : size <= MaxElements
                  /\ g.m * g.n * g.k <= MaxMultiplyAdds
        unserved == \/ asked.operators = << >>
                    \/ g.request.kind # "Gemm" \/ g.request.zeroCopy
    IN CASE status = "OK" ->
              /\ ~unserved /\ g.damage = << >> /\ within
              /\ decoded.m = g.m /\ decoded.n = g.n
              /\ Len(decoded.values) = g.m * g.n
              /\ \A i \in 1 .. g.m, j \in 1 .. g.n :
                   decoded.values[(i - 1) * g.n + j] = ProductOf(g, i, j)
         [] status = "OutputTooLarge" -> 32 + 4 * g.m * g.n > MaxOutputBytes
         [] status \in {"Protocol", "INVALID_ARGUMENT"} ->
              g.damage # << >> \/ 32 + 4 * g.m * g.n > U64Max
         [] status \in {"ResourceLimit", "UNSUPPORTED"} -> g.damage = << >> /\ ~within
         [] status = "NoCompatibleOperator" -> unserved
         [] OTHER -> FALSE

\* A tensor of a control: its vectors of head_dim elements, numbered in row-major order.
RowOf(batch, heads, head, len, position) == (batch * heads + head) * len + position

\* The key and value heads whose group a query head is in, the keys that a query position
\* may see (the last one all, each earlier one one fewer when it is causal), and the
\* vectors of k that both allow; and the turns that attend so.
GroupHeads(c, head) ==
  LET group == c.query_heads \div c.kv_heads
  IN {s \in 0 .. c.kv_heads - 1 : head \in s * group .. (s + 1) * group - 1}
SeenKeys(c, position) ==
  {y \in 0 .. c.kv_len - 1 : "CAUSAL" \in c.flags => c.kv_len - y > c.query_len - 1 - position}
KeyRows(c, batch, head, position) ==
  {RowOf(batch, c.kv_heads, shared, c.kv_len, key) :
     shared \in GroupHeads(c, head), key \in SeenKeys(c, position)}

AttendingTurns(c) ==
  {[query |-> c.head_dim * RowOf(b, c.query_heads, h, c.query_len, p),
    keys |-> {c.head_dim * row : row \in KeyRows(c, b, h, p)},
    scores |-> Cardinality(KeyRows(c, b, h, p))] :
     b \in 0 .. c.batch - 1, h \in 0 .. c.query_heads - 1, p \in 0 .. c.query_len - 1}

StaysInside(q, turns) ==
  LET c == q.control
      lengths == Lengths(q)
  IN /\ q.short = <<0, 0, 0>>
     /\ \A turn \in turns :
          /\ turn.query + c.head_dim <= lengths[1]
          /\ \A key \in turn.keys : key + c.head_dim <= lengths[2]
          /\ turn.scores <= c.kv_len
     /\ c.head_dim * Cardinality({turn.query : turn \in turns}) = lengths[1]
     /\ turns = AttendingTurns(c)

\* The indices of execute_attention_f32 are computed unchecked from a control that another
\* crate has checked: every vector it reads or writes lies inside its tensor, every output
\* vector is written in one turn, and that turn attends to the keys of its own batch, of
\* the head its group shares and of the positions it may see.
AttentionStaysInside ==
  asked # None /\ asked.kind = "attention" /\ asked.answer # None =>
    StaysInside(asked.question, asked.answer)

=============================================================================
