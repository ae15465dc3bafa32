-------------------------- MODULE AttentionProtocol --------------------------
(***************************************************************************)
(* crates/vrb-attention-protocol: the control of an attention on shared    *)
(* resources, its checks and the lengths of Q, K, V and O.  Of the scale   *)
(* only whether it is positive and finite is kept.                         *)
(***************************************************************************)
EXTENDS Checked

ResourceCount == 4
HeaderLen == 64
Version == 1
Magic == "VRBA"
KnownFlags == {"CAUSAL"}

ElementBytes(type) == IF type = "F32" THEN 4 ELSE 2

IsCausal(c) == "CAUSAL" \in c.flags

\* checked_product: every caller has four factors.
CheckedProduct(values) ==
  Times(Times(Times(values[1], values[2]), values[3]), values[4])

QElements(c) == CheckedProduct(<<c.batch, c.query_heads, c.query_len, c.head_dim>>)
KvElements(c) == CheckedProduct(<<c.batch, c.kv_heads, c.kv_len, c.head_dim>>)

\* expected_resource_lengths
ExpectedLengths(c) ==
  LET q == Times(QElements(c), ElementBytes(c.type))
      kv == Times(KvElements(c), ElementBytes(c.type))
  IN IF None \in {q, kv} THEN None ELSE <<q, kv, kv, q>>

\* Mutant: a group may be smaller than the others.
FewerKvHeads(c) == c.kv_heads <= c.query_heads

\* Query heads share their key and value head in groups of one size.
HeadsGroup(c) == c.kv_heads <= c.query_heads /\ c.query_heads % c.kv_heads = 0

\* AttentionControl::validate
ValidControl(c) ==
  /\ c.flags \subseteq KnownFlags
  /\ 0 \notin {c.batch, c.query_heads, c.kv_heads, c.query_len, c.kv_len, c.head_dim}
  /\ HeadsGroup(c)
  /\ IsCausal(c) => c.kv_len >= c.query_len
  /\ c.scale /\ c.device >= 0
  /\ ExpectedLengths(c) # None

EncodeControl(c) ==
  IF ValidControl(c)
  THEN [length |-> HeaderLen, magic |-> Magic, version |-> Version, header |-> HeaderLen,
        resources |-> ResourceCount, reserved |-> 0, control |-> c]
  ELSE None

DecodeControl(message) ==
  IF /\ message.length = HeaderLen /\ message.magic = Magic /\ message.version = Version
     /\ message.header = HeaderLen /\ message.resources = ResourceCount
     /\ message.reserved = 0 /\ message.control.type \in {"F32", "F16", "Bf16"}
     /\ ValidControl(message.control)
  THEN message.control ELSE None

=============================================================================
