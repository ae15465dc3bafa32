------------------------- MODULE SharedGemmProtocol -------------------------
(***************************************************************************)
(* crates/vrb-gemm-shared-protocol: the 64-byte control message of a GEMM  *)
(* on shared resources.  Its fields are a record; the scalars alpha and    *)
(* beta, which nothing here looks at, are left out.                        *)
(***************************************************************************)
EXTENDS Checked, Sequences

Magic == "VRBSGM01"
Version == 1
HeaderLen == 64
ResourceCount == 3
F32Bytes == 4

ExpectedElements(rows, columns) == Times(rows, columns)

MatrixBytes(rows, columns) == Times(ExpectedElements(rows, columns), F32Bytes)

ValidControl(c) ==
  /\ c.device >= 0
  /\ 0 \notin {c.m, c.n, c.k}
  /\ None \notin
       {ExpectedElements(c.m, c.k), ExpectedElements(c.k, c.n), ExpectedElements(c.m, c.n)}

\* Mutant: B is taken for an n by k matrix with A's rows.
MixedLengths(c) == <<MatrixBytes(c.m, c.k), MatrixBytes(c.m, c.n), MatrixBytes(c.m, c.n)>>

\* The bytes of A, B and C.
MatrixLengths(c) == <<MatrixBytes(c.m, c.k), MatrixBytes(c.k, c.n), MatrixBytes(c.m, c.n)>>

\* expected_resource_lengths, or None where a product overflows.
ExpectedLengths(c) ==
  IF ValidControl(c) /\ \A i \in 1 .. ResourceCount : MatrixLengths(c)[i] # None
  THEN MatrixLengths(c) ELSE None

Message(c) ==
  [length |-> HeaderLen, magic |-> Magic, version |-> Version, header |-> HeaderLen,
   resources |-> ResourceCount, control |-> c]

EncodeControl(c) == IF ValidControl(c) THEN Message(c) ELSE None

\* A well-formed message is the one that encode_control makes of its control.
DecodeControl(message) ==
  IF /\ message.length = HeaderLen /\ message.magic = Magic
     /\ message.version = Version /\ message.header = HeaderLen
     /\ message.resources = ResourceCount
     /\ ValidControl(message.control)
  THEN message.control ELSE None

=============================================================================
