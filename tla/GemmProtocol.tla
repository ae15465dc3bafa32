---------------------------- MODULE GemmProtocol ----------------------------
(***************************************************************************)
(* crates/vrb-gemm-protocol: the messages of a GEMM on host bytes.  A      *)
(* message is a record of its header's fields, its payload of f32 values   *)
(* (integers here: rounding is left out) and its length in bytes.  usize   *)
(* has the width of u64, so conversions to it do not fail.                 *)
(***************************************************************************)
EXTENDS Checked, Sequences

RequestMagic == "VRBGEMM1"
ResponseMagic == "VRBGEMR1"
Version == 1
RequestHeaderLen == 56
ResponseHeaderLen == 32
F32Bytes == 4
KnownFlags == {"HAS_C"}

Elements(rows, columns) == Times(rows, columns)

EncodedResponseLen(m, n) == Plus(ResponseHeaderLen, Times(Elements(m, n), F32Bytes))

\* The f32 values of a request, or None.
PayloadElements(m, n, k, hasC) ==
  LET factors == Plus(Elements(m, k), Elements(k, n))
      c == Elements(m, n)
  IN IF c = None THEN None ELSE IF hasC THEN Plus(factors, c) ELSE factors

EncodedRequestLen(m, n, k, hasC) ==
  Plus(RequestHeaderLen, Times(PayloadElements(m, n, k, hasC), F32Bytes))

\* c is None for a request without C.
EncodeRequest(r) ==
  LET hasC == r.c # None
      length == EncodedRequestLen(r.m, r.n, r.k, hasC)
  IN IF /\ length # None
        /\ Len(r.a) = r.m * r.k /\ Len(r.b) = r.k * r.n
        /\ hasC => Len(r.c) = r.m * r.n
     THEN [length |-> length, magic |-> RequestMagic, version |-> Version,
           header |-> RequestHeaderLen, flags |-> IF hasC THEN {"HAS_C"} ELSE {},
           m |-> r.m, n |-> r.n, k |-> r.k, alpha |-> r.alpha, beta |-> r.beta,
           payload |-> r.a \o r.b \o (IF hasC THEN r.c ELSE << >>)]
     ELSE None

\* inspect_request
Inspect(input) ==
  LET hasC == "HAS_C" \in input.flags
      encoded == EncodedRequestLen(input.m, input.n, input.k, hasC)
  IN IF /\ input.length >= RequestHeaderLen
        /\ input.magic = RequestMagic /\ input.version = Version
        /\ input.header = RequestHeaderLen /\ input.flags \subseteq KnownFlags
        /\ encoded = input.length
     THEN [m |-> input.m, n |-> input.n, k |-> input.k, hasC |-> hasC,
           alpha |-> input.alpha, beta |-> input.beta,
           a |-> input.m * input.k, b |-> input.k * input.n, c |-> input.m * input.n]
     ELSE None

DecodeRequest(input) ==
  LET meta == Inspect(input)
      ValuesFrom(cursor, count) == SubSeq(input.payload, cursor + 1, cursor + count)
  IN [meta |-> meta,
      a |-> ValuesFrom(0, meta.a),
      b |-> ValuesFrom(meta.a, meta.b),
      c |-> IF meta.hasC THEN ValuesFrom(meta.a + meta.b, meta.c) ELSE None]

EncodeResponse(m, n, values) ==
  IF EncodedResponseLen(m, n) # None /\ Len(values) = m * n
  THEN [length |-> EncodedResponseLen(m, n), magic |-> ResponseMagic, version |-> Version,
        header |-> ResponseHeaderLen, m |-> m, n |-> n, payload |-> values]
  ELSE None

DecodeResponse(input) ==
  IF /\ input.length >= ResponseHeaderLen
     /\ input.magic = ResponseMagic /\ input.version = Version
     /\ input.header = ResponseHeaderLen
     /\ EncodedResponseLen(input.m, input.n) = input.length
  THEN [m |-> input.m, n |-> input.n, values |-> input.payload]
  ELSE None

=============================================================================
