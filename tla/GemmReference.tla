---------------------------- MODULE GemmReference ----------------------------
(***************************************************************************)
(* The CPU oracle of a GEMM on host bytes (crates/vrb-gemm-reference), the *)
(* plugin that offers it (crates/vrb-gemm-reference-plugin), and how the   *)
(* host asks a plugin for an output (vrb-operator-loader).  The plugin     *)
(* keeps no state.                                                         *)
(***************************************************************************)
EXTENDS GemmProtocol, Functions

CONSTANTS
  MaxElements, MaxMultiplyAdds,  \* GemmLimits
  MaxOutputBytes                 \* OperatorLoadPolicy::max_output_bytes

-----------------------------------------------------------------------------
(* The oracle *)

\* Mutant: the multiplications are done in u64, wrapping.
U64Operations(meta) == (meta.m * meta.n * meta.k) % (U64Max + 1)

\* They are done in u128.
Operations(meta) == (meta.m * meta.n * meta.k) % ((U64Max + 1) * (U64Max + 1))

\* validate_limits
WithinLimits(meta) ==
  /\ {meta.a, meta.b, meta.c} \subseteq 0 .. MaxElements
  /\ Operations(meta) <= MaxMultiplyAdds

\* What both entry points do first: "OK", or the error.
Checks(input) ==
  LET meta == Inspect(input) IN
  IF meta = None THEN "Protocol" ELSE IF WithinLimits(meta) THEN "OK" ELSE "ResourceLimit"

\* `?` on the result of a computation that may overflow.
Answered(input, result) ==
  [status |-> IF Checks(input) = "OK" /\ result = None THEN "Protocol" ELSE Checks(input),
   output |-> result]

RequiredOutputLen(input) ==
  Answered(input, IF Checks(input) = "OK" THEN EncodedResponseLen(input.m, input.n) ELSE None)

\* b_row + column
IndexOfB(meta, depth, column) == depth * meta.n + column

\* The loops over rows, depths and columns, for one element of the output.
Element(request, i) ==
  LET meta == request.meta
      row == i \div meta.n
      column == i % meta.n
      terms == [depth \in 0 .. meta.k - 1 |->
                  meta.alpha * request.a[row * meta.k + depth + 1]
                             * request.b[IndexOfB(meta, depth, column) + 1]]
      initial == IF meta.beta # 0 /\ request.c # None
                 THEN meta.beta * request.c[i + 1] ELSE 0
  IN IF meta.alpha # 0 THEN initial + SumFunction(terms) ELSE initial

\* execute_gemm_bytes
ExecuteBytes(input) ==
  LET request == DecodeRequest(input)
      values == [i \in 1 .. request.meta.c |-> Element(request, i - 1)]
  IN Answered(input, IF Checks(input) = "OK" THEN EncodeResponse(input.m, input.n, values)
                     ELSE None)

-----------------------------------------------------------------------------
(* The plugin *)

\* map_error
StatusOf(error) ==
  CASE error = "Protocol" -> "INVALID_ARGUMENT"
    [] error = "ResourceLimit" -> "UNSUPPORTED"
    [] error = "OK" -> "OK"

OutputSize(input) ==
  LET size == RequiredOutputLen(input) IN [size EXCEPT !.status = StatusOf(@)]

\* The output is computed before the capacity is looked at.
Execute(input, capacity) ==
  LET answer == ExecuteBytes(input) IN
  IF answer.status = "OK" /\ answer.output.length > capacity
  THEN [status |-> "BUFFER_TOO_SMALL", output |-> None]
  ELSE [answer EXCEPT !.status = StatusOf(@)]

-----------------------------------------------------------------------------
(* The host *)

\* execute_plugin, when nothing panics.
ExecutePlugin(input) ==
  LET size == OutputSize(input) IN
  IF size.status # "OK" THEN size
  ELSE IF size.output > MaxOutputBytes THEN [status |-> "OutputTooLarge", output |-> None]
  ELSE Execute(input, size.output)

\* The operators an application may register: the oracle itself, and the plugin's.
\* Neither works in shared memory, whatever a plugin says of itself.
Operators == {"oracle", "plugin"}
OperatorCapabilities == [kind |-> "Gemm", backend |-> "Cpu", zeroCopy |-> FALSE]

Compatible(request) ==
  /\ OperatorCapabilities.kind = request.kind
  /\ request.zeroCopy => OperatorCapabilities.zeroCopy

\* FirstCompatible::select
FirstCompatible(request, candidates) ==
  LET fitting == {i \in DOMAIN candidates : Compatible(request)}
      favoured == {i \in fitting : OperatorCapabilities.backend = request.preferred}
      First(places) == candidates[CHOOSE i \in places : \A j \in places : i <= j]
  IN IF favoured # {} THEN First(favoured) ELSE IF fitting # {} THEN First(fitting) ELSE None

\* OperatorRegistry::execute
ExecuteRegistered(request, candidates, input) ==
  LET chosen == FirstCompatible(request, candidates) IN
  CASE chosen = None -> [status |-> "NoCompatibleOperator", output |-> None]
    [] chosen = "oracle" -> ExecuteBytes(input)
    [] chosen = "plugin" -> ExecutePlugin(input)

=============================================================================
