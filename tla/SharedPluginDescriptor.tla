----------------------- MODULE SharedPluginDescriptor -----------------------
(***************************************************************************)
(* What crates/vrb-shared-operator-loader makes of a plugin's descriptor   *)
(* and of the answers of its query_operator: an error of load_with_policy, *)
(* or the operators with the capabilities that the registry selects by.    *)
(*                                                                         *)
(* A descriptor is [abi, size, name, bits, operators, query, execute], an  *)
(* answer [status, size, name, id, bits, kind, backend, memory, sync];     *)
(* bit masks are sets, and a size is whether the structure is complete.    *)
(***************************************************************************)
EXTENDS Integers, Sequences, FiniteSets

CONSTANT MaxOperators  \* SharedOperatorLoadPolicy::max_operators

AbiVersion == 1
KnownKinds == {"Gemm", "Attention", "Quantize", "Dequantize", "Transform"}
KnownBackends == {"Cpu", "Vulkan", "Hip", "Hybrid"}
KnownMemory == {"Win32Kmt", "Win32Nt", "OpaqueFd", "DmaBuf"}
KnownSync == {"Win32Opaque", "OpaqueFd", "Timeline"}

\* validate_plugin_descriptor, and the callbacks that must be there.
DescriptorIsValid(d) ==
  /\ d.abi = AbiVersion /\ d.size = "complete" /\ d.name # ""
  /\ Len(d.operators) \in 1 .. MaxOperators
  /\ d.query /\ d.execute

\* What the plugin claims for all its operators and what it claims for this one.
Bits(d, info) == d.bits \cup info.bits

\* validate_capabilities
BitsAreCoherent(bits, info) ==
  /\ "PROVEN_ZERO_COPY" \in bits => "EXTERNAL_RESOURCE" \in bits
  /\ "EXTERNAL_RESOURCE" \in bits => info.memory # {}
  /\ "EXTERNAL_SYNCHRONIZATION" \in bits => info.sync # {}

InfoIsValid(d, info) ==
  /\ info.status = "OK" /\ info.size = "complete" /\ info.name # ""
  /\ BitsAreCoherent(Bits(d, info), info)

\* The loop over the operators.
Loadable(d) ==
  /\ DescriptorIsValid(d)
  /\ \A i, j \in DOMAIN d.operators :
       i # j => d.operators[i].id # d.operators[j].id
  /\ \A i \in DOMAIN d.operators : InfoIsValid(d, d.operators[i])

\* Tags and bits this host does not know become Custom, Plugin, or nothing.
CapabilitiesOf(d, info) ==
  [kind |-> IF info.kind \in KnownKinds THEN info.kind ELSE "Custom",
   backend |-> IF info.backend \in KnownBackends THEN info.backend ELSE "Plugin",
   memory |-> info.memory \cap KnownMemory,
   sync |-> info.sync \cap KnownSync,
   externalSync |-> "EXTERNAL_SYNCHRONIZATION" \in Bits(d, info),
   zeroCopy |-> "PROVEN_ZERO_COPY" \in Bits(d, info)]

\* The descriptor of crates/vrb-hip-shared-gemm-plugin and its one operator.
HipBits == {"EXTERNAL_RESOURCE", "FP32", "PROVEN_ZERO_COPY"}

HipOperator ==
  [status |-> "OK", size |-> "complete", name |-> "hip-rocblas-shared-fp32-gemm", id |-> 1,
   bits |-> HipBits, kind |-> "Gemm", backend |-> "Hip", memory |-> {"Win32Kmt"}, sync |-> {}]

HipDescriptor ==
  [abi |-> AbiVersion, size |-> "complete", name |-> "vrb-hip-shared-gemm", bits |-> HipBits,
   operators |-> <<HipOperator>>, query |-> TRUE, execute |-> TRUE]

=============================================================================
