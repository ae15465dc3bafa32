------------------------- MODULE MCSharedGemmSystem -------------------------
(* Two loads of the HIP plugin, an operator of the application, and calls that *)
(* the checks of the registry, of the host and of the plugin tell apart.       *)
EXTENDS SharedGemmSystem, TLC

CONSTANTS l1, l2, boast, image, native

MCLoads == {l1, l2, boast}
MCImageOf == [l \in MCLoads |-> IF l = boast THEN boast ELSE image]

\* It claims zero copy of resources that it does not take.
MCDescriptorOf ==
  [l \in MCLoads |->
     IF l = boast
     THEN [HipDescriptor EXCEPT !.bits = {},
             !.operators = <<[HipOperator EXCEPT !.bits = {"PROVEN_ZERO_COPY"}, !.memory = {},
                                                   !.kind = "Fused"]>>]
     ELSE HipDescriptor]
MCPolicy ==
  [l \in MCLoads |-> [metadata |-> HeaderLen, resources |-> 3, syncs |-> 1, room |-> l = l1]]
MCInjected ==
  [o \in {native} |->
     [kind |-> "Gemm", backend |-> "Vulkan", memory |-> {"Win32Kmt", "OpaqueFd"},
      sync |-> {"Timeline"}, externalSync |-> TRUE, zeroCopy |-> FALSE]]

Control(m, n, k) == [m |-> m, n |-> n, k |-> k, device |-> 0]
Region(length, access) ==
  [kind |-> "Win32Kmt", handle |-> 1, allocation |-> 40, offset |-> 40 - length,
   length |-> length, access |-> access]
Regions(a, b, c) == <<Region(a, "ReadOnly"), Region(b, "ReadOnly"), Region(c, "ReadWrite")>>
Invocation(message, resources) ==
  [metadata |-> message, resources |-> resources, waits |-> << >>, signals |-> << >>]
Request(kind, preferred, zeroCopy) ==
  [kind |-> kind, preferred |-> preferred, memory |-> None, sync |-> FALSE,
   zeroCopy |-> zeroCopy]

Good == Invocation(EncodeControl(Control(2, 1, 3)), Regions(24, 12, 8))
TooWide == Invocation(EncodeControl(Control(8, 1, 1)), Regions(32, 4, 32))
TooLong == Invocation(EncodeControl(Control(8, 1, 8)), Regions(32, 32, 32))
OffTheEnd ==
  [Good EXCEPT !.resources[3] = [@ EXCEPT !.offset = 250]]
Waiting == [Good EXCEPT !.waits = <<[kind |-> "Timeline", handle |-> 1]>>]
Foreign == [Good EXCEPT !.resources[2].kind = "OpaqueFd"]

MCCalls ==
  [request : {Request("Gemm", "Hip", FALSE), Request("Gemm", "Vulkan", TRUE)}, invocation : {Good}]
  \cup [request : {Request("Custom", None, TRUE)}, invocation : {[Good EXCEPT !.resources = << >>]}]
  \cup [request : {Request("Gemm", None, FALSE)},
        invocation : {Good, TooWide, TooLong, OffTheEnd, Waiting, Foreign}]

Interchangeable == Permutations(Threads)

=============================================================================
