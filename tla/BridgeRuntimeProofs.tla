------------------------- MODULE BridgeRuntimeProofs -------------------------
(***************************************************************************)
(* The bridge's safety for any number of threads and HIP devices.          *)
(*                                                                         *)
(* The argument: the guards a call holds are a prefix of one chain, and    *)
(* its length is fixed by the place in the script; unless a                *)
(* synchronisation failed a memset is on its way only at the sync that     *)
(* waits for it, so from there on the bytes are this call's.               *)
(***************************************************************************)
EXTENDS BridgeRuntime, TLAPS

Kinds == {"zero_copy", "copy"}

\* What a call obtains, in order.
Chain(kind) ==
  IF kind = "zero_copy"
  THEN <<"shared", "staging", "import", "mapping">>
  ELSE <<"upload", "device_buffer", "readback", "malloc">>

Stack(kind, k) == [i \in 1 .. k |-> Chain(kind)[i]]

\* How much of it a call holds at step s.
Depth(kind, s) ==
  IF kind = "zero_copy"
  THEN IF s <= 2 THEN 0 ELSE IF s = 3 THEN 1 ELSE IF s <= 6 THEN 2 ELSE IF s = 7 THEN 3
       ELSE IF s <= 10 THEN 4 ELSE IF s = 11 THEN 3 ELSE 2
  ELSE IF s <= 2 THEN 0 ELSE IF s = 3 THEN 1 ELSE IF s = 4 THEN 2 ELSE IF s = 5 THEN 3
       ELSE IF s <= 10 THEN 4 ELSE 3

\* The sync after the memset.
SyncStep(kind) == IF kind = "zero_copy" THEN 9 ELSE 7

Place ==
  /\ doing = "out" <=> lock = None
  /\ lock # None => op \in Kinds
  /\ doing \in {"out", "create"} => step = 1 /\ held = << >> /\ side = "vulkan"
  /\ doing # "unwind" => outcome = "none"
  /\ doing = "script" /\ step # 1 => current[lock] = Bridge

Nested ==
  lock # None =>
    \E k \in 0 .. 4 :
      /\ held = Stack(op, k)
      /\ doing = "script" => k = Depth(op, step)
      /\ doing = "unwind" /\ op = "zero_copy" /\ side = "vulkan" => k <= 2

Sides == doing = "script" /\ op = "zero_copy" => (side = "vulkan" <=> step \notin 6 .. 12)

Awaited ==
  \/ unsynced
  \/ running = {}
  \/ /\ doing = "script" /\ step = SyncStep(op)
     /\ \A job \in running :
          ~job.stray /\ job.device = current[lock] /\ job.target = Target

\* How far the pattern has come.
Reached(a) == memory[a] = "pattern"
Written ==
  doing = "script" /\ ~unsynced =>
    /\ op = "zero_copy" =>
         /\ step >= 10 \/ (step = 9 /\ running = {}) => Reached("shared")
         /\ step = 13 => Reached("staging")
    /\ op = "copy" =>
         /\ step >= 8 \/ (step = 7 /\ running = {}) => Reached("malloc")
         /\ step >= 9 => Reached("relay")
         /\ step >= 12 => Reached("upload")
         /\ step >= 13 => Reached("device_buffer")
         /\ step >= 14 => Reached("readback")

Concluded ==
  doing = "unwind" /\ ~unsynced =>
    \/ outcome = "ok" /\ Reached(Verified)
    \/ outcome = "driver" /\ fault

BridgeInv == TypeOK /\ Place /\ Nested /\ Sides /\ Awaited /\ Written /\ Concluded

-----------------------------------------------------------------------------
(* The scripts and the chain *)

LEMMA ZeroCopySteps ==
  ASSUME NEW s \in 1 .. 13
  PROVE  /\ ZeroCopy[s] = "select" <=> s = 1
         /\ ZeroCopy[s] = "shared" <=> s = 2
         /\ ZeroCopy[s] = "staging" <=> s = 3
         /\ ZeroCopy[s] = "export" <=> s = 4
         /\ ZeroCopy[s] = "release" <=> s = 5
         /\ ZeroCopy[s] = "import" <=> s = 6
         /\ ZeroCopy[s] = "mapping" <=> s = 7
         /\ ZeroCopy[s] = "memset" <=> s = 8
         /\ ZeroCopy[s] = "sync" <=> s = 9
         /\ ZeroCopy[s] = "unmap" <=> s = 10
         /\ ZeroCopy[s] = "unimport" <=> s = 11
         /\ ZeroCopy[s] = "acquire_copy" <=> s = 12
         /\ ZeroCopy[s] = "verify" <=> s = 13
         /\ ZeroCopy[s] \notin {"upload", "device_buffer", "readback", "malloc", "relay",
                                "free", "write", "upload_copy", "readback_copy"}
<1>1. \/ s = 1 \/ s = 2 \/ s = 3 \/ s = 4 \/ s = 5 \/ s = 6 \/ s = 7 \/ s = 8 \/ s = 9
      \/ s = 10 \/ s = 11 \/ s = 12 \/ s = 13
  OBVIOUS
<1>2. QED
  BY <1>1 DEF ZeroCopy

LEMMA CopySteps ==
  ASSUME NEW s \in 1 .. 14
  PROVE  /\ CopyFallback[s] = "select" <=> s = 1
         /\ CopyFallback[s] = "upload" <=> s = 2
         /\ CopyFallback[s] = "device_buffer" <=> s = 3
         /\ CopyFallback[s] = "readback" <=> s = 4
         /\ CopyFallback[s] = "malloc" <=> s = 5
         /\ CopyFallback[s] = "memset" <=> s = 6
         /\ CopyFallback[s] = "sync" <=> s \in {7, 9}
         /\ CopyFallback[s] = "relay" <=> s = 8
         /\ CopyFallback[s] = "free" <=> s = 10
         /\ CopyFallback[s] = "write" <=> s = 11
         /\ CopyFallback[s] = "upload_copy" <=> s = 12
         /\ CopyFallback[s] = "readback_copy" <=> s = 13
         /\ CopyFallback[s] = "verify" <=> s = 14
         /\ CopyFallback[s] \notin {"shared", "staging", "export", "release", "import",
                                    "mapping", "unmap", "unimport", "acquire_copy"}
<1>1. \/ s = 1 \/ s = 2 \/ s = 3 \/ s = 4 \/ s = 5 \/ s = 6 \/ s = 7 \/ s = 8 \/ s = 9
      \/ s = 10 \/ s = 11 \/ s = 12 \/ s = 13 \/ s = 14
  OBVIOUS
<1>2. QED
  BY <1>1 DEF CopyFallback

LEMMA ScriptLengths == Len(Script("zero_copy")) = 13 /\ Len(Script("copy")) = 14
BY DEF Script, ZeroCopy, CopyFallback

LEMMA EveryScript == \A kind : 1 \in 1 .. Len(Script(kind))
<1>1. Len(ZeroCopy) = 13 /\ Len(CopyFallback) = 14
  BY DEF ZeroCopy, CopyFallback
<1>2. \A kind : Script(kind) = ZeroCopy \/ Script(kind) = CopyFallback
  BY DEF Script
<1>3. QED
  BY <1>1, <1>2

\* A call in its script is at a step of one of the two.
LEMMA InScript ==
  ASSUME TypeOK, Place, doing = "script"
  PROVE  /\ lock \in Threads /\ lock # None /\ step \in Nat
         /\ \/ op = "zero_copy" /\ step \in 1 .. 13 /\ Script(op) = ZeroCopy
            \/ op = "copy" /\ step \in 1 .. 14 /\ Script(op) = CopyFallback
<1>1. lock \in Threads /\ lock # None /\ op \in Kinds
  BY DEF TypeOK, Place
<1>2. step \in 1 .. Len(Script(op))
  BY DEF TypeOK
<1>3. CASE op = "zero_copy"
  <2>1. Script(op) = ZeroCopy /\ Len(Script(op)) = 13
    BY <1>3, ScriptLengths DEF Script
  <2>2. step \in 1 .. 13 /\ step \in Nat
    BY <1>2, <2>1
  <2>3. QED
    BY <1>1, <1>3, <2>1, <2>2
<1>4. CASE op = "copy"
  <2>1. Script(op) = CopyFallback /\ Len(Script(op)) = 14
    BY <1>4, ScriptLengths DEF Script
  <2>2. step \in 1 .. 14 /\ step \in Nat
    BY <1>2, <2>1
  <2>3. QED
    BY <1>1, <1>4, <2>1, <2>2
<1>5. QED
  BY <1>1, <1>3, <1>4 DEF Kinds

LEMMA ChainLinks ==
  ASSUME NEW kind \in Kinds
  PROVE  Chain(kind) \in Seq(Resources) /\ Len(Chain(kind)) = 4
<1>1. CASE kind = "zero_copy"
  BY <1>1 DEF Chain, Resources
<1>2. CASE kind = "copy"
  BY <1>2 DEF Chain, Resources
<1>3. QED
  BY <1>1, <1>2 DEF Kinds

LEMMA StackType ==
  ASSUME NEW kind \in Kinds, NEW k \in 0 .. 4
  PROVE  /\ Stack(kind, k) \in Seq(Resources) /\ Len(Stack(kind, k)) = k
         /\ DOMAIN Stack(kind, k) = 1 .. k
         /\ \A i \in 1 .. k : Stack(kind, k)[i] = Chain(kind)[i]
<1>1. \A i \in 1 .. k : Chain(kind)[i] \in Resources
  BY ChainLinks
<1>2. QED
  BY <1>1 DEF Stack

LEMMA StackInSeq ==
  ASSUME NEW kind \in Kinds, NEW k \in 0 .. 4
  PROVE  Stack(kind, k) \in Seq(Resources)
BY StackType

LEMMA StackEmpty ==
  ASSUME NEW kind \in Kinds
  PROVE  Stack(kind, 0) = << >>
<1>1. Stack(kind, 0) \in Seq(Resources)
  BY StackInSeq
<1>2. Len(Stack(kind, 0)) = 0
  BY StackType
<1>3. QED
  BY <1>1, <1>2

LEMMA StackGrows ==
  ASSUME NEW kind \in Kinds, NEW k \in 0 .. 3
  PROVE  /\ Append(Stack(kind, k), Chain(kind)[k + 1]) = Stack(kind, k + 1)
         /\ Front(Stack(kind, k + 1)) = Stack(kind, k)
         /\ Stack(kind, k + 1) # << >>
<1>1. Chain(kind) \in Seq(Resources) /\ Len(Chain(kind)) = 4
  BY ChainLinks
<1> k \in 0 .. 4 /\ k + 1 \in 0 .. 4
  OBVIOUS
<1>2. Stack(kind, k) \in Seq(Resources) /\ Len(Stack(kind, k)) = k
  BY StackType
<1>3. Stack(kind, k + 1) \in Seq(Resources) /\ Len(Stack(kind, k + 1)) = k + 1
  BY StackType
<1>4. Append(Stack(kind, k), Chain(kind)[k + 1]) = Stack(kind, k + 1)
  BY <1>1, <1>2, <1>3 DEF Stack
<1>5. Front(Stack(kind, k + 1)) = SubSeq(Stack(kind, k + 1), 1, k)
  BY <1>3 DEF Front
<1>6. SubSeq(Stack(kind, k + 1), 1, k) = Stack(kind, k)
  BY <1>1, <1>3 DEF Stack
<1>7. QED
  BY <1>3, <1>4, <1>5, <1>6

LEMMA StackIsHeld ==
  ASSUME NEW kind \in Kinds, NEW k \in 0 .. 4, held = Stack(kind, k)
  PROVE  /\ held \in Seq(Resources)
         /\ held = << >> <=> k = 0
         /\ Holds("shared") <=> kind = "zero_copy" /\ k >= 1
         /\ Holds("import") <=> kind = "zero_copy" /\ k >= 3
         /\ Holds("mapping") <=> kind = "zero_copy" /\ k = 4
         /\ Holds("malloc") <=> kind = "copy" /\ k = 4
<1>1. Chain(kind) \in Seq(Resources) /\ Len(Chain(kind)) = 4
  BY ChainLinks
<1>2. held \in Seq(Resources) /\ Len(held) = k /\ DOMAIN held = 1 .. k
  BY StackType
<1>3. \A i \in 1 .. k : held[i] = Chain(kind)[i]
  BY StackType
<1>4. \A i \in 1 .. 4 :
        /\ Chain(kind)[i] = "shared" <=> kind = "zero_copy" /\ i = 1
        /\ Chain(kind)[i] = "import" <=> kind = "zero_copy" /\ i = 3
        /\ Chain(kind)[i] = "mapping" <=> kind = "zero_copy" /\ i = 4
        /\ Chain(kind)[i] = "malloc" <=> kind = "copy" /\ i = 4
  <2>1. \A i \in 1 .. 4 : i = 1 \/ i = 2 \/ i = 3 \/ i = 4
    OBVIOUS
  <2>2. QED
    BY <2>1 DEF Chain, Kinds
<1>5. held = << >> <=> k = 0
  BY <1>2
<1>6. QED
  BY <1>2, <1>3, <1>4, <1>5 DEF Holds

-----------------------------------------------------------------------------
(* Entering, creating and leaving *)

LEMMA InitEstablishes == Init => BridgeInv
<1> SUFFICES ASSUME Init PROVE BridgeInv
  OBVIOUS
<1>1. step \in 1 .. Len(Script(op))
  BY EveryScript DEF Init
<1>2. TypeOK
  <2>1. {runtime, fault, unsynced} \subseteq BOOLEAN
    BY Zenon DEF Init
  <2>2. held \in Seq(Resources) /\ memory \in [Allocations -> {"stale", "pattern"}]
    BY DEF Init
  <2>3. current \in [Threads -> Devices]
    BY DEF Init
  <2>4. QED
    BY <1>1, <2>1, <2>2, <2>3 DEF Init, TypeOK
<1>3. Place /\ Nested /\ Sides /\ Awaited /\ Written /\ Concluded
  BY DEF Init, Place, Nested, Sides, Awaited, Written, Concluded
<1>4. QED
  BY <1>2, <1>3 DEF BridgeInv

\* The frame of a step of the call that the mutex admits.
LEMMA EnterPreserves ==
  ASSUME BridgeInv, NEW t \in Threads, NEW kind \in Kinds, Enter(t, kind)
  PROVE  BridgeInv'
<1> USE DEF BridgeInv, Enter
<1>1. t # None /\ step = 1 /\ held = << >> /\ side = "vulkan" /\ outcome = "none" /\ doing = "out"
  BY NoneIsNoValue DEF Place
<1>2. TypeOK'
  <2>1. step' \in 1 .. Len(Script(op)')
    BY <1>1, EveryScript
  <2>2. QED
    BY <1>1, <2>1 DEF TypeOK, Kinds
<1>3. Place'
  BY <1>1 DEF Place
<1>4. Nested'
  <2>1. Stack(kind, 0) = << >>
    BY StackEmpty
  <2>2. Depth(kind, 1) = 0
    BY DEF Depth
  <2>3. QED
    BY <1>1, <2>1, <2>2 DEF Nested
<1>5. Sides' /\ Awaited' /\ Written' /\ Concluded'
  BY <1>1 DEF Sides, Awaited, Written, Reached, Concluded
<1>6. QED
  BY <1>2, <1>3, <1>4, <1>5

LEMMA CreatePreserves ==
  ASSUME BridgeInv, NEW t \in Threads, Create(t) \/ CreateFails(t)
  PROVE  BridgeInv'
<1> USE DEF BridgeInv
<1>1. /\ t # None /\ lock = t /\ doing = "create" /\ step = 1 /\ held = << >>
      /\ side = "vulkan" /\ outcome = "none" /\ op \in Kinds
      /\ step' = step /\ op' = op /\ held' = held /\ lock' = lock /\ side' = side
  BY NoneIsNoValue DEF Place, Create, CreateFails
<1>2. Stack(op, 0) = << >> /\ Depth(op, 1) = 0
  BY <1>1, StackEmpty DEF Depth
<1>3. Nested'
  BY <1>1, <1>2 DEF Nested, Create, CreateFails, Conclude
<1>4. Sides' /\ Written'
  BY <1>1 DEF Sides, Written, Create, CreateFails, Conclude
<1>5. Script(op)' = Script(op)
  BY <1>1
<1>6. CASE Create(t)
  <2>1. TypeOK'
    <3>1. {runtime', fault', unsynced'} \subseteq BOOLEAN
      BY <1>6, Zenon DEF Create, TypeOK
    <3>2. current' \in [Threads -> Devices]
      BY <1>6, BridgeIsADevice DEF Create, TypeOK
    <3>3. QED
      BY <1>5, <1>6, <3>1, <3>2 DEF Create, TypeOK
  <2>2. Place' /\ Awaited' /\ Concluded'
    BY <1>1, <1>6 DEF Create, Place, Awaited, Concluded
  <2>3. QED
    BY <1>3, <1>4, <2>1, <2>2
<1>7. CASE CreateFails(t)
  <2>1. TypeOK'
    <3>1. {runtime', fault', unsynced'} \subseteq BOOLEAN
      BY <1>7, Zenon DEF CreateFails, TypeOK
    <3>2. QED
      BY <1>5, <1>7, <3>1 DEF CreateFails, Conclude, TypeOK
  <2>2. Place' /\ Awaited' /\ Concluded'
    BY <1>1, <1>7 DEF CreateFails, Conclude, Place, Awaited, Concluded
  <2>3. QED
    BY <1>3, <1>4, <2>1, <2>2
<1>8. QED
  BY <1>6, <1>7

-----------------------------------------------------------------------------
(* The steps of a script *)

\* Where in the scripts a step's name is.
LEMMA WhereAt ==
  ASSUME BridgeInv, NEW t \in Threads, lock = t, doing = "script"
  PROVE  /\ step \in Nat /\ t # None /\ op \in Kinds
         /\ op = "zero_copy" =>
              /\ step \in 1 .. 13
              /\ At(t, "select") <=> step = 1
              /\ At(t, "memset") <=> step = 8
              /\ At(t, "sync") <=> step = 9
              /\ At(t, "verify") <=> step = 13
              /\ At(t, "export") <=> step = 4
              /\ At(t, "release") <=> step = 5
              /\ At(t, "import") <=> step = 6
              /\ (At(t, "unmap") \/ At(t, "unimport") \/ At(t, "free")) <=> step \in {10, 11}
              /\ \A r \in Resources : At(t, r) => step \in {2, 3, 6, 7} /\ r = Chain(op)[Depth(op, step) + 1]
              /\ \A x \in DOMAIN Transfers : At(t, x) <=> step = 12 /\ x = "acquire_copy"
         /\ op = "copy" =>
              /\ step \in 1 .. 14
              /\ At(t, "select") <=> step = 1
              /\ At(t, "memset") <=> step = 6
              /\ At(t, "sync") <=> step \in {7, 9}
              /\ At(t, "verify") <=> step = 14
              /\ ~At(t, "export") /\ ~At(t, "release") /\ ~At(t, "import")
              /\ (At(t, "unmap") \/ At(t, "unimport") \/ At(t, "free")) <=> step = 10
              /\ \A r \in Resources : At(t, r) => step \in 2 .. 5 /\ r = Chain(op)[Depth(op, step) + 1]
              /\ \A x \in DOMAIN Transfers :
                   At(t, x) <=> \/ step = 8 /\ x = "relay"
                                \/ step = 11 /\ x = "write"
                                \/ step = 12 /\ x = "upload_copy"
                                \/ step = 13 /\ x = "readback_copy"
<1>1. /\ lock # None /\ step \in Nat
      /\ \/ op = "zero_copy" /\ step \in 1 .. 13 /\ Script(op) = ZeroCopy
         \/ op = "copy" /\ step \in 1 .. 14 /\ Script(op) = CopyFallback
  BY InScript DEF BridgeInv
<1>2. DOMAIN Transfers = {"acquire_copy", "relay", "write", "upload_copy", "readback_copy"}
  BY DEF Transfers
<1>3. \A name : At(t, name) <=> Script(op)[step] = name
  BY DEF At
<1>4. CASE op = "zero_copy"
  <2>1. step \in 1 .. 13 /\ \A name : At(t, name) <=> ZeroCopy[step] = name
    BY <1>1, <1>3, <1>4
  <2>2. /\ At(t, "select") <=> step = 1
        /\ At(t, "shared") <=> step = 2
        /\ At(t, "staging") <=> step = 3
        /\ At(t, "export") <=> step = 4
        /\ At(t, "release") <=> step = 5
        /\ At(t, "import") <=> step = 6
        /\ At(t, "mapping") <=> step = 7
        /\ At(t, "memset") <=> step = 8
        /\ At(t, "sync") <=> step = 9
        /\ At(t, "unmap") <=> step = 10
        /\ At(t, "unimport") <=> step = 11
        /\ At(t, "acquire_copy") <=> step = 12
        /\ At(t, "verify") <=> step = 13
    BY <2>1, ZeroCopySteps
  <2>3. \A name \in {"upload", "device_buffer", "readback", "malloc", "relay", "free", "write",
                     "upload_copy", "readback_copy"} : ~At(t, name)
    BY <2>1, ZeroCopySteps
  <2>4. \A r \in Resources :
          At(t, r) => step \in {2, 3, 6, 7} /\ r = Chain(op)[Depth(op, step) + 1]
    BY <1>4, <2>2, <2>3 DEF Resources, Chain, Depth
  <2>5. \A x \in DOMAIN Transfers : At(t, x) <=> step = 12 /\ x = "acquire_copy"
    BY <1>2, <2>2, <2>3
  <2>6. QED
    BY <1>1, <1>4, <2>1, <2>2, <2>3, <2>4, <2>5 DEF Kinds
<1>5. CASE op = "copy"
  <2>1. step \in 1 .. 14 /\ \A name : At(t, name) <=> CopyFallback[step] = name
    BY <1>1, <1>3, <1>5
  <2>2. /\ At(t, "select") <=> step = 1
        /\ At(t, "upload") <=> step = 2
        /\ At(t, "device_buffer") <=> step = 3
        /\ At(t, "readback") <=> step = 4
        /\ At(t, "malloc") <=> step = 5
        /\ At(t, "memset") <=> step = 6
        /\ At(t, "sync") <=> step \in {7, 9}
        /\ At(t, "relay") <=> step = 8
        /\ At(t, "free") <=> step = 10
        /\ At(t, "write") <=> step = 11
        /\ At(t, "upload_copy") <=> step = 12
        /\ At(t, "readback_copy") <=> step = 13
        /\ At(t, "verify") <=> step = 14
    BY <2>1, CopySteps
  <2>3. \A name \in {"shared", "staging", "export", "release", "import", "mapping", "unmap",
                     "unimport", "acquire_copy"} : ~At(t, name)
    BY <2>1, CopySteps
  <2>4. \A r \in Resources :
          At(t, r) => step \in 2 .. 5 /\ r = Chain(op)[Depth(op, step) + 1]
    BY <1>5, <2>2, <2>3 DEF Resources, Chain, Depth
  <2>5. \A x \in DOMAIN Transfers :
          At(t, x) <=> \/ step = 8 /\ x = "relay"
                       \/ step = 11 /\ x = "write"
                       \/ step = 12 /\ x = "upload_copy"
                       \/ step = 13 /\ x = "readback_copy"
    BY <1>2, <2>2, <2>3
  <2>6. QED
    BY <1>1, <1>5, <2>1, <2>2, <2>3, <2>4, <2>5 DEF Kinds
<1>6. QED
  BY <1>1, <1>4, <1>5

\* A step within the script: the next place exists, and the memset a call waits for is
\* only waited for at its sync.
LEMMA StepFrame ==
  ASSUME BridgeInv, NEW t \in Threads, lock = t, doing = "script", ~At(t, "verify")
  PROVE  /\ step + 1 \in 1 .. Len(Script(op))
         /\ op \in Kinds /\ step \in Nat
         /\ ~At(t, "sync") /\ ~unsynced => running = {}
<1>1. CASE op = "zero_copy"
  <2>1. step \in 1 .. 13 /\ step # 13 /\ (At(t, "sync") <=> step = 9)
    BY <1>1, WhereAt
  <2>2. Len(Script(op)) = 13
    BY <1>1, ScriptLengths
  <2>3. ~At(t, "sync") /\ ~unsynced => running = {}
    BY <1>1, <2>1 DEF BridgeInv, Awaited, SyncStep
  <2>4. step + 1 \in 1 .. Len(Script(op)) /\ op \in Kinds /\ step \in Nat
    <3>1. step + 1 \in 1 .. 13 /\ step \in Nat
      BY <2>1
    <3>2. op \in Kinds
      BY <1>1 DEF Kinds
    <3>3. 1 .. Len(Script(op)) = 1 .. 13
      BY <2>2
    <3>4. QED
      BY <3>1, <3>2, <3>3
  <2>5. QED
    BY <2>3, <2>4
<1>2. CASE op = "copy"
  <2>1. step \in 1 .. 14 /\ step # 14 /\ (At(t, "sync") <=> step \in {7, 9})
    BY <1>2, WhereAt
  <2>2. Len(Script(op)) = 14
    BY <1>2, ScriptLengths
  <2>3. ~At(t, "sync") /\ ~unsynced => running = {}
    BY <1>2, <2>1 DEF BridgeInv, Awaited, SyncStep
  <2>4. step + 1 \in 1 .. Len(Script(op)) /\ op \in Kinds /\ step \in Nat
    <3>1. step + 1 \in 1 .. 14 /\ step \in Nat
      BY <2>1
    <3>2. op \in Kinds
      BY <1>2 DEF Kinds
    <3>3. 1 .. Len(Script(op)) = 1 .. 14
      BY <2>2
    <3>4. QED
      BY <3>1, <3>2, <3>3
  <2>5. QED
    BY <2>3, <2>4
<1>3. QED
  BY <1>1, <1>2, WhereAt DEF Kinds

LEMMA SelectPreserves == ASSUME BridgeInv, NEW t \in Threads, SelectDevice(t) PROVE BridgeInv'
<1>1. lock = t /\ doing = "script" /\ At(t, "select") /\ step = 1 /\ op \in Kinds /\ t # None
  <2>1. lock = t /\ doing = "script" /\ At(t, "select")
    BY DEF SelectDevice, At
  <2>2. QED
    BY <2>1, WhereAt DEF Kinds
<1>2. ~At(t, "verify") /\ ~At(t, "sync")
  BY <1>1 DEF At
<1>3. step' = 2 /\ 2 \in 1 .. Len(Script(op)) /\ (~unsynced => running = {})
  BY <1>1, <1>2, StepFrame DEF SelectDevice, Advance
<1>4. current' \in [Threads -> Devices] /\ current'[t] = Bridge
  BY BridgeIsADevice DEF SelectDevice, Selected, BridgeInv, TypeOK
<1>5. TypeOK'
  BY <1>3, <1>4 DEF SelectDevice, BridgeInv, TypeOK
<1>6. Place'
  BY <1>1, <1>4 DEF SelectDevice, BridgeInv, Place
<1>7. Nested'
  BY <1>1, <1>3 DEF SelectDevice, BridgeInv, Nested, Depth
<1>8. Sides' /\ Awaited' /\ Written' /\ Concluded'
  BY <1>1, <1>3 DEF SelectDevice, BridgeInv, Sides, Awaited, Written, Concluded, Reached
<1>9. QED
  BY <1>5, <1>6, <1>7, <1>8 DEF BridgeInv

LEMMA ObtainPreserves == ASSUME BridgeInv, NEW t \in Threads, Obtain(t) PROVE BridgeInv'
<1>1. PICK r \in Resources :
        At(t, r) /\ (r = "import" => current[t] = Bridge) /\ held' = Append(held, r)
  BY DEF Obtain
<1>2. lock = t /\ doing = "script" /\ t # None /\ op \in Kinds
  <2>1. lock = t /\ doing = "script"
    BY <1>1 DEF At
  <2>2. QED
    BY <2>1, WhereAt
<1>3. ~At(t, "verify") /\ ~At(t, "sync")
  BY <1>1 DEF At, Resources
<1>4. step' = step + 1 /\ step + 1 \in 1 .. Len(Script(op)) /\ (~unsynced => running = {})
  BY <1>2, <1>3, StepFrame DEF Obtain, Advance
<1>5. /\ r = Chain(op)[Depth(op, step) + 1]
      /\ Depth(op, step) \in 0 .. 3 /\ Depth(op, step + 1) = Depth(op, step) + 1
  <2>1. CASE op = "zero_copy"
    BY <1>1, <1>2, <2>1, WhereAt DEF Depth
  <2>2. CASE op = "copy"
    BY <1>1, <1>2, <2>2, WhereAt DEF Depth
  <2>3. QED
    BY <1>2, <2>1, <2>2 DEF Kinds
<1>6. held = Stack(op, Depth(op, step)) /\ held' = Stack(op, Depth(op, step + 1))
  BY <1>1, <1>2, <1>5, StackGrows DEF BridgeInv, Nested
<1>7. TypeOK'
  <2>1. held' \in Seq(Resources)
    BY <1>2, <1>5, <1>6, StackInSeq
  <2>2. QED
    BY <1>4, <2>1 DEF Obtain, BridgeInv, TypeOK
<1>8. step \in 2 .. 7 /\ (op = "copy" => step <= 5) /\ (op = "zero_copy" => step \in {2, 3, 6, 7})
  <2>1. CASE op = "zero_copy"
    BY <1>1, <1>2, <2>1, WhereAt
  <2>2. CASE op = "copy"
    BY <1>1, <1>2, <2>2, WhereAt
  <2>3. QED
    BY <1>2, <2>1, <2>2 DEF Kinds
<1>9. Place'
  BY <1>2, <1>8 DEF Obtain, BridgeInv, Place
<1>10. Nested'
  BY <1>2, <1>4, <1>5, <1>6 DEF Obtain, Nested
<1>11. Sides' /\ Awaited' /\ Written' /\ Concluded'
  BY <1>2, <1>4, <1>8
     DEF Obtain, BridgeInv, Sides, Awaited, Written, Concluded, Reached, Kinds
<1>12. QED
  BY <1>7, <1>9, <1>10, <1>11 DEF BridgeInv

LEMMA ExportPreserves ==
  ASSUME BridgeInv, NEW t \in Threads, Export(t) \/ Release(t)
  PROVE  BridgeInv'
<1>1. lock = t /\ doing = "script" /\ t # None /\ ~At(t, "verify") /\ ~At(t, "sync")
  BY NoneIsNoValue DEF Export, Release, At
<1>2. op = "zero_copy" /\ step \in {4, 5} /\ (Export(t) => step = 4) /\ (Release(t) => step = 5)
  <2>1. At(t, "export") \/ At(t, "release")
    BY DEF Export, Release
  <2>2. op = "zero_copy"
    BY <1>1, <2>1, WhereAt DEF Kinds
  <2>3. QED
    BY <1>1, <2>1, <2>2, WhereAt DEF Export, Release
<1>3. step' = step + 1 /\ step + 1 \in 1 .. Len(Script(op)) /\ (~unsynced => running = {})
  BY <1>1, StepFrame DEF Export, Release, Advance
<1>4. UNCHANGED <<lock, runtime, doing, op, held, memory, outcome, fault, current, running,
                  unsynced>>
  BY DEF Export, Release
<1>5. side' \in {"vulkan", "external"} /\ (side' = "vulkan" <=> step' \notin 6 .. 12)
  BY <1>1, <1>2, <1>3 DEF Export, Release, BridgeInv, TypeOK, Sides
<1>6. TypeOK'
  BY <1>3, <1>4, <1>5 DEF BridgeInv, TypeOK
<1>7. Place'
  BY <1>1, <1>2, <1>4 DEF BridgeInv, Place
<1>8. Nested'
  BY <1>1, <1>2, <1>3, <1>4 DEF BridgeInv, Nested, Depth
<1>9. Sides' /\ Awaited' /\ Written' /\ Concluded'
  BY <1>1, <1>2, <1>3, <1>4, <1>5
     DEF BridgeInv, Sides, Awaited, Written, Concluded, Reached
<1>10. QED
  BY <1>6, <1>7, <1>8, <1>9 DEF BridgeInv

LEMMA MemsetPreserves == ASSUME BridgeInv, NEW t \in Threads, Memset(t) PROVE BridgeInv'
<1>1. lock = t /\ doing = "script" /\ t # None /\ At(t, "memset") /\ op \in Kinds
  <2>1. lock = t /\ doing = "script" /\ At(t, "memset")
    BY DEF Memset, At
  <2>2. QED
    BY <2>1, WhereAt
<1>2. ~At(t, "verify") /\ ~At(t, "sync")
  BY <1>1 DEF At
<1>3. step' = step + 1 /\ step + 1 \in 1 .. Len(Script(op)) /\ (~unsynced => running = {})
  BY <1>1, <1>2, StepFrame DEF Memset, Advance
<1>4. step = (IF op = "zero_copy" THEN 8 ELSE 6) /\ step + 1 = SyncStep(op)
  <2>1. CASE op = "zero_copy"
    BY <1>1, <2>1, WhereAt DEF SyncStep
  <2>2. CASE op = "copy"
    BY <1>1, <2>2, WhereAt DEF SyncStep
  <2>3. QED
    BY <1>1, <2>1, <2>2 DEF Kinds
<1>5. UNCHANGED <<lock, runtime, doing, op, held, memory, side, outcome, fault, current,
                  unsynced>>
  BY DEF Memset
<1>6. current[t] \in Devices /\ current[lock] = Bridge
  BY <1>1, <1>4 DEF BridgeInv, TypeOK, Place
<1>7. TypeOK'
  <2>1. Target \in Allocations
    BY DEF Target, Allocations, Resources
  <2>2. running' \subseteq [device : Devices, target : Allocations, stray : BOOLEAN]
    <3>1. [device |-> current[t], target |-> Target, stray |-> FALSE]
            \in [device : Devices, target : Allocations, stray : BOOLEAN]
      BY <1>6, <2>1
    <3>2. running \subseteq [device : Devices, target : Allocations, stray : BOOLEAN]
      BY DEF BridgeInv, TypeOK
    <3>3. QED
      BY <3>1, <3>2, Zenon DEF Memset
  <2>3. QED
    BY <1>3, <1>5, <2>2 DEF BridgeInv, TypeOK
<1>8. Place'
  BY <1>1, <1>5, <1>6 DEF BridgeInv, Place
<1>9. Nested'
  BY <1>1, <1>3, <1>4, <1>5 DEF BridgeInv, Nested, Depth
<1>10. Awaited'
  <2>1. CASE unsynced
    BY <1>5, <2>1 DEF Awaited
  <2>2. CASE ~unsynced
    <3>1. running' = {[device |-> current[t], target |-> Target, stray |-> FALSE]}
      BY <1>3, <2>2 DEF Memset
    <3>2. Target' = Target
      BY <1>5 DEF Target
    <3>3. QED
      BY <1>1, <1>3, <1>4, <1>5, <3>1, <3>2 DEF Awaited
  <2>3. QED
    BY <2>1, <2>2
<1>11. Sides' /\ Concluded'
  BY <1>1, <1>3, <1>4, <1>5 DEF BridgeInv, Sides, Concluded
<1>12. Written'
  <2>1. running' # {}
    BY DEF Memset
  <2>2. QED
    BY <1>1, <1>3, <1>4, <1>5, <2>1 DEF Written, Kinds
<1>13. QED
  BY <1>7, <1>8, <1>9, <1>10, <1>11, <1>12 DEF BridgeInv

\* The host goes on once the device, and so the memset, has finished.
LEMMA SynchronizePreserves ==
  ASSUME BridgeInv, NEW t \in Threads, Synchronize(t)
  PROVE  BridgeInv'
<1>1. lock = t /\ doing = "script" /\ t # None /\ At(t, "sync") /\ op \in Kinds
  <2>1. lock = t /\ doing = "script" /\ At(t, "sync")
    BY DEF Synchronize, At
  <2>2. QED
    BY <2>1, WhereAt
<1>2. ~At(t, "verify")
  BY <1>1 DEF At
<1>3. step' = step + 1 /\ step + 1 \in 1 .. Len(Script(op)) /\ step \in Nat
  BY <1>1, <1>2, StepFrame DEF Synchronize, Advance
<1>4. (op = "zero_copy" => step = 9) /\ (op = "copy" => step \in {7, 9})
  BY <1>1, WhereAt
<1>5. ~unsynced => running = {}
  BY <1>1 DEF Synchronize, DeviceIdle, BridgeInv, Awaited
<1>6. UNCHANGED <<lock, runtime, doing, op, held, memory, side, outcome, fault, current,
                  running, unsynced>>
  BY DEF Synchronize
<1>7. TypeOK'
  BY <1>3, <1>6 DEF BridgeInv, TypeOK
<1>8. Place'
  BY <1>1, <1>4, <1>6 DEF BridgeInv, Place, Kinds
<1>9. Nested'
  <2>1. Depth(op, step + 1) = Depth(op, step)
    BY <1>1, <1>4 DEF Depth, Kinds
  <2>2. QED
    BY <1>1, <1>3, <1>6, <2>1 DEF BridgeInv, Nested
<1>10. Sides' /\ Awaited' /\ Concluded'
  BY <1>1, <1>3, <1>4, <1>5, <1>6 DEF BridgeInv, Sides, Awaited, Concluded
<1>11. Written'
  BY <1>1, <1>3, <1>4, <1>5, <1>6 DEF BridgeInv, Written, Reached, Kinds
<1>12. QED
  BY <1>7, <1>8, <1>9, <1>10, <1>11 DEF BridgeInv

\* The pattern moves on along the script.
LEMMA TransferPreserves == ASSUME BridgeInv, NEW t \in Threads, Transfer(t) PROVE BridgeInv'
<1>1. PICK x \in DOMAIN Transfers :
        /\ At(t, x)
        /\ memory' = [memory EXCEPT ![Transfers[x][2]] = memory[Transfers[x][1]]]
        /\ side' = IF x = "acquire_copy" THEN "vulkan" ELSE side
  BY DEF Transfer
<1>2. lock = t /\ doing = "script" /\ t # None /\ op \in Kinds
  <2>1. lock = t /\ doing = "script"
    BY <1>1 DEF At
  <2>2. QED
    BY <2>1, WhereAt
<1>3. /\ op = "zero_copy" => step = 12 /\ x = "acquire_copy"
      /\ op = "copy" => \/ step = 8 /\ x = "relay"
                        \/ step = 11 /\ x = "write"
                        \/ step = 12 /\ x = "upload_copy"
                        \/ step = 13 /\ x = "readback_copy"
  BY <1>1, <1>2, WhereAt
<1>4. ~At(t, "verify") /\ ~At(t, "sync")
  BY <1>1 DEF At, Transfers
<1>5. step' = step + 1 /\ step + 1 \in 1 .. Len(Script(op)) /\ (~unsynced => running = {})
  BY <1>2, <1>4, StepFrame DEF Transfer, Advance
<1>6. UNCHANGED <<lock, runtime, doing, op, held, outcome, fault, current, running, unsynced>>
  BY DEF Transfer
<1>7. Transfers[x] = IF x = "acquire_copy" THEN <<"shared", "staging">>
                     ELSE IF x = "relay" THEN <<"malloc", "relay">>
                     ELSE IF x = "write" THEN <<"relay", "upload">>
                     ELSE IF x = "upload_copy" THEN <<"upload", "device_buffer">>
                     ELSE <<"device_buffer", "readback">>
  BY <1>1 DEF Transfers
<1>8. TypeOK'
  <2>1. Transfers[x][1] \in Allocations /\ Transfers[x][2] \in Allocations
    BY <1>7 DEF Allocations, Resources
  <2>2. memory' \in [Allocations -> {"stale", "pattern"}]
    BY <1>1, <2>1 DEF BridgeInv, TypeOK
  <2>3. QED
    BY <1>1, <1>5, <1>6, <2>2 DEF BridgeInv, TypeOK
<1>9. Place'
  BY <1>2, <1>3, <1>6 DEF BridgeInv, Place, Kinds
<1>10. Nested'
  <2>1. Depth(op, step + 1) = Depth(op, step)
    BY <1>2, <1>3 DEF Depth, Kinds
  <2>2. QED
    BY <1>2, <1>5, <1>6, <2>1 DEF BridgeInv, Nested
<1>11. Sides' /\ Awaited' /\ Concluded'
  BY <1>1, <1>2, <1>3, <1>5, <1>6 DEF BridgeInv, Sides, Awaited, Concluded
<1>12. Written'
  <2>1. \A a \in Allocations :
          memory'[a] = IF a = Transfers[x][2] THEN memory[Transfers[x][1]] ELSE memory[a]
    BY <1>1 DEF BridgeInv, TypeOK
  <2>2. {"shared", "staging", "malloc", "relay", "upload", "device_buffer", "readback"}
          \subseteq Allocations
    BY DEF Allocations, Resources
  <2>3. CASE op = "zero_copy"
    BY <1>2, <1>3, <1>5, <1>6, <1>7, <2>1, <2>2, <2>3 DEF BridgeInv, Written, Reached
  <2>4. CASE op = "copy" /\ x = "relay"
    BY <1>2, <1>3, <1>5, <1>6, <1>7, <2>1, <2>2, <2>4 DEF BridgeInv, Written, Reached
  <2>5. CASE op = "copy" /\ x = "write"
    BY <1>2, <1>3, <1>5, <1>6, <1>7, <2>1, <2>2, <2>5 DEF BridgeInv, Written, Reached
  <2>6. CASE op = "copy" /\ x = "upload_copy"
    BY <1>2, <1>3, <1>5, <1>6, <1>7, <2>1, <2>2, <2>6 DEF BridgeInv, Written, Reached
  <2>7. CASE op = "copy" /\ x = "readback_copy"
    BY <1>2, <1>3, <1>5, <1>6, <1>7, <2>1, <2>2, <2>7 DEF BridgeInv, Written, Reached
  <2>8. QED
    BY <1>2, <1>3, <2>3, <2>4, <2>5, <2>6, <2>7 DEF Kinds
<1>13. QED
  BY <1>8, <1>9, <1>10, <1>11, <1>12 DEF BridgeInv

LEMMA DropGuardPreserves == ASSUME BridgeInv, NEW t \in Threads, DropGuard(t) PROVE BridgeInv'
<1>1. At(t, "unmap") \/ At(t, "unimport") \/ At(t, "free")
  BY DEF DropGuard
<1>2. lock = t /\ doing = "script" /\ t # None /\ op \in Kinds
  <2>1. lock = t /\ doing = "script"
    BY <1>1 DEF At
  <2>2. QED
    BY <2>1, WhereAt
<1>3. (op = "zero_copy" => step \in {10, 11}) /\ (op = "copy" => step = 10)
  BY <1>1, <1>2, WhereAt
<1>4. ~At(t, "verify") /\ ~At(t, "sync")
  BY <1>1 DEF At
<1>5. step' = step + 1 /\ step + 1 \in 1 .. Len(Script(op)) /\ (~unsynced => running = {})
  BY <1>2, <1>4, StepFrame DEF DropGuard, Advance
<1>6. UNCHANGED <<lock, runtime, doing, op, memory, side, outcome, fault, current, running,
                  unsynced>>
  BY DEF DropGuard
<1>7. Depth(op, step + 1) \in 0 .. 3 /\ Depth(op, step) = Depth(op, step + 1) + 1
  BY <1>2, <1>3 DEF Depth, Kinds
<1>8. held' = Stack(op, Depth(op, step + 1))
  BY <1>2, <1>7, StackGrows DEF DropGuard, DropNewest, BridgeInv, Nested
<1>9. TypeOK'
  <2>1. held' \in Seq(Resources)
    BY <1>2, <1>7, <1>8, StackInSeq
  <2>2. QED
    BY <1>5, <1>6, <2>1 DEF BridgeInv, TypeOK
<1>10. Place'
  BY <1>2, <1>3, <1>6 DEF BridgeInv, Place, Kinds
<1>11. Nested'
  BY <1>2, <1>5, <1>6, <1>7, <1>8 DEF Nested
<1>12. Sides' /\ Awaited' /\ Written' /\ Concluded'
  BY <1>2, <1>3, <1>5, <1>6
     DEF BridgeInv, Sides, Awaited, Written, Concluded, Reached, Kinds
<1>13. QED
  BY <1>9, <1>10, <1>11, <1>12 DEF BridgeInv

-----------------------------------------------------------------------------
(* Results, unwinding, and the world outside *)

LEMMA VerifyPreserves == ASSUME BridgeInv, NEW t \in Threads, Verify(t) PROVE BridgeInv'
<1>1. lock = t /\ doing = "script" /\ t # None /\ At(t, "verify") /\ op \in Kinds
  <2>1. lock = t /\ doing = "script" /\ At(t, "verify")
    BY DEF Verify, At
  <2>2. QED
    BY <2>1, WhereAt
<1>2. (op = "zero_copy" => step = 13) /\ (op = "copy" => step = 14)
  BY <1>1, WhereAt
<1>3. /\ doing' = "unwind" /\ outcome' \in {"ok", "mismatch"}
      /\ outcome' = "mismatch" => memory[Verified] = "stale"
      /\ UNCHANGED <<lock, runtime, op, step, held, memory, side, fault, current, running,
                     unsynced>>
  BY DEF Verify, Conclude
<1>4. ~unsynced => Reached(Verified) /\ running = {}
  BY <1>1, <1>2 DEF BridgeInv, Written, Awaited, SyncStep, Verified, Kinds
<1>5. TypeOK'
  BY <1>3 DEF BridgeInv, TypeOK
<1>6. Place'
  BY <1>1, <1>3 DEF BridgeInv, Place
<1>7. Nested'
  <2>1. Depth(op, step) \in 0 .. 4 /\ (op = "zero_copy" => Depth(op, step) <= 2)
    BY <1>1, <1>2 DEF Depth, Kinds
  <2>2. QED
    BY <1>1, <1>3, <2>1 DEF BridgeInv, Nested
<1>8. Verified' = Verified
  BY <1>3 DEF Verified
<1>9. Sides' /\ Awaited' /\ Written' /\ Concluded'
  BY <1>3, <1>4, <1>8 DEF BridgeInv, Sides, Awaited, Written, Concluded, Reached
<1>10. QED
  BY <1>5, <1>6, <1>7, <1>9 DEF BridgeInv

LEMMA FailPreserves == ASSUME BridgeInv, NEW t \in Threads, DriverFails(t) PROVE BridgeInv'
<1>1. lock = t /\ doing = "script" /\ t # None /\ op \in Kinds /\ step \in Nat
  BY WhereAt, NoneIsNoValue DEF DriverFails
<1>2. /\ doing' = "unwind" /\ outcome' = "driver"
      /\ fault' = (At(t, "import") => current[t] = Bridge)
      /\ unsynced' = (unsynced \/ At(t, "sync"))
      /\ \/ side' = side
         \/ At(t, "release") /\ side' = "external"
         \/ At(t, "acquire_copy") /\ side' = "vulkan"
      /\ UNCHANGED <<lock, runtime, op, step, held, memory, current, running>>
  BY DEF DriverFails, Conclude
<1>3. fault'
  <2>1. At(t, "import") => step = 6
    <3>1. CASE op = "zero_copy"
      BY <1>1, <3>1, WhereAt
    <3>2. CASE op = "copy"
      BY <1>1, <3>2, WhereAt
    <3>3. QED
      BY <1>1, <3>1, <3>2 DEF Kinds
  <2>2. At(t, "import") => current[t] = Bridge
    BY <1>1, <2>1 DEF BridgeInv, Place
  <2>3. QED
    BY <1>2, <2>2, Zenon
<1>4. TypeOK'
  <2>1. fault' \in BOOLEAN /\ unsynced' \in BOOLEAN
    BY <1>2, Zenon
  <2>2. {runtime', fault', unsynced'} \subseteq BOOLEAN
    BY <1>2, <2>1, Zenon DEF BridgeInv, TypeOK
  <2>3. QED
    BY <1>2, <2>2 DEF BridgeInv, TypeOK
<1>5. Place'
  BY <1>1, <1>2 DEF BridgeInv, Place
<1>6. Nested'
  <2>1. /\ held = Stack(op, Depth(op, step)) /\ Depth(op, step) \in 0 .. 4
    BY <1>1 DEF BridgeInv, Nested
  <2>2. op = "zero_copy" /\ side' = "vulkan" => Depth(op, step) <= 2
    <3> SUFFICES ASSUME op = "zero_copy", side' = "vulkan" PROVE Depth(op, step) <= 2
      OBVIOUS
    <3>1. step \in 1 .. 13 /\ (At(t, "release") <=> step = 5)
          /\ (At(t, "acquire_copy") => step = 12)
      BY <1>1, WhereAt DEF Transfers
    <3>2. step \notin 6 .. 12 \/ step = 12
      BY <1>1, <1>2, <3>1 DEF BridgeInv, Sides
    <3>3. QED
      BY <3>1, <3>2 DEF Depth
  <2>3. QED
    BY <1>1, <1>2, <2>1, <2>2 DEF Nested
<1>7. Awaited'
  <2>1. CASE At(t, "sync")
    BY <1>2, <2>1 DEF Awaited
  <2>2. CASE ~At(t, "sync")
    <3>1. step = SyncStep(op) => At(t, "sync")
      <4>1. CASE op = "zero_copy"
        BY <1>1, <4>1, WhereAt DEF SyncStep
      <4>2. CASE op = "copy"
        BY <1>1, <4>2, WhereAt DEF SyncStep
      <4>3. QED
        BY <1>1, <4>1, <4>2 DEF Kinds
    <3>2. QED
      BY <1>2, <2>2, <3>1 DEF BridgeInv, Awaited
  <2>3. QED
    BY <2>1, <2>2
<1>8. Sides' /\ Written' /\ Concluded'
  BY <1>2, <1>3 DEF BridgeInv, Sides, Written, Concluded
<1>9. QED
  BY <1>4, <1>5, <1>6, <1>7, <1>8 DEF BridgeInv

LEMMA UnwindPreserves ==
  ASSUME BridgeInv, NEW t \in Threads, DropLocal(t) \/ Leave(t)
  PROVE  BridgeInv'
<1>1. lock = t /\ doing = "unwind" /\ t # None /\ op \in Kinds
  BY NoneIsNoValue DEF DropLocal, Leave, BridgeInv, Place
<1>2. PICK k \in 0 .. 4 :
        held = Stack(op, k) /\ (op = "zero_copy" /\ side = "vulkan" => k <= 2)
  BY <1>1 DEF BridgeInv, Nested
<1>3. CASE DropLocal(t)
  <2>1. /\ held' = DropNewest /\ held # << >>
        /\ UNCHANGED <<lock, runtime, doing, op, step, memory, side, outcome, fault, current,
                       running, unsynced>>
    BY <1>3 DEF DropLocal
  <2>2. k # 0 /\ k - 1 \in 0 .. 3 /\ (k - 1) + 1 = k
    BY <1>1, <1>2, <2>1, StackIsHeld
  <2>3. Front(Stack(op, (k - 1) + 1)) = Stack(op, k - 1)
    BY <1>1, <2>2, StackGrows
  <2>4. held' = Stack(op, k - 1)
    BY <1>2, <2>1, <2>2, <2>3 DEF DropNewest
  <2>5. TypeOK'
    <3>1. k - 1 \in 0 .. 4
      BY <2>2
    <3>2. Stack(op, k - 1) \in Seq(Resources)
      BY <1>1, <3>1, StackInSeq
    <3>3. held' \in Seq(Resources)
      BY <2>4, <3>2
    <3>4. QED
      BY <2>1, <3>3 DEF BridgeInv, TypeOK
  <2>6. Place'
    BY <1>1, <2>1 DEF BridgeInv, Place
  <2>7. Nested'
    <3>1. k - 1 \in 0 .. 4 /\ (op = "zero_copy" /\ side = "vulkan" => k - 1 <= 2)
      BY <1>2, <2>2
    <3>2. QED
      BY <1>1, <2>1, <2>4, <3>1 DEF Nested
  <2>8. Sides' /\ Awaited' /\ Written' /\ Concluded'
    BY <1>1, <2>1 DEF BridgeInv, Sides, Awaited, Written, Concluded, Reached, Verified
  <2>9. QED
    BY <2>5, <2>6, <2>7, <2>8 DEF BridgeInv
<1>4. CASE Leave(t)
  <2> USE <1>4 DEF Leave
  <2>1. TypeOK'
    <3>1. step' \in 1 .. Len(Script(op)')
      BY EveryScript
    <3>2. running' \subseteq [device : Devices, target : Allocations, stray : BOOLEAN]
      <4>1. ASSUME NEW job \in running
            PROVE  [job EXCEPT !.stray = TRUE]
                     \in [device : Devices, target : Allocations, stray : BOOLEAN]
        BY DEF BridgeInv, TypeOK
      <4>2. QED
        BY <4>1
    <3>3. {runtime', fault', unsynced'} \subseteq BOOLEAN
      BY Zenon DEF BridgeInv, TypeOK
    <3>4. QED
      BY <3>1, <3>2, <3>3 DEF BridgeInv, TypeOK
  <2>2. Place' /\ Nested' /\ Sides' /\ Written' /\ Concluded'
    BY DEF BridgeInv, Place, Nested, Sides, Written, Concluded
  <2>3. Awaited'
    BY <1>1 DEF BridgeInv, Awaited
  <2>4. QED
    BY <2>1, <2>2, <2>3 DEF BridgeInv
<1>5. QED
  BY <1>3, <1>4

\* The memset a call waits for writes what it was asked to; a stray one, anything.
LEMMA ExecutePreserves == ASSUME BridgeInv, ExecuteMemset PROVE BridgeInv'
<1>1. PICK job \in running :
        /\ running' = running \ {job}
        /\ IF job.stray
           THEN UNCHANGED memory \/ \E a \in Allocations : memory' = [memory EXCEPT ![a] = "stale"]
           ELSE memory' = [memory EXCEPT ![job.target] = "pattern"]
  BY DEF ExecuteMemset
<1>2. UNCHANGED <<lock, runtime, doing, op, step, held, side, outcome, fault, current, unsynced>>
  BY DEF ExecuteMemset
<1>3. job.target \in Allocations
  BY DEF BridgeInv, TypeOK
<1>4. TypeOK'
  <2>1. memory' \in [Allocations -> {"stale", "pattern"}]
    BY <1>1, <1>3 DEF BridgeInv, TypeOK
  <2>2. QED
    BY <1>1, <1>2, <2>1 DEF BridgeInv, TypeOK
<1>5. Place' /\ Nested' /\ Sides'
  BY <1>2 DEF BridgeInv, Place, Nested, Sides
<1>6. Awaited'
  <2>1. Target' = Target
    BY <1>2 DEF Target
  <2>2. QED
    BY <1>1, <1>2, <2>1 DEF BridgeInv, Awaited
<1>7. CASE unsynced
  BY <1>2, <1>4, <1>5, <1>6, <1>7 DEF BridgeInv, Written, Concluded
<1>8. CASE ~unsynced
  <2>1. doing = "script" /\ step = SyncStep(op) /\ ~job.stray /\ job.target = Target
    BY <1>8 DEF BridgeInv, Awaited
  <2>2. memory'[Target] = "pattern"
    BY <1>1, <1>3, <2>1 DEF BridgeInv, TypeOK
  <2>3. Written'
    BY <1>2, <2>1, <2>2 DEF Written, Reached, SyncStep, Target
  <2>4. Concluded'
    BY <1>2, <2>1 DEF Concluded
  <2>5. QED
    BY <1>4, <1>5, <1>6, <2>3, <2>4 DEF BridgeInv
<1>9. QED
  BY <1>7, <1>8

LEMMA OutsidePreserves ==
  ASSUME BridgeInv, NEW t \in Threads, UseOtherDevice(t)
  PROVE  BridgeInv'
<1>1. /\ current' \in [Threads -> Devices] /\ (lock \in Threads => current'[lock] = current[lock])
      /\ UNCHANGED <<lock, runtime, doing, op, step, held, memory, side, outcome, fault,
                     running, unsynced>>
  BY DEF UseOtherDevice, call, BridgeInv, TypeOK
<1>2. doing = "script" => lock \in Threads
  BY DEF BridgeInv, TypeOK, Place
<1>3. TypeOK'
  BY <1>1 DEF BridgeInv, TypeOK
<1>4. Target' = Target /\ Verified' = Verified
  BY <1>1 DEF Target, Verified
<1>5. Place' /\ Nested' /\ Sides' /\ Awaited' /\ Written' /\ Concluded'
  BY <1>1, <1>2, <1>4
     DEF BridgeInv, Place, Nested, Sides, Awaited, Written, Concluded, Reached
<1>6. QED
  BY <1>3, <1>5 DEF BridgeInv

-----------------------------------------------------------------------------
(* The theorems *)

LEMMA NextPreserves == BridgeInv /\ [Next]_vars => BridgeInv'
<1> SUFFICES ASSUME BridgeInv, [Next]_vars PROVE BridgeInv'
  OBVIOUS
<1>1. CASE UNCHANGED vars
  BY <1>1 DEF vars, call, BridgeInv, TypeOK, Place, Nested, Sides, Awaited, Written, Concluded,
              Reached, Target, Verified
<1>2. CASE Next
  <2>1. CASE ExecuteMemset
    BY <2>1, ExecutePreserves
  <2>2. ASSUME NEW t \in Threads, NEW kind \in {"zero_copy", "copy"}, Enter(t, kind)
        PROVE  BridgeInv'
    BY <2>2, EnterPreserves DEF Kinds
  <2>3. QED
    BY <1>2, <2>1, <2>2, CreatePreserves, SelectPreserves, ObtainPreserves, ExportPreserves,
       MemsetPreserves, SynchronizePreserves, TransferPreserves, DropGuardPreserves,
       VerifyPreserves, FailPreserves, UnwindPreserves, OutsidePreserves DEF Next
<1>3. QED
  BY <1>1, <1>2

LEMMA InvariantHolds == Spec => []BridgeInv
BY InitEstablishes, NextPreserves, PTL DEF Spec

\* BRIDGE_RUNTIME's state and the call inside it keep their types.
THEOREM TypeCorrect == Spec => []TypeOK
<1>1. BridgeInv => TypeOK
  BY DEF BridgeInv
<1>2. QED
  BY <1>1, InvariantHolds, PTL

\* A memset is on its way only at the sync that awaits it, where all it writes is held.
LEMMA NothingWrittenIsDropped ==
  ASSUME BridgeInv, ~unsynced, NEW job \in running
  PROVE  ~job.stray /\ \A r \in WritesThrough(job) : Holds(r)
<1>1. doing = "script" /\ step = SyncStep(op) /\ ~job.stray /\ job.target = Target
  BY DEF BridgeInv, Awaited
<1>2. lock # None /\ op \in Kinds
  BY <1>1 DEF BridgeInv, Place
<1>3. Depth(op, step) = 4
  BY <1>1, <1>2 DEF Depth, SyncStep, Kinds
<1>4. held = Stack(op, 4)
  BY <1>1, <1>2, <1>3 DEF BridgeInv, Nested
<1>5. IF op = "zero_copy" THEN Holds("shared") /\ Holds("import") /\ Holds("mapping")
      ELSE Holds("malloc")
  BY <1>2, <1>4, StackIsHeld DEF Kinds
<1>6. QED
  BY <1>1, <1>2, <1>5 DEF WritesThrough, Target, Kinds

\* Vulkan and HIP never use the shared allocation at once, and nothing a memset still
\* writes is given up, on the error paths too.
THEOREM OneUserAtATime == Spec => []OneSideAtATime
<1>1. BridgeInv => OneSideAtATime
  <2> SUFFICES ASSUME BridgeInv, Holds("shared"), side = "vulkan"
               PROVE  ~Holds("mapping") /\ (unsynced \/ running = {})
    BY NothingWrittenIsDropped DEF OneSideAtATime
  <2>1. lock # None /\ op \in Kinds /\ doing \in {"script", "unwind"}
    BY DEF BridgeInv, TypeOK, Place, Holds
  <2>2. PICK k \in 0 .. 4 :
          /\ held = Stack(op, k)
          /\ doing = "script" => k = Depth(op, step)
          /\ doing = "unwind" /\ op = "zero_copy" => k <= 2
    BY <2>1 DEF BridgeInv, Nested
  <2>3. op = "zero_copy"
    BY <2>1, <2>2, StackIsHeld
  <2>4. doing = "script" => step \in Nat /\ step \notin 6 .. 12 /\ step <= 13
    BY <2>1, <2>3, InScript DEF BridgeInv, Sides
  <2>5. k <= 2
    BY <2>1, <2>2, <2>3, <2>4 DEF Depth
  <2>6. ~Holds("mapping")
    BY <2>1, <2>2, <2>5, StackIsHeld
  <2>7. unsynced \/ running = {}
    BY <2>3, <2>4 DEF BridgeInv, Awaited, SyncStep
  <2>8. QED
    BY <2>6, <2>7
<1>2. QED
  BY <1>1, InvariantHolds, PTL

\* Verified bytes are those of the call's own hipMemset.
THEOREM ReportsAreReal == Spec => []ReportIsReal
<1>1. BridgeInv => ReportIsReal
  BY DEF BridgeInv, Place, Concluded, Reached, ReportIsReal
<1>2. QED
  BY <1>1, InvariantHolds, PTL

\* No caller's use of other devices, and no creating thread, makes a call fail.
THEOREM FailuresAreFaults == Spec => []OnlyFaultsFail
<1>1. BridgeInv => OnlyFaultsFail
  BY DEF BridgeInv, Place, Concluded, OnlyFaultsFail
<1>2. QED
  BY <1>1, InvariantHolds, PTL

=============================================================================
