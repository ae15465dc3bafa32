---------------------- MODULE SharedBufferSessionProofs ----------------------
(***************************************************************************)
(* The safety of a session for any number of buffers.                      *)
(*                                                                         *)
(* The argument: each loop of with_buffers keeps what it did for the       *)
(* buffers before next, nothing is pending while Vulkan gives the buffers  *)
(* up, and everything pending afterwards moves a buffer back to Vulkan, so *)
(* a buffer whose acquire succeeded is Vulkan's for good.                  *)
(***************************************************************************)
EXTENDS SharedBufferSession, TLAPS

Before == 1 .. next - 1

Returned == operation \in {"ok", "error"}

\* Up to the operation nothing has failed and nothing is on the queue.
NothingYet ==
  stage \in {"create", "release", "operation"} =>
    /\ operation = "none" /\ ~reclaim /\ attempted = {} /\ failed = {} /\ lost = {}
    /\ pending = {} /\ result = "none"
    /\ readbacks = [b \in Buffers |-> "none"]

\* What the loops that give the buffers up have done for those before next.
GivenUp ==
  /\ stage = "create" => alive = Before /\ exported = {}
  /\ stage = "release" =>
       alive = Buffers /\ exported = Before /\ \A b \in Before : side[b] = "external"
  /\ stage = "operation" =>
       alive = Buffers /\ exported = Buffers /\ \A b \in Buffers : side[b] = "external"

\* ... and the one that takes them back.
TakenBack ==
  /\ stage \in {"reclaim", "judge", "readback"} =>
       Returned /\ result = "none" /\ alive = Buffers /\ lost = {}
  /\ stage = "reclaim" => attempted = Before
  /\ stage \in {"judge", "readback", "drop"} /\ Returned => attempted = Buffers
  /\ stage \in {"reclaim", "judge"} => readbacks = [b \in Buffers |-> "none"]

\* After the operation every move is towards Vulkan.
TowardsVulkan ==
  Returned =>
    /\ \A job \in pending : job.to = "vulkan"
    /\ \A b \in attempted \ failed : side[b] = "vulkan"
    /\ operation = "ok" => ~foreign
    /\ ~reclaim => failed = {}
    /\ lost \subseteq failed

Right(b) == readbacks[b] = IF b \in wanted THEN "final" ELSE "none"

\* Only a session without an error reads back, and only such a session returns Ok.
ReadsFinalData ==
  /\ stage = "readback" =>
       /\ operation = "ok" /\ failed = {}
       /\ \A b \in Buffers : IF b < next THEN Right(b) ELSE readbacks[b] = "none"
  /\ result = "ok" => stage = "drop" /\ \A b \in Buffers : Right(b)

SessionInv ==
  TypeOK /\ NothingYet /\ GivenUp /\ TakenBack /\ TowardsVulkan /\ ReadsFinalData

-----------------------------------------------------------------------------

LEMMA InitEstablishes == Init => SessionInv
<1> SUFFICES ASSUME Init PROVE SessionInv
  OBVIOUS
<1>1. n \in Nat \ {0} /\ 1 \in Buffers /\ Before = {}
  BY SomeBuffers DEF Init, Buffers, Before
<1>2. TypeOK
  BY <1>1 DEF Init, TypeOK, Buffers, Stages
<1>3. NothingYet /\ GivenUp /\ TakenBack /\ TowardsVulkan /\ ReadsFinalData
  BY <1>1 DEF Init, NothingYet, GivenUp, TakenBack, TowardsVulkan, ReadsFinalData, Returned,
              Buffers, Before
<1>4. QED
  BY <1>2, <1>3 DEF SessionInv

LEMMA BuffersAreNumbers ==
  ASSUME TypeOK
  PROVE  /\ n \in Nat \ {0} /\ next \in Nat \ {0} /\ next <= n
         /\ Before = Buffers \ (next .. n)
BY SomeBuffers DEF TypeOK, Buffers, Before

\* The loop that creates the buffers.
LEMMA CreatePreserves == ASSUME SessionInv, Create \/ CreateFails PROVE SessionInv'
<1> USE DEF SessionInv, history
<1>1. n \in Nat \ {0} /\ next \in Nat \ {0} /\ next <= n
  BY BuffersAreNumbers
<1>2. CASE Create
  <2> USE <1>1, <1>2 DEF Create, Advance
  <2>1. TypeOK'
    BY DEF TypeOK, Buffers, Stages
  <2>2. NothingYet' /\ TowardsVulkan'
    BY DEF NothingYet, TowardsVulkan, Returned, Buffers
  <2>3. GivenUp'
    <3>1. alive = 1 .. next - 1 /\ alive' = 1 .. next /\ exported' = {}
      BY DEF GivenUp, Before
    <3>2. CASE next = n
      BY <3>1, <3>2 DEF GivenUp, Buffers, Before
    <3>3. CASE next # n
      BY <3>1, <3>3 DEF GivenUp, Buffers, Before
    <3>4. QED
      BY <3>2, <3>3
  <2>4. TakenBack' /\ ReadsFinalData'
    BY DEF TakenBack, ReadsFinalData, NothingYet, Returned, Right, Buffers
  <2>5. QED
    BY <2>1, <2>2, <2>3, <2>4
<1>3. CASE CreateFails
  <2> USE <1>1, <1>3 DEF CreateFails, Return
  <2>1. TypeOK'
    BY DEF TypeOK, Buffers, Stages
  <2>2. NothingYet' /\ TowardsVulkan' /\ GivenUp' /\ TakenBack' /\ ReadsFinalData'
    BY DEF NothingYet, TowardsVulkan, GivenUp, TakenBack, ReadsFinalData, Returned, Right,
           Buffers
  <2>3. QED
    BY <2>1, <2>2
<1>4. QED
  BY <1>2, <1>3

\* The loop that releases and exports them.
LEMMA ReleasePreserves == ASSUME SessionInv, Release \/ ReleaseFails PROVE SessionInv'
<1> USE DEF SessionInv, history
<1>1. n \in Nat \ {0} /\ next \in Nat \ {0} /\ next <= n
  BY BuffersAreNumbers
<1>2. CASE Release
  <2> USE <1>1, <1>2 DEF Release, Advance
  <2>1. TypeOK'
    BY DEF TypeOK, Buffers, Stages
  <2>2. NothingYet' /\ TowardsVulkan'
    BY DEF NothingYet, TowardsVulkan, Returned, Buffers
  <2>3. GivenUp'
    BY DEF GivenUp, TypeOK, Buffers, Before
  <2>4. TakenBack' /\ ReadsFinalData'
    BY DEF TakenBack, ReadsFinalData, NothingYet, Returned, Right, Buffers
  <2>5. QED
    BY <2>1, <2>2, <2>3, <2>4
<1>3. CASE ReleaseFails
  <2> USE <1>1, <1>3 DEF ReleaseFails, ReleaseError, Return
  <2>1. TypeOK'
    BY DEF TypeOK, Buffers, Stages
  <2>2. NothingYet' /\ TowardsVulkan' /\ GivenUp' /\ TakenBack' /\ ReadsFinalData'
    BY DEF NothingYet, TowardsVulkan, GivenUp, TakenBack, ReadsFinalData, Returned, Right,
           Buffers
  <2>3. QED
    BY <2>1, <2>2
<1>4. QED
  BY <1>2, <1>3

LEMMA OperationPreserves ==
  ASSUME SessionInv, OperationReturns \/ OperationPanics
  PROVE  SessionInv'
<1> USE DEF SessionInv, history
<1>1. n \in Nat \ {0} /\ next \in Nat \ {0} /\ next <= n
  BY BuffersAreNumbers
<1>2. CASE OperationReturns
  <2> USE <1>1, <1>2 DEF OperationReturns
  <2>1. foreign' \in BOOLEAN /\ (operation' = "ok" => foreign' = FALSE)
    OBVIOUS
  <2>2. TypeOK'
    BY <2>1 DEF TypeOK, Buffers, Stages
  <2>3. NothingYet' /\ GivenUp' /\ TowardsVulkan' /\ TakenBack' /\ ReadsFinalData'
    BY <2>1 DEF NothingYet, GivenUp, TowardsVulkan, TakenBack, ReadsFinalData, Returned,
                Right, Buffers, Before
  <2>4. QED
    BY <2>2, <2>3
<1>3. CASE OperationPanics
  <2> USE <1>1, <1>3 DEF OperationPanics, Return
  <2>1. TypeOK'
    BY DEF TypeOK, Buffers, Stages
  <2>2. NothingYet' /\ TowardsVulkan' /\ GivenUp' /\ TakenBack' /\ ReadsFinalData'
    BY DEF NothingYet, TowardsVulkan, GivenUp, TakenBack, ReadsFinalData, Returned, Right,
           Buffers
  <2>3. QED
    BY <2>1, <2>2
<1>4. QED
  BY <1>2, <1>3

\* The loop that takes them back.
LEMMA AcquirePreserves == ASSUME SessionInv, Acquire \/ AcquireFails PROVE SessionInv'
<1> USE DEF SessionInv
<1>1. n \in Nat \ {0} /\ next \in Nat \ {0} /\ next <= n
  BY BuffersAreNumbers
<1>2. CASE Acquire
  <2> USE <1>1, <1>2 DEF Acquire, Advance
  <2>1. Settled \in [Buffers -> {"vulkan", "external"}]
    BY DEF Settled, TypeOK
  <2>2. \A b \in Buffers : side[b] = "vulkan" => Settled[b] = "vulkan"
    BY DEF Settled
  <2>3. TypeOK'
    BY <2>1 DEF TypeOK, Buffers, Stages
  <2>4. TowardsVulkan'
    <3>1. Returned /\ Returned' /\ attempted \subseteq Buffers /\ next \in Buffers
      BY DEF TakenBack, Returned, TypeOK
    <3>2. \A b \in (attempted \ failed) : side'[b] = "vulkan"
      BY <2>1, <2>2, <3>1 DEF TowardsVulkan
    <3>3. side'[next] = "vulkan"
      BY <2>1, <3>1
    <3>4. QED
      BY <3>1, <3>2, <3>3 DEF TowardsVulkan
  <2>5. NothingYet' /\ GivenUp' /\ TakenBack' /\ ReadsFinalData'
    BY DEF NothingYet, GivenUp, TakenBack, ReadsFinalData, Returned, Right, Buffers, Before
  <2>6. QED
    BY <2>3, <2>4, <2>5
<1>3. CASE AcquireFails
  <2> USE <1>1, <1>3 DEF AcquireFails, KeepsReclaiming, Advance
  <2>1. TypeOK'
    BY DEF TypeOK, Buffers, Stages
  <2>2. TowardsVulkan'
    BY DEF TowardsVulkan, TakenBack, Returned
  <2>3. NothingYet' /\ GivenUp' /\ TakenBack' /\ ReadsFinalData'
    BY DEF NothingYet, GivenUp, TakenBack, ReadsFinalData, Returned, Right, Buffers, Before
  <2>4. QED
    BY <2>1, <2>2, <2>3
<1>4. QED
  BY <1>2, <1>3

LEMMA JudgePreserves == ASSUME SessionInv, Judge PROVE SessionInv'
<1> USE DEF SessionInv, Judge, FirstError, Return, device, history
<1>1. n \in Nat \ {0} /\ next \in Nat \ {0} /\ next <= n
  BY BuffersAreNumbers
<1>2. TypeOK'
  BY <1>1 DEF TypeOK, Buffers, Stages
<1>3. TowardsVulkan' /\ NothingYet' /\ GivenUp' /\ TakenBack'
  BY DEF TowardsVulkan, NothingYet, GivenUp, TakenBack, Returned, Buffers
<1>4. ReadsFinalData'
  BY <1>1 DEF ReadsFinalData, TakenBack, TowardsVulkan, Returned, Right, Buffers
<1>5. QED
  BY <1>2, <1>3, <1>4

LEMMA ReadPreserves == ASSUME SessionInv, ReadBack \/ ReadBackFails PROVE SessionInv'
<1> USE DEF SessionInv
<1>1. n \in Nat \ {0} /\ next \in Nat \ {0} /\ next <= n /\ next \in Buffers
  BY BuffersAreNumbers DEF TypeOK
<1>2. CASE ReadBack
  <2> USE <1>1, <1>2 DEF ReadBack, Return, Advance, device, history
  <2>1. Contents(next) = "final"
    BY DEF Contents, ReadsFinalData, TakenBack, TowardsVulkan, Returned
  <2>2. readbacks' \in [Buffers -> {"none", "final", "unknown"}]
    BY <2>1 DEF TypeOK
  <2>3. TypeOK'
    BY <2>2 DEF TypeOK, Buffers, Stages
  <2>4. TowardsVulkan' /\ NothingYet' /\ GivenUp' /\ TakenBack'
    BY DEF TowardsVulkan, NothingYet, GivenUp, TakenBack, Returned, Buffers
  <2>5. \A b \in Buffers :
          readbacks'[b] = IF b = next /\ b \in wanted THEN "final" ELSE readbacks[b]
    BY <2>1 DEF TypeOK
  <2>6. ReadsFinalData'
    BY <2>5 DEF ReadsFinalData, TakenBack, Right, Buffers
  <2>7. QED
    BY <2>3, <2>4, <2>6
<1>3. CASE ReadBackFails
  <2> USE <1>1, <1>3 DEF ReadBackFails, Return, history
  <2>1. TypeOK'
    BY DEF TypeOK, Buffers, Stages
  <2>2. TowardsVulkan' /\ NothingYet' /\ GivenUp' /\ TakenBack' /\ ReadsFinalData'
    BY DEF TowardsVulkan, NothingYet, GivenUp, TakenBack, ReadsFinalData, Returned, Right,
           Buffers
  <2>3. QED
    BY <2>1, <2>2
<1>4. QED
  BY <1>2, <1>3

\* Drop, and the queue's late executions.
LEMMA DropPreserves ==
  ASSUME SessionInv, DropBuffer \/ DropContext \/ ExecuteLate
  PROVE  SessionInv'
<1> USE DEF SessionInv, progress, history
<1>1. CASE DropBuffer
  <2> USE <1>1 DEF DropBuffer
  <2>1. TypeOK'
    BY DEF TypeOK, Buffers
  <2>2. TowardsVulkan'
    BY DEF TowardsVulkan, TakenBack, Returned, TypeOK
  <2>3. NothingYet' /\ GivenUp' /\ TakenBack' /\ ReadsFinalData'
    BY DEF NothingYet, GivenUp, TakenBack, ReadsFinalData, Returned, Right, Buffers
  <2>4. QED
    BY <2>1, <2>2, <2>3
<1>2. CASE DropContext
  <2> USE <1>2 DEF DropContext
  <2>1. TypeOK'
    BY DEF TypeOK, Buffers
  <2>2. TowardsVulkan' /\ NothingYet' /\ GivenUp' /\ TakenBack' /\ ReadsFinalData'
    BY DEF TowardsVulkan, NothingYet, GivenUp, TakenBack, ReadsFinalData, Returned, Right,
           Buffers
  <2>3. QED
    BY <2>1, <2>2
<1>3. CASE ExecuteLate
  <2> USE <1>3 DEF ExecuteLate
  <2>1. PICK job \in pending :
          pending' = pending \ {job} /\ side' = [side EXCEPT ![job.buffer] = job.to]
    OBVIOUS
  <2>2. job.buffer \in Buffers /\ job.to \in {"vulkan", "external"}
    BY DEF TypeOK
  <2>3. TypeOK'
    BY <2>1, <2>2 DEF TypeOK, Buffers
  <2>4. TowardsVulkan'
    BY <2>1, <2>2 DEF TowardsVulkan, Returned, TypeOK
  <2>5. stage \notin {"create", "release", "operation"}
    BY DEF NothingYet
  <2>6. NothingYet' /\ GivenUp' /\ TakenBack' /\ ReadsFinalData'
    BY <2>5 DEF NothingYet, GivenUp, TakenBack, ReadsFinalData, Returned, Right, Buffers,
                Before
  <2>7. QED
    BY <2>3, <2>4, <2>6
<1>4. QED
  BY <1>1, <1>2, <1>3

LEMMA NextPreserves == SessionInv /\ [Next]_vars => SessionInv'
<1> SUFFICES ASSUME SessionInv, [Next]_vars PROVE SessionInv'
  OBVIOUS
<1>1. CASE UNCHANGED vars
  BY <1>1 DEF vars, progress, device, history, SessionInv, TypeOK, NothingYet, GivenUp,
              TakenBack, TowardsVulkan, ReadsFinalData, Returned, Right, Buffers, Before
<1>2. CASE Next
  BY <1>2, CreatePreserves, ReleasePreserves, OperationPreserves, AcquirePreserves,
     JudgePreserves, ReadPreserves, DropPreserves DEF Next
<1>3. QED
  BY <1>1, <1>2

LEMMA InvariantHolds == Spec => []SessionInv
<1>1. QED
  BY InitEstablishes, NextPreserves, PTL DEF Spec

-----------------------------------------------------------------------------

\* with_buffers' locals keep their types, next within the specs, for any number of them.
THEOREM TypeCorrect == Spec => []TypeOK
<1>1. SessionInv => TypeOK
  BY DEF SessionInv
<1>2. QED
  BY <1>1, InvariantHolds, PTL

\* The operation only ever runs on buffers Vulkan has given up, every one of them.
THEOREM OperationHasTheBuffers == Spec => []OperationOwnsBuffers
<1>1. SessionInv => OperationOwnsBuffers
  BY DEF SessionInv, NothingYet, GivenUp, OperationOwnsBuffers
<1>2. QED
  BY <1>1, InvariantHolds, PTL

\* with_buffers returns Ok only with the operation's final results.
THEOREM OkIsFinal == Spec => []OkMeansFinalData
<1>1. SessionInv => OkMeansFinalData
  BY DEF SessionInv, ReadsFinalData, Right, OkMeansFinalData
<1>2. QED
  BY <1>1, InvariantHolds, PTL

\* The reclaim loop reaches every buffer whatever fails in it, before any is destroyed.
THEOREM EveryReclaimIsTried == Spec => []ReclaimAttemptsAll
<1>1. SessionInv => ReclaimAttemptsAll
  BY DEF SessionInv, TypeOK, Stages, NothingYet, TakenBack, TowardsVulkan, Returned,
         ReclaimAttemptsAll
<1>2. QED
  BY <1>1, InvariantHolds, PTL

=============================================================================
