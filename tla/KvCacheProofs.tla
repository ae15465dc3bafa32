--------------------------- MODULE KvCacheProofs ---------------------------
(***************************************************************************)
(* Theorems about KvCache for every set of keys and blocks and every       *)
(* capacity: it implements SequenceStore, stays within its capacity, never *)
(* fails an accepted append, and evicts in LRU order.                      *)
(***************************************************************************)
EXTENDS KvCache, DataInduction, TLAPS

\* What append's checks established and the push still relies on, after any
\* number of evictions of other entries.
Accepted ==
  /\ target = None <=> incoming = None
  /\ target # None =>
       /\ ValidBlock(incoming)
       /\ incoming.token_start = ExpectedStart(target)
       /\ EntryFits(target, incoming)

\* A key without blocks has no bytes.
EmptyEntriesWeighNothing == \A k \in Keys : k \notin PresentKeys => entryBytes[k] = 0

IInv ==
  /\ TypeOK
  /\ Accepted
  /\ EmptyEntriesWeighNothing
  /\ BytesAreTotal
  /\ bytes <= Capacity

-----------------------------------------------------------------------------
(* Lemmas about the operators. *)

LEMMA TicksStayInRange == clock \in 0 .. U64Max => Tick \in 0 .. U64Max
BY CapacityHasWidth DEF Tick

LEMMA TotalOfEmptyTable == Total([k \in Keys |-> 0]) = 0
BY FiniteKeys, SumOfZeros DEF Total

LEMMA TotalOfOneChange ==
  \A table \in [Keys -> 0 .. Capacity], k \in Keys, b \in 0 .. Capacity :
    /\ Total(table) \in Nat
    /\ Total([table EXCEPT ![k] = b]) = Total(table) - table[k] + b
    /\ table[k] <= Total(table)
<1> SUFFICES ASSUME NEW table \in [Keys -> 0 .. Capacity], NEW k \in Keys, NEW b \in 0 .. Capacity
             PROVE  /\ Total(table) \in Nat
                    /\ Total([table EXCEPT ![k] = b]) = Total(table) - table[k] + b
                    /\ table[k] <= Total(table)
  OBVIOUS
<1>1. 0 .. Capacity \subseteq Nat
  BY CapacityHasWidth
<1>2. table \in [Keys -> Nat] /\ b \in Nat
  BY <1>1
<1>3. QED
  BY <1>2, FiniteKeys, SumOfOneChange, Zenon DEF Total

\* Removing one entry gives back exactly its bytes and leaves the others alone.
LEMMA RemovalEffect ==
  ASSUME IInv, NEW k \in Keys, RemoveEntry(k)
  PROVE  /\ blocks' \in [Keys -> Seq(Blocks)]
         /\ \A j \in Keys : blocks'[j] = IF j = k THEN << >> ELSE blocks[j]
         /\ entryBytes' \in [Keys -> 0 .. Capacity]
         /\ \A j \in Keys : entryBytes'[j] = IF j = k THEN 0 ELSE entryBytes[j]
         /\ lastTouch' \in [Keys -> 0 .. U64Max]
         /\ older' \subseteq Keys \X Keys
         /\ bytes' = bytes - entryBytes[k] /\ bytes' \in Nat /\ bytes' <= Capacity
         /\ BytesAreTotal' /\ EmptyEntriesWeighNothing'
<1>1. /\ blocks' \in [Keys -> Seq(Blocks)]
      /\ \A j \in Keys : blocks'[j] = IF j = k THEN << >> ELSE blocks[j]
      /\ entryBytes' = [entryBytes EXCEPT ![k] = 0]
      /\ entryBytes' \in [Keys -> 0 .. Capacity]
      /\ \A j \in Keys : entryBytes'[j] = IF j = k THEN 0 ELSE entryBytes[j]
      /\ lastTouch' \in [Keys -> 0 .. U64Max]
      /\ older' \subseteq Keys \X Keys
  BY CapacityHasWidth DEF RemoveEntry, Forgotten, IInv, TypeOK
<1>2. /\ Total(entryBytes') = Total(entryBytes) - entryBytes[k] + 0
      /\ entryBytes[k] <= Total(entryBytes) /\ Total(entryBytes) \in Nat
      /\ entryBytes[k] \in 0 .. Capacity
  <2>1. entryBytes \in [Keys -> 0 .. Capacity] /\ 0 \in 0 .. Capacity
    BY CapacityHasWidth DEF IInv, TypeOK
  <2>2. entryBytes[k] \in 0 .. Capacity
    BY <2>1
  <2>3. /\ Total([entryBytes EXCEPT ![k] = 0]) = Total(entryBytes) - entryBytes[k] + 0
        /\ entryBytes[k] <= Total(entryBytes) /\ Total(entryBytes) \in Nat
    BY <2>1, TotalOfOneChange
  <2>4. QED
    BY <1>1, <2>2, <2>3
<1>3. bytes' = bytes - entryBytes[k] /\ bytes' \in Nat /\ bytes' <= Capacity
  BY <1>2, CapacityHasWidth DEF RemoveEntry, RefundOf, IInv, TypeOK, BytesAreTotal
<1>4. BytesAreTotal'
  BY <1>2, <1>3 DEF BytesAreTotal, IInv
<1>5. EmptyEntriesWeighNothing'
  BY <1>1 DEF EmptyEntriesWeighNothing, PresentKeys, IInv
<1>6. QED
  BY <1>1, <1>3, <1>4, <1>5

\* When the accepted append's entry is the only one, its block fits.
LEMMA OtherEntryToEvict == IInv => AcceptedAppendFits
<1> SUFFICES ASSUME IInv, target # None, Evictable = {} PROVE Fits(incoming)
  BY DEF AcceptedAppendFits
<1>1. target \in Keys /\ incoming \in Blocks /\ EntryFits(target, incoming)
  BY DEF IInv, TypeOK, Accepted
<1>2. \A k \in Keys : k # target => entryBytes[k] = 0
  BY DEF Evictable, IInv, EmptyEntriesWeighNothing
<1> DEFINE empty == [k \in Keys |-> 0]
<1>3. entryBytes = [empty EXCEPT ![target] = entryBytes[target]]
  BY <1>1, <1>2 DEF IInv, TypeOK
<1>4. empty \in [Keys -> 0 .. Capacity] /\ empty[target] = 0
  BY <1>1, CapacityHasWidth
<1>5. entryBytes[target] \in 0 .. Capacity
  BY <1>1 DEF IInv, TypeOK
<1>6. Total(entryBytes) = Total(empty) - 0 + entryBytes[target]
  BY <1>1, <1>3, <1>4, <1>5, TotalOfOneChange
<1>7. Total(entryBytes) = entryBytes[target]
  BY <1>5, <1>6, TotalOfEmptyTable, CapacityHasWidth
<1>8. QED
  BY <1>1, <1>7 DEF IInv, BytesAreTotal, Fits, EntryFits

-----------------------------------------------------------------------------
(* One lemma per operation. *)

LEMMA AcceptPreserves ==
  ASSUME IInv, NEW k \in Keys, NEW b \in Blocks, AcceptAppend(k, b)
  PROVE  IInv'
<1>1. /\ target' = k /\ incoming' = b /\ ValidBlock(b)
      /\ b.token_start = ExpectedStart(k) /\ EntryFits(k, b)
      /\ UNCHANGED <<blocks, entryBytes, lastTouch, bytes, clock, evictions, older, wrapped>>
  BY DEF AcceptAppend, entries
<1>2. Accepted'
  BY <1>1, NoneIsNoValue DEF Accepted, ExpectedStart, PresentKeys, EntryFits, ValidBlock, EndOf
<1>3. QED
  BY <1>1, <1>2 DEF IInv, TypeOK, BytesAreTotal, Total, EmptyEntriesWeighNothing, PresentKeys

LEMMA EvictPreserves ==
  ASSUME IInv, EvictOne
  PROVE  IInv'
<1>1. PICK victim \in Keys : IsVictim(victim) /\ RemoveEntry(victim)
  BY DEF EvictOne
<1>2. victim # target /\ target # None /\ target \in Keys
  BY <1>1 DEF EvictOne, Idle, IsVictim, Evictable, IInv, TypeOK
<1>3. UNCHANGED <<clock, target, incoming, wrapped>> /\ evictions' \in 0 .. U64Max
  BY CapacityHasWidth DEF EvictOne, IInv, TypeOK
<1>4. blocks'[target] = blocks[target] /\ entryBytes'[target] = entryBytes[target]
  BY <1>1, <1>2, RemovalEffect
<1>5. Accepted'
  BY <1>2, <1>3, <1>4 DEF Accepted, ExpectedStart, PresentKeys, EntryFits, ValidBlock, EndOf, IInv
<1>6. QED
  BY <1>1, <1>3, <1>5, RemovalEffect DEF IInv, TypeOK

LEMMA PushPreserves ==
  ASSUME IInv, Push
  PROVE  IInv'
<1>1. /\ target \in Keys /\ incoming \in Blocks /\ target # None
      /\ incoming.bytes \in Nat
      /\ EntryFits(target, incoming) /\ Fits(incoming)
  BY BlocksAreRecords DEF Push, Idle, IInv, TypeOK, Accepted
<1>2. /\ target' = None /\ incoming' = None
      /\ blocks' \in [Keys -> Seq(Blocks)]
      /\ blocks'[target] = Append(blocks[target], incoming)
      /\ \A k \in Keys : k # target => blocks'[k] = blocks[k]
  BY <1>1 DEF Push, IInv, TypeOK
<1>3. entryBytes[target] + incoming.bytes \in 0 .. Capacity
  BY <1>1 DEF IInv, TypeOK, EntryFits
<1>4. /\ entryBytes' = [entryBytes EXCEPT ![target] = entryBytes[target] + incoming.bytes]
      /\ entryBytes' \in [Keys -> 0 .. Capacity]
  BY <1>1, <1>3 DEF Push, IInv, TypeOK
<1>5. bytes' = bytes + incoming.bytes /\ bytes' <= Capacity /\ bytes' \in Nat
  BY <1>1 DEF Push, Fits, IInv, TypeOK
<1>6. BytesAreTotal'
  <2>1. Total(entryBytes') = Total(entryBytes) - entryBytes[target]
                             + (entryBytes[target] + incoming.bytes)
    <3>1. entryBytes \in [Keys -> 0 .. Capacity]
      BY DEF IInv, TypeOK
    <3>2. PICK size \in 0 .. Capacity : size = entryBytes[target] + incoming.bytes
      BY <1>3
    <3>3. entryBytes' = [entryBytes EXCEPT ![target] = size]
      BY <1>4, <3>2
    <3>4. Total([entryBytes EXCEPT ![target] = size]) =
            Total(entryBytes) - entryBytes[target] + size
      BY <1>1, <3>1, TotalOfOneChange, Zenon
    <3>5. QED
      BY <3>2, <3>3, <3>4
  <2>2. entryBytes[target] \in Nat /\ Total(entryBytes) = bytes /\ bytes \in Nat
    BY <1>1 DEF IInv, TypeOK, BytesAreTotal
  <2>3. Total(entryBytes') = bytes'
    BY <1>1, <1>5, <2>1, <2>2
  <2>4. QED
    BY <2>3 DEF BytesAreTotal
<1>7. EmptyEntriesWeighNothing'
  BY <1>1, <1>2, <1>4 DEF IInv, TypeOK, EmptyEntriesWeighNothing, PresentKeys
<1>8. Accepted'
  BY <1>2 DEF Accepted
<1>9. TypeOK'
  <2>1. Tick \in 0 .. U64Max /\ evictions' = evictions /\ clock' = Tick
    BY TicksStayInRange DEF Push, IInv, TypeOK
  <2>2. lastTouch' \in [Keys -> 0 .. U64Max]
    BY <2>1 DEF Push, IInv, TypeOK
  <2>3. older' \subseteq Keys \X Keys /\ wrapped' \in BOOLEAN
    BY <1>1 DEF Push, Newest, Forgotten, PresentKeys, IInv, TypeOK
  <2>4. QED
    BY <1>2, <1>4, <1>5, <2>1, <2>2, <2>3 DEF IInv, TypeOK
<1>10. QED
  BY <1>5, <1>6, <1>7, <1>8, <1>9 DEF IInv

LEMMA ViewPreserves ==
  ASSUME IInv, NEW k \in Keys, View(k)
  PROVE  IInv'
<1>1. UNCHANGED <<blocks, entryBytes, bytes, evictions, target, incoming>>
  BY DEF View
<1>2. clock' \in 0 .. U64Max /\ lastTouch' \in [Keys -> 0 .. U64Max]
  BY TicksStayInRange DEF View, IInv, TypeOK
<1>3. older' \subseteq Keys \X Keys /\ wrapped' \in BOOLEAN
  BY DEF View, Newest, Forgotten, PresentKeys, IInv, TypeOK
<1>4. QED
  BY <1>1, <1>2, <1>3 DEF IInv, TypeOK, Accepted, ExpectedStart, PresentKeys, EntryFits, ValidBlock,
                          EndOf, BytesAreTotal, Total, EmptyEntriesWeighNothing

LEMMA RemovePreserves ==
  ASSUME IInv, NEW k \in Keys, Remove(k)
  PROVE  IInv'
<1>1. RemoveEntry(k) /\ target = None /\ UNCHANGED <<clock, evictions, target, incoming, wrapped>>
  BY DEF Remove, Idle
<1>2. Accepted'
  BY <1>1 DEF Accepted, IInv
<1>3. QED
  BY <1>1, <1>2, RemovalEffect DEF IInv, TypeOK

LEMMA ClearPreserves ==
  ASSUME IInv, Clear
  PROVE  IInv'
<1>1. /\ blocks' \in [Keys -> Seq(Blocks)]
      /\ entryBytes' = [k \in Keys |-> 0] /\ entryBytes' \in [Keys -> 0 .. Capacity]
      /\ lastTouch' \in [Keys -> 0 .. U64Max]
      /\ bytes' = 0 /\ older' = {} /\ target = None
      /\ UNCHANGED <<clock, evictions, target, incoming, wrapped>>
  BY CapacityHasWidth DEF Clear, Idle
<1>2. BytesAreTotal'
  BY <1>1, TotalOfEmptyTable DEF BytesAreTotal, Total
<1>3. Accepted' /\ EmptyEntriesWeighNothing'
  BY <1>1 DEF Accepted, EmptyEntriesWeighNothing, IInv
<1>4. QED
  BY <1>1, <1>2, <1>3, CapacityHasWidth DEF IInv, TypeOK

-----------------------------------------------------------------------------
(* The inductive invariant and the theorems. *)

LEMMA InitEstablishes == Init => IInv
<1> SUFFICES ASSUME Init PROVE IInv
  OBVIOUS
<1>1. TypeOK
  <2>1. /\ blocks \in [Keys -> Seq(Blocks)]
        /\ entryBytes \in [Keys -> 0 .. Capacity]
        /\ lastTouch \in [Keys -> 0 .. U64Max]
    BY CapacityHasWidth DEF Init
  <2>2. /\ bytes \in Nat /\ clock \in 0 .. U64Max /\ evictions \in 0 .. U64Max
        /\ target \in Keys \cup {None} /\ incoming \in Blocks \cup {None}
        /\ older \subseteq Keys \X Keys
    BY CapacityHasWidth DEF Init
  <2>3. wrapped \in BOOLEAN
    BY DEF Init
  <2>4. QED
    BY <2>1, <2>2, <2>3 DEF TypeOK
<1>2. QED
  BY <1>1, TotalOfEmptyTable, CapacityHasWidth
     DEF Init, IInv, Accepted, BytesAreTotal, EmptyEntriesWeighNothing

LEMMA StepPreserves == IInv /\ [Next]_vars => IInv'
<1> SUFFICES ASSUME IInv, [Next]_vars PROVE IInv'
  OBVIOUS
<1>1. CASE UNCHANGED vars
  <2>1. UNCHANGED <<blocks, entryBytes, lastTouch, bytes, clock, evictions, target, incoming,
                    older, wrapped>>
    BY <1>1 DEF vars, entries
  <2>2. QED
    BY <2>1 DEF IInv, TypeOK, Accepted, ExpectedStart, PresentKeys, EntryFits, ValidBlock,
                EndOf, BytesAreTotal, Total, EmptyEntriesWeighNothing
<1>2. QED
  BY <1>1, AcceptPreserves, EvictPreserves, PushPreserves, ViewPreserves, RemovePreserves,
     ClearPreserves DEF Next

LEMMA Invariance == Spec => []IInv
BY InitEstablishes, StepPreserves, PTL DEF Spec

\* Every field keeps its type; no entry is larger than the cache.
THEOREM TypeCorrect == Spec => []TypeOK
<1>1. IInv => TypeOK
  BY DEF IInv
<1>2. QED
  BY <1>1, Invariance, PTL

\* The entries' bytes stay within capacity_bytes, between evictions too.
THEOREM CapacityIsRespected == Spec => []WithinCapacity
<1>1. IInv => WithinCapacity
  BY DEF IInv, BytesAreTotal, WithinCapacity
<1>2. QED
  BY <1>1, Invariance, PTL

\* evict_for's error is unreachable: an append that passed its checks stores its
\* block, so no append evicts entries and then fails.
THEOREM AcceptedAppendsSucceed == Spec => []AcceptedAppendFits
BY OtherEntryToEvict, Invariance, PTL

-----------------------------------------------------------------------------
(* Each entry's bytes. *)

RunsWeighTheirBlocks == \A k \in Keys : entryBytes[k] = BytesOf(blocks[k])

LEMMA BytesOfNoBlocks == BytesOf(<< >>) = 0
<1> DEFINE none == << >>
<1>1. [i \in DOMAIN none |-> none[i].bytes] = [i \in {} |-> 0]
  OBVIOUS
<1>2. SumFunction([i \in {} |-> 0]) = 0
  BY FS_EmptySet, SumOfZeros
<1>3. QED
  BY <1>1, <1>2 DEF BytesOf

LEMMA BytesOfOneMore ==
  ASSUME NEW run \in Seq(Blocks), NEW b \in Blocks
  PROVE  BytesOf(Append(run, b)) = BytesOf(run) + b.bytes
<1> DEFINE longer == Append(run, b)
           n == Len(run)
           f == [i \in 1 .. n |-> run[i].bytes]
           h == [i \in 1 .. (n + 1) |-> longer[i].bytes]
<1>1. /\ n \in Nat /\ n + 1 \notin 1 .. n /\ (1 .. n) \cup {n + 1} = 1 .. (n + 1)
      /\ DOMAIN run = 1 .. n /\ DOMAIN longer = 1 .. (n + 1)
      /\ longer[n + 1] = b /\ \A i \in 1 .. n : longer[i] = run[i] /\ run[i] \in Blocks
  OBVIOUS
<1>2. BytesOf(run) = SumFunction(f) /\ BytesOf(longer) = SumFunction(h)
  BY <1>1 DEF BytesOf
<1>3. OneMoreRow(h, f, n) /\ h[n + 1] = b.bytes
  BY <1>1, BlocksAreRecords DEF OneMoreRow
<1> HIDE DEF f, h, n
<1>4. SumFunction(h) = h[n + 1] + SumFunction(f) /\ SumFunction(f) \in Nat
  BY <1>1, <1>3, SumOfOneMore
<1>5. QED
  BY <1>2, <1>3, <1>4, BlocksAreRecords

LEMMA WeightsStep == IInv /\ RunsWeighTheirBlocks /\ [Next]_vars => RunsWeighTheirBlocks'
<1> SUFFICES ASSUME IInv, RunsWeighTheirBlocks, [Next]_vars PROVE RunsWeighTheirBlocks'
  OBVIOUS
<1>1. ASSUME NEW k \in Keys, RemoveEntry(k) PROVE RunsWeighTheirBlocks'
  BY <1>1, BytesOfNoBlocks, RemovalEffect DEF RunsWeighTheirBlocks
<1>2. CASE EvictOne
  BY <1>1, <1>2 DEF EvictOne
<1>3. CASE Push
  <2>1. target \in Keys /\ incoming \in Blocks /\ blocks[target] \in Seq(Blocks)
    BY <1>3 DEF Push, Idle, IInv, TypeOK, Accepted
  <2>2. /\ blocks'[target] = Append(blocks[target], incoming)
        /\ entryBytes'[target] = entryBytes[target] + incoming.bytes
        /\ \A k \in Keys : k # target =>
             blocks'[k] = blocks[k] /\ entryBytes'[k] = entryBytes[k]
    BY <1>3, <2>1 DEF Push, IInv, TypeOK
  <2>3. QED
    BY <2>1, <2>2, BytesOfOneMore DEF RunsWeighTheirBlocks
<1>4. ASSUME NEW k \in Keys, Remove(k) PROVE RunsWeighTheirBlocks'
  BY <1>1, <1>4 DEF Remove
<1>5. CASE Clear
  BY <1>5, BytesOfNoBlocks DEF Clear, RunsWeighTheirBlocks
<1>6. ASSUME UNCHANGED <<blocks, entryBytes>> PROVE RunsWeighTheirBlocks'
  BY <1>6 DEF RunsWeighTheirBlocks
<1>7. QED
  BY <1>2, <1>3, <1>4, <1>5, <1>6 DEF Next, AcceptAppend, View, vars, entries

\* The counts that append, evict_for, remove and clear keep, `bytes` and each entry's,
\* are the sums they stand for.
THEOREM CountsAreExact == Spec => []BytesExact
<1>1. Init => RunsWeighTheirBlocks
  BY BytesOfNoBlocks DEF Init, RunsWeighTheirBlocks
<1>2. IInv /\ RunsWeighTheirBlocks => BytesExact
  BY DEF IInv, RunsWeighTheirBlocks, BytesExact
<1>3. QED
  BY <1>1, <1>2, WeightsStep, Invariance, PTL DEF Spec

-----------------------------------------------------------------------------
(* Refinement: what callers see is a SequenceStore. *)

\* Extending a contiguous run at its end and losing it as a whole keep every run
\* contiguous from token 0: the reason the KV-cache checks block.token_start.
THEOREM RunsStayContiguous == Store!Spec => [](Store!TypeOK /\ Store!ContiguousFromZero)
<1>1. Store!Init => Store!TypeOK /\ Store!ContiguousFromZero
  BY DEF Store!Init, Store!TypeOK, Store!ContiguousFromZero
<1>2. Store!TypeOK /\ Store!ContiguousFromZero /\ [Store!Next]_blocks => (Store!TypeOK /\ Store!ContiguousFromZero)'
  <2> SUFFICES ASSUME Store!TypeOK, Store!ContiguousFromZero, [Store!Next]_blocks
               PROVE  (Store!TypeOK /\ Store!ContiguousFromZero)'
    OBVIOUS
  <2>1. ASSUME NEW k \in Keys, NEW b \in Blocks, Store!Extend(k, b)
        PROVE  (Store!TypeOK /\ Store!ContiguousFromZero)'
    <3>1. /\ blocks' \in [Keys -> Seq(Blocks)]
          /\ blocks'[k] = Append(blocks[k], b)
          /\ \A j \in Keys : j # k => blocks'[j] = blocks[j]
      BY <2>1 DEF Store!Extend, Store!TypeOK
    <3>2. ASSUME NEW i \in 1 .. Len(blocks'[k])
          PROVE  blocks'[k][i].token_start = IF i = 1 THEN 0 ELSE Store!EndOf(blocks'[k][i - 1])
      <4>1. blocks[k] \in Seq(Blocks) /\ Len(blocks'[k]) = Len(blocks[k]) + 1 /\ Len(blocks[k]) \in Nat
        BY <3>1 DEF Store!TypeOK
      <4>2. CASE i \in 1 .. Len(blocks[k])
        BY <3>1, <4>1, <4>2 DEF Store!ContiguousFromZero
      <4>3. CASE i = Len(blocks[k]) + 1
        <5>1. blocks'[k][i] = b
          BY <3>1, <4>1, <4>3
        <5>2. CASE blocks[k] = << >>
          BY <2>1, <4>3, <5>1, <5>2 DEF Store!Extend, Store!NextToken
        <5>3. CASE blocks[k] # << >>
          <6>1. Len(blocks[k]) \in 1 .. Len(blocks[k]) /\ i # 1 /\ i - 1 = Len(blocks[k])
            BY <4>1, <4>3, <5>3
          <6>2. blocks'[k][i - 1] = blocks[k][Len(blocks[k])]
            BY <3>1, <4>1, <6>1
          <6>3. QED
            BY <2>1, <5>1, <5>3, <6>1, <6>2 DEF Store!Extend, Store!NextToken
        <5>4. QED
          BY <5>2, <5>3
      <4>4. QED
        BY <4>1, <4>2, <4>3
    <3>3. ASSUME NEW j \in Keys, j # k, NEW i \in 1 .. Len(blocks'[j])
          PROVE  blocks'[j][i].token_start = IF i = 1 THEN 0 ELSE Store!EndOf(blocks'[j][i - 1])
      <4>1. blocks'[j] = blocks[j]
        BY <3>1, <3>3
      <4>2. i \in 1 .. Len(blocks[j])
        BY <4>1
      <4>3. blocks[j][i].token_start = IF i = 1 THEN 0 ELSE Store!EndOf(blocks[j][i - 1])
        BY <4>2, Zenon DEF Store!ContiguousFromZero
      <4>4. QED
        BY <4>1, <4>3
    <3>4. \A j \in Keys : \A i \in 1 .. Len(blocks'[j]) :
            blocks'[j][i].token_start = IF i = 1 THEN 0 ELSE Store!EndOf(blocks'[j][i - 1])
      BY <3>2, <3>3
    <3>5. Store!ContiguousFromZero'
      BY <3>4, Zenon DEF Store!ContiguousFromZero, Store!EndOf
    <3>6. QED
      BY <3>1, <3>5 DEF Store!TypeOK
  <2>2. ASSUME NEW k \in Keys, Store!Lose(k) PROVE (Store!TypeOK /\ Store!ContiguousFromZero)'
    <3>1. /\ blocks' \in [Keys -> Seq(Blocks)]
          /\ \A j \in Keys : blocks'[j] = IF j = k THEN << >> ELSE blocks[j]
      BY <2>2 DEF Store!Lose, Store!TypeOK
    <3>2. QED
      BY <3>1 DEF Store!TypeOK, Store!ContiguousFromZero
  <2>3. CASE Store!LoseAll
    BY <2>3 DEF Store!LoseAll, Store!TypeOK, Store!ContiguousFromZero
  <2>4. CASE UNCHANGED blocks
    BY <2>4 DEF Store!TypeOK, Store!ContiguousFromZero
  <2>5. QED
    BY <2>1, <2>2, <2>3, <2>4 DEF Store!Next
<1>3. QED
  BY <1>1, <1>2, PTL DEF Store!Spec

LEMMA ExpectedIsNextToken ==
  ASSUME TypeOK, NEW k \in Keys
  PROVE  ExpectedStart(k) = Store!NextToken(blocks[k])
BY DEF ExpectedStart, PresentKeys, Store!NextToken, Store!EndOf, EndOf, TypeOK

LEMMA StepImplementsStore ==
  ASSUME IInv, [Next]_vars
  PROVE  [Store!Next]_blocks
<1>1. ASSUME NEW k \in Keys, RemoveEntry(k) PROVE Store!Next
  BY <1>1 DEF RemoveEntry, Store!Next, Store!Lose
<1>2. CASE EvictOne
  BY <1>1, <1>2 DEF EvictOne
<1>3. CASE Push
  <2>1. /\ target \in Keys /\ incoming \in Blocks
        /\ incoming.token_start = Store!NextToken(blocks[target])
    BY <1>3, ExpectedIsNextToken DEF Push, Idle, IInv, TypeOK, Accepted
  <2>2. Store!Extend(target, incoming)
    BY <1>3, <2>1 DEF Push, Store!Extend
  <2>3. QED
    BY <2>1, <2>2 DEF Store!Next
<1>4. ASSUME NEW k \in Keys, Remove(k) PROVE Store!Next
  BY <1>1, <1>4 DEF Remove
<1>5. CASE Clear
  BY <1>5 DEF Clear, Store!Next, Store!LoseAll
<1>6. ASSUME NEW k \in Keys, NEW b \in Blocks, AcceptAppend(k, b) PROVE UNCHANGED blocks
  BY <1>6 DEF AcceptAppend, entries
<1>7. ASSUME NEW k \in Keys, View(k) PROVE UNCHANGED blocks
  BY <1>7 DEF View
<1>8. CASE UNCHANGED vars
  BY <1>8 DEF vars, entries
<1>9. QED
  BY <1>2, <1>3, <1>4, <1>5, <1>6, <1>7, <1>8 DEF Next

\* Every behaviour of the cache is one of the abstract store: appends extend a
\* contiguous run, and everything else leaves runs alone or drops them whole.
THEOREM CacheImplementsStore == Spec => ImplementsStore
<1>1. Init => Store!Init
  BY DEF Init, Store!Init
<1>2. QED
  BY <1>1, StepImplementsStore, Invariance, PTL DEF Spec, ImplementsStore, Store!Spec

\* V0.2.md:29, "Appends are token-contiguous", as a property of every reachable
\* entry.
THEOREM EntriesAreContiguous == Spec => []RunsAreContiguous
BY RunsStayContiguous, CacheImplementsStore, PTL DEF ImplementsStore, RunsAreContiguous

-----------------------------------------------------------------------------
(* LRU order. *)

\* Until the clock wraps, a later use has a later stamp and none is ahead of the clock.
StampsFollowOrder ==
  ~wrapped =>
    /\ \A j, k \in Keys : <<j, k>> \in older => j \in PresentKeys /\ lastTouch[j] < lastTouch[k]
    /\ \A k \in Keys : lastTouch[k] <= clock

LEMMA ClockTicks ==
  ASSUME TypeOK, ~(wrapped \/ clock = U64Max)
  PROVE  Tick = clock + 1 /\ clock \in Nat /\ ~wrapped
BY DEF Tick, TypeOK

LEMMA RemovalKeepsOrder ==
  ASSUME TypeOK, StampsFollowOrder, NEW k \in Keys, RemoveEntry(k), UNCHANGED <<clock, wrapped>>
  PROVE  StampsFollowOrder'
<1>1. /\ \A j \in Keys : blocks'[j] = IF j = k THEN << >> ELSE blocks[j]
      /\ \A j \in Keys : lastTouch'[j] = IF j = k THEN 0 ELSE lastTouch[j]
      /\ \A i, j \in Keys : <<i, j>> \in older' => <<i, j>> \in older /\ i # k /\ j # k
  BY DEF RemoveEntry, Forgotten, TypeOK
<1>2. clock \in Nat /\ \A j \in Keys : lastTouch[j] \in Nat
  BY DEF TypeOK
<1>3. QED
  BY <1>1, <1>2 DEF StampsFollowOrder, PresentKeys

\* Making key k the newest with the next tick keeps the order.
LEMMA UseKeepsOrder ==
  ASSUME TypeOK, StampsFollowOrder, NEW k \in Keys, clock' = Tick,
         wrapped' = (wrapped \/ clock = U64Max),
         lastTouch' = [lastTouch EXCEPT ![k] = Tick],
         older' = Newest(k, PresentKeys),
         \A j \in Keys : blocks[j] # << >> => blocks'[j] # << >>
  PROVE  StampsFollowOrder'
<1> SUFFICES ASSUME ~wrapped' PROVE StampsFollowOrder'
  BY DEF StampsFollowOrder
<1>1. Tick = clock + 1 /\ clock \in Nat /\ ~wrapped
  BY ClockTicks
<1>2. \A j \in Keys : lastTouch[j] \in Nat /\ lastTouch'[j] = IF j = k THEN Tick ELSE lastTouch[j]
  BY DEF TypeOK
<1>3. \A i, j \in Keys : <<i, j>> \in older' =>
        \/ <<i, j>> \in older /\ i # k /\ j # k
        \/ i # k /\ i \in PresentKeys /\ j = k
  BY DEF Newest, Forgotten
<1>4. QED
  BY <1>1, <1>2, <1>3 DEF StampsFollowOrder, PresentKeys

LEMMA AppendIsNotEmpty ==
  ASSUME NEW run \in Seq(Blocks), NEW b \in Blocks
  PROVE  Append(run, b) # << >>
OBVIOUS

LEMMA OrderStep == IInv /\ StampsFollowOrder /\ [Next]_vars => StampsFollowOrder'
<1> SUFFICES ASSUME IInv, StampsFollowOrder, [Next]_vars PROVE StampsFollowOrder'
  OBVIOUS
<1>0. TypeOK
  BY DEF IInv
<1>1. ASSUME NEW k \in Keys, NEW b \in Blocks, AcceptAppend(k, b) PROVE StampsFollowOrder'
  BY <1>1 DEF AcceptAppend, entries, StampsFollowOrder, PresentKeys
<1>2. CASE EvictOne
  BY <1>0, <1>2, RemovalKeepsOrder DEF EvictOne
<1>3. CASE Push
  <2>1. target \in Keys /\ target # None
    BY <1>0, <1>3 DEF Push, Idle, TypeOK
  <2>2. \A j \in Keys : blocks[j] # << >> => blocks'[j] # << >>
    <3>1. blocks[target] \in Seq(Blocks) /\ incoming \in Blocks
      BY <1>0, <1>3, <2>1 DEF TypeOK, IInv, Accepted
    <3>2. Append(blocks[target], incoming) # << >>
      BY <3>1, AppendIsNotEmpty
    <3>3. QED
      BY <1>0, <1>3, <2>1, <3>2 DEF Push, TypeOK
  <2>3. QED
    BY <1>0, <1>3, <2>1, <2>2, UseKeepsOrder DEF Push
<1>4. ASSUME NEW k \in Keys, View(k) PROVE StampsFollowOrder'
  <2>1. CASE k \in PresentKeys
    BY <1>0, <1>4, <2>1, UseKeepsOrder DEF View
  <2>2. CASE k \notin PresentKeys
    <3>1. UNCHANGED <<lastTouch, older, blocks>> /\ clock' = Tick
          /\ wrapped' = (wrapped \/ clock = U64Max)
      BY <1>4, <2>2 DEF View
    <3>2. ~wrapped' => clock' = clock + 1 /\ clock \in Nat /\ ~wrapped
      BY <1>0, <3>1, ClockTicks
    <3>3. \A j \in Keys : lastTouch[j] \in Nat
      BY <1>0 DEF TypeOK
    <3>4. QED
      BY <3>1, <3>2, <3>3 DEF StampsFollowOrder, PresentKeys
  <2>3. QED
    BY <2>1, <2>2
<1>5. ASSUME NEW k \in Keys, Remove(k) PROVE StampsFollowOrder'
  BY <1>0, <1>5, RemovalKeepsOrder DEF Remove
<1>6. CASE Clear
  BY <1>0, <1>6 DEF Clear, StampsFollowOrder, TypeOK
<1>7. CASE UNCHANGED vars
  BY <1>7 DEF vars, entries, StampsFollowOrder, PresentKeys
<1>8. QED
  BY <1>1, <1>2, <1>3, <1>4, <1>5, <1>6, <1>7 DEF Next

LEMMA OnlyOldestLeaves ==
  ASSUME IInv, StampsFollowOrder, [Next]_vars, NEW k \in Keys,
         target # None, ~wrapped, k \in PresentKeys, blocks'[k] = << >>
  PROVE  \A j \in Keys \ {target} : <<j, k>> \notin older
<1>1. blocks' # blocks
  BY DEF PresentKeys
<1>2. ~Push
  <2> SUFFICES ASSUME Push PROVE FALSE
    OBVIOUS
  <2>1. target \in Keys /\ incoming \in Blocks /\ blocks[target] \in Seq(Blocks)
    BY DEF IInv, TypeOK, Accepted
  <2>2. Append(blocks[target], incoming) # << >>
    BY <2>1, AppendIsNotEmpty
  <2>3. QED
    BY <2>1, <2>2 DEF Push, IInv, TypeOK, PresentKeys
<1>3. EvictOne
  BY <1>1, <1>2 DEF Next, AcceptAppend, View, Remove, Clear, Idle, vars, entries
<1>4. PICK victim \in Keys : IsVictim(victim) /\ RemoveEntry(victim)
  BY <1>3 DEF EvictOne
<1>5. victim = k
  BY <1>4 DEF RemoveEntry, PresentKeys, IInv, TypeOK
<1>6. \A j \in Keys : lastTouch[j] \in Nat
  BY DEF IInv, TypeOK
<1>7. QED
  BY <1>4, <1>5, <1>6 DEF IsVictim, Evictable, StampsFollowOrder

\* evict_for removes the least recently used of the other entries, for as long
\* as the 64-bit clock has not wrapped.
THEOREM EvictionIsLeastRecent == Spec => EvictsLeastRecent
<1>1. Init => StampsFollowOrder
  BY DEF Init, StampsFollowOrder
<1>2. Spec => []StampsFollowOrder
  BY <1>1, OrderStep, Invariance, PTL DEF Spec
<1>3. IInv /\ StampsFollowOrder /\ [Next]_vars =>
        [\A k \in Keys :
           /\ target # None /\ ~wrapped
           /\ k \in PresentKeys /\ blocks'[k] = << >>
           => \A j \in Keys \ {target} : <<j, k>> \notin older]_vars
  BY OnlyOldestLeaves
<1>4. QED
  BY <1>2, <1>3, Invariance, PTL DEF Spec, EvictsLeastRecent

=============================================================================
