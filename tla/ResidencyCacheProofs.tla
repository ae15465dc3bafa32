------------------------ MODULE ResidencyCacheProofs ------------------------
(***************************************************************************)
(* Theorems about ResidencyCache, for every set of threads, keys, specs    *)
(* and allocations and every capacity.  The inductive invariant adds to    *)
(* the type invariant what a call inside the mutex has established so far. *)
(***************************************************************************)
EXTENDS ResidencyCache, DataInduction, TLAPS

\* What holds between the lookup of a missing call and its return: the request
\* was admissible and its key has no entry.
CallInProgress ==
  /\ owner = None <=> want = None
  /\ want # None => Admissible(want) /\ cached[want.key] = None

\* The cache's bookkeeping, its entries and the callers' leases agree.
Consistent ==
  /\ EntriesAreLive
  /\ ResidentBytesExact
  /\ residentBytes <= Capacity
  /\ LeaseServesRequest

IInv == TypeOK /\ CallInProgress /\ Consistent

-----------------------------------------------------------------------------
(* Lemmas about the operators. *)

\* An allocation is held by some Arc exactly when a slot or a lease names it.
LEMMA HeldIffNamed ==
  ASSUME NEW slots \in [Keys -> Allocs \cup {None}],
         NEW leases \in [Threads -> Allocs \cup {None}],
         NEW a \in Allocs
  PROVE  a \in ArcsOf(slots, leases) <=>
           (\E k \in Keys : slots[k] = a) \/ (\E t \in Threads : leases[t] = a)
BY NoneIsNoValue DEF ArcsOf, Range

\* Byte counts an allocation, or an empty slot, can contribute.
ByteCounts == {s.bytes : s \in Specs} \cup {0}

LEMMA TotalOfEmptyTable == Total([k \in Keys |-> 0]) = 0
BY FiniteKeys, SumOfZeros DEF Total

LEMMA TotalOfOneChange ==
  \A table \in [Keys -> ByteCounts], k \in Keys, b \in ByteCounts :
    /\ Total(table) \in Nat
    /\ Total([table EXCEPT ![k] = b]) = Total(table) - table[k] + b
    /\ table[k] <= Total(table)
<1> SUFFICES ASSUME NEW table \in [Keys -> ByteCounts], NEW k \in Keys, NEW b \in ByteCounts
             PROVE  /\ Total(table) \in Nat
                    /\ Total([table EXCEPT ![k] = b]) = Total(table) - table[k] + b
                    /\ table[k] <= Total(table)
  OBVIOUS
<1>1. ByteCounts \subseteq Nat
  BY SpecsAreRecords DEF ByteCounts
<1>2. table \in [Keys -> Nat] /\ b \in Nat
  BY <1>1
<1>3. QED
  BY <1>2, FiniteKeys, SumOfOneChange, Zenon DEF Total

\* The table of bytes per entry is a table over ByteCounts.
LEMMA EntryTableType ==
  ASSUME TypeOK, EntriesAreLive
  PROVE  /\ [k \in Keys |-> EntryBytes(k)] \in [Keys -> ByteCounts]
         /\ \A k \in Keys : EntryBytes(k) \in Nat
         /\ CachedTotal \in Nat
<1>1. ASSUME NEW k \in Keys PROVE EntryBytes(k) \in ByteCounts /\ EntryBytes(k) \in Nat
  <2>1. CASE cached[k] = None
    BY <2>1 DEF EntryBytes, ByteCounts
  <2>2. CASE cached[k] # None
    <3>1. heap[cached[k]] \in Specs
      BY <2>2 DEF TypeOK, EntriesAreLive, CachedKeys
    <3>2. QED
      BY <2>2, <3>1, SpecsAreRecords DEF EntryBytes, ByteCounts
  <2>3. QED
    BY <2>1, <2>2
<1>2. [k \in Keys |-> EntryBytes(k)] \in [Keys -> ByteCounts]
  BY <1>1
<1>3. CachedTotal \in Nat
  <2>1. CASE Keys = {}
    <3>1. [k \in Keys |-> EntryBytes(k)] = [k \in Keys |-> 0]
      BY <2>1
    <3>2. QED
      BY <3>1, TotalOfEmptyTable DEF CachedTotal
  <2>2. CASE Keys # {}
    <3>1. PICK k \in Keys : TRUE
      BY <2>2
    <3>2. 0 \in ByteCounts
      BY DEF ByteCounts
    <3>3. QED
      BY <1>2, <3>1, <3>2, TotalOfOneChange DEF CachedTotal
  <2>3. QED
    BY <2>1, <2>2
<1>4. QED
  BY <1>1, <1>2, <1>3

\* Emptying one slot takes that entry's bytes off the total.
LEMMA TotalWithoutKey ==
  ASSUME TypeOK, EntriesAreLive, NEW k \in Keys
  PROVE  /\ Total([[j \in Keys |-> EntryBytes(j)] EXCEPT ![k] = 0]) = CachedTotal - EntryBytes(k)
         /\ EntryBytes(k) <= CachedTotal
<1> DEFINE table == [j \in Keys |-> EntryBytes(j)]
<1>1. table \in [Keys -> ByteCounts] /\ table[k] = EntryBytes(k)
  BY EntryTableType
<1>2. 0 \in ByteCounts
  BY DEF ByteCounts
<1>3. Total([table EXCEPT ![k] = 0]) = Total(table) - table[k] + 0 /\ table[k] <= Total(table)
  BY <1>1, <1>2, TotalOfOneChange
<1>4. EntryBytes(k) \in Nat /\ CachedTotal \in Nat
  BY EntryTableType
<1>5. QED
  BY <1>1, <1>3, <1>4 DEF CachedTotal

\* min_by_key finds a victim whenever there is an entry, so that the loop always
\* has one to evict while the request does not fit.
LEMMA SomethingToEvict ==
  ASSUME IInv PROVE VictimAvailable
<1> SUFFICES ASSUME owner # None, CachedKeys = {} PROVE Fits(want)
  BY DEF VictimAvailable
<1>1. want \in Specs /\ Admissible(want)
  BY DEF IInv, TypeOK, CallInProgress
<1>2. [k \in Keys |-> EntryBytes(k)] = [k \in Keys |-> 0]
  BY DEF CachedKeys, EntryBytes
<1>3. residentBytes = 0
  BY <1>2, TotalOfEmptyTable DEF IInv, Consistent, ResidentBytesExact, CachedTotal
<1>4. want.bytes \in Nat
  BY <1>1, SpecsAreRecords
<1>5. QED
  BY <1>1, <1>3, <1>4, NonZeroCapacity DEF Fits, Admissible

\* Removing an entry keeps the bookkeeping right and every lease alive.
LEMMA RemovalIsConsistent ==
  ASSUME TypeOK, Consistent, NEW k \in Keys, RemoveEntry(k), UNCHANGED <<lease, asked>>
  PROVE  /\ cached' \in [Keys -> Allocs \cup {None}] /\ cached'[k] = None
         /\ \A j \in Keys : cached[j] = None => cached'[j] = None
         /\ lastTouch' \in [Keys -> U64]
         /\ residentBytes' \in Nat
         /\ heap' \in [Allocs -> Specs \cup {None}]
         /\ older' \subseteq Keys \X Keys
         /\ Consistent'
<1>1. /\ cached' \in [Keys -> Allocs \cup {None}]
      /\ \A j \in Keys : cached'[j] = IF j = k THEN None ELSE cached[j]
  BY DEF RemoveEntry, Slots, TypeOK
<1>2. lastTouch' \in [Keys -> U64]
  BY CountersHaveWidth DEF RemoveEntry, TypeOK, U64
<1>3. /\ heap' \in [Allocs -> Specs \cup {None}]
      /\ \A a \in Allocs :
           heap'[a] = IF a \in ArcsOf(cached', lease') THEN heap[a] ELSE None
  BY DEF RemoveEntry, Surviving, TypeOK
<1>4. \A j \in Keys : cached'[j] # None => heap'[cached'[j]] = heap[cached[j]]
  BY <1>1, <1>3, HeldIffNamed DEF TypeOK
<1>5. \A t \in Threads : lease'[t] # None => heap'[lease'[t]] = heap[lease[t]]
  BY <1>1, <1>3, HeldIffNamed DEF TypeOK
<1>6. EntriesAreLive'
  BY <1>1, <1>4 DEF Consistent, EntriesAreLive, CachedKeys, Admissible
<1>7. residentBytes' = CachedTotal - EntryBytes(k) /\ residentBytes' \in Nat
      /\ residentBytes' <= Capacity
  <2>1. /\ residentBytes = CachedTotal /\ residentBytes <= Capacity
        /\ EntryBytes(k) <= CachedTotal
        /\ EntryBytes(k) \in Nat /\ CachedTotal \in Nat
    BY TotalWithoutKey, EntryTableType DEF Consistent, ResidentBytesExact
  <2>2. residentBytes' = MinusBytes(residentBytes, EntryBytes(k))
    BY DEF RemoveEntry
  <2>3. QED
    BY <2>1, <2>2, NonZeroCapacity DEF MinusBytes
<1>8. ResidentBytesExact'
  <2> DEFINE table == [j \in Keys |-> EntryBytes(j)]
  <2>1. ASSUME NEW j \in Keys
        PROVE  EntryBytes(j)' = IF j = k THEN 0 ELSE EntryBytes(j)
    BY <1>1, <1>4 DEF EntryBytes
  <2>2. [j \in Keys |-> EntryBytes(j)'] = [table EXCEPT ![k] = 0]
    BY <2>1
  <2>3. CachedTotal' = CachedTotal - EntryBytes(k)
    BY <2>2, TotalWithoutKey DEF Consistent, CachedTotal, Total
  <2>4. QED
    BY <1>7, <2>3 DEF ResidentBytesExact
<1>9. LeaseServesRequest'
  BY <1>5 DEF Consistent, LeaseServesRequest
<1>10. older' \subseteq Keys \X Keys
  BY DEF RemoveEntry, Forgotten, TypeOK
<1>11. QED
  BY <1>1, <1>2, <1>3, <1>6, <1>7, <1>8, <1>9, <1>10 DEF Consistent

-----------------------------------------------------------------------------
(* One lemma per operation. *)

LEMMA CountersStayInRange ==
  /\ \A n \in Nat : Saturating(n) \in U64
  /\ clock \in U64 => Tick \in U64
BY CountersHaveWidth DEF U64, Saturating, Tick

LEMMA HitPreserves ==
  ASSUME IInv, NEW t \in Threads, NEW s \in Specs, AcquireHit(t, s)
  PROVE  IInv'
<1> USE DEF IInv, Consistent
<1>1. s.key \in Keys /\ cached[s.key] \in Allocs /\ heap[cached[s.key]] = s
  BY SpecsAreRecords DEF AcquireHit, Matches, TypeOK
<1>2. /\ lease' = [lease EXCEPT ![t] = cached[s.key]]
      /\ asked' = [asked EXCEPT ![t] = s]
      /\ \A a \in Allocs :
           heap'[a] = IF a \in ArcsOf(cached, lease') THEN heap[a] ELSE None
      /\ UNCHANGED <<owner, want, poisoned, cached, residentBytes, stamp>>
  BY DEF AcquireHit, Hand, Surviving
<1>3. lease' \in [Threads -> Allocs \cup {None}]
  BY <1>1, <1>2 DEF TypeOK
<1>4. TypeOK'
  <2>1. heap' \in [Allocs -> Specs \cup {None}]
    BY <1>2 DEF AcquireHit, Hand, Surviving, TypeOK
  <2>2. asked' \in [Threads -> Specs \cup {None}]
    BY <1>2 DEF TypeOK
  <2>3. older' \subseteq Keys \X Keys
    BY <1>1 DEF AcquireHit, Newest, Forgotten, CachedKeys, TypeOK
  <2>4. {clock, hits, misses, evictions, stamp, failed}' \subseteq U64
    BY CountersStayInRange DEF AcquireHit, TypeOK, U64
  <2>5. lastTouch' \in [Keys -> U64] /\ wrapped' \in BOOLEAN
    BY CountersStayInRange DEF AcquireHit, TypeOK
  <2>6. QED
    BY <1>2, <1>3, <2>1, <2>2, <2>3, <2>4, <2>5 DEF TypeOK
<1>5. CallInProgress'
  BY <1>2 DEF CallInProgress, Admissible
<1>6. \A k \in Keys : cached'[k] # None => heap'[cached'[k]] = heap[cached[k]]
  <2>1. \A k \in Keys : cached[k] # None => cached[k] \in ArcsOf(cached, lease')
    BY <1>3, HeldIffNamed DEF TypeOK
  <2>2. QED
    BY <1>2, <2>1 DEF TypeOK
<1>7. EntriesAreLive'
  BY <1>2, <1>6 DEF EntriesAreLive, CachedKeys, Admissible
<1>8. ResidentBytesExact' /\ residentBytes' <= Capacity
  <2>1. \A k \in Keys : EntryBytes(k)' = EntryBytes(k)
    BY <1>2, <1>6 DEF EntryBytes
  <2>2. [k \in Keys |-> EntryBytes(k)'] = [k \in Keys |-> EntryBytes(k)]
    BY <2>1
  <2>3. QED
    BY <1>2, <2>2 DEF ResidentBytesExact, CachedTotal, Total
<1>9. LeaseServesRequest'
  <2> SUFFICES ASSUME NEW u \in Threads, lease'[u] # None
               PROVE  heap'[lease'[u]] # None /\ heap'[lease'[u]] = asked'[u]
    BY DEF LeaseServesRequest
  <2>1. heap'[lease'[u]] = heap[lease'[u]]
    BY <1>2, <1>3, HeldIffNamed DEF TypeOK
  <2>2. CASE u = t
    BY <1>1, <1>2, <2>1, <2>2, NoneIsNoValue DEF TypeOK
  <2>3. CASE u # t
    BY <1>2, <2>1, <2>3 DEF LeaseServesRequest, TypeOK
  <2>4. QED
    BY <2>2, <2>3
<1>10. QED
  BY <1>4, <1>5, <1>7, <1>8, <1>9

LEMMA MissPreserves ==
  ASSUME IInv, NEW t \in Threads, NEW s \in Specs, AcquireMiss(t, s)
  PROVE  IInv'
<1>1. s.key \in Keys /\ RemoveEntry(s.key) /\ UNCHANGED <<lease, asked, poisoned, failed>>
  BY SpecsAreRecords DEF AcquireMiss
<1>2. /\ cached' \in [Keys -> Allocs \cup {None}] /\ cached'[s.key] = None
      /\ lastTouch' \in [Keys -> U64]
      /\ residentBytes' \in Nat
      /\ heap' \in [Allocs -> Specs \cup {None}]
      /\ older' \subseteq Keys \X Keys
      /\ Consistent'
  BY <1>1, RemovalIsConsistent DEF IInv
<1>3. owner' = t /\ want' = s /\ Admissible(s)
  BY DEF AcquireMiss
<1>4. CallInProgress'
  BY <1>2, <1>3, NoneIsNoValue DEF CallInProgress, Admissible
<1>5. {clock, hits, misses, evictions, stamp, failed}' \subseteq U64
  <2>1. Occupied(s.key) \in Nat
    BY DEF Occupied
  <2>2. QED
    BY <2>1, CountersStayInRange DEF AcquireMiss, IInv, TypeOK, U64
<1>6. TypeOK'
  BY <1>1, <1>2, <1>3, <1>5 DEF IInv, TypeOK, AcquireMiss
<1>7. QED
  BY <1>2, <1>4, <1>6 DEF IInv

LEMMA EvictPreserves ==
  ASSUME IInv, NEW t \in Threads, EvictOne(t)
  PROVE  IInv'
<1>1. PICK k \in Keys : RemoveEntry(k)
  BY DEF EvictOne
<1>2. UNCHANGED <<owner, poisoned, want, stamp, clock, hits, misses, lease, asked,
                  wrapped, failed>>
  BY DEF EvictOne
<1>3. /\ cached' \in [Keys -> Allocs \cup {None}]
      /\ \A j \in Keys : cached[j] = None => cached'[j] = None
      /\ lastTouch' \in [Keys -> U64]
      /\ residentBytes' \in Nat
      /\ heap' \in [Allocs -> Specs \cup {None}]
      /\ older' \subseteq Keys \X Keys
      /\ Consistent'
  BY <1>1, <1>2, RemovalIsConsistent DEF IInv
<1>4. CallInProgress'
  BY <1>2, <1>3, SpecsAreRecords DEF IInv, CallInProgress, Admissible, TypeOK
<1>5. evictions' \in U64
  BY CountersStayInRange DEF EvictOne, IInv, TypeOK, U64
<1>6. TypeOK'
  BY <1>2, <1>3, <1>5 DEF IInv, TypeOK
<1>7. QED
  BY <1>3, <1>4, <1>6 DEF IInv

LEMMA InvalidatePreserves ==
  ASSUME IInv, NEW k \in Keys, Invalidate(k)
  PROVE  IInv'
<1>1. /\ RemoveEntry(k)
      /\ UNCHANGED <<owner, poisoned, want, stamp, clock, hits, misses, lease, asked,
                     wrapped, failed>>
  BY DEF Invalidate
<1>2. /\ cached' \in [Keys -> Allocs \cup {None}]
      /\ \A j \in Keys : cached[j] = None => cached'[j] = None
      /\ lastTouch' \in [Keys -> U64]
      /\ residentBytes' \in Nat
      /\ heap' \in [Allocs -> Specs \cup {None}]
      /\ older' \subseteq Keys \X Keys
      /\ Consistent'
  BY <1>1, RemovalIsConsistent DEF IInv
<1>3. CallInProgress'
  BY <1>1, <1>2, SpecsAreRecords DEF IInv, CallInProgress, Admissible, TypeOK
<1>4. evictions' \in U64
  BY CountersStayInRange DEF Invalidate, IInv, TypeOK, U64
<1>5. TypeOK'
  BY <1>1, <1>2, <1>4 DEF IInv, TypeOK
<1>6. QED
  BY <1>2, <1>3, <1>5 DEF IInv

\* A kept answer: the new entry's bytes are added once, its allocation is live,
\* and the caller's new lease is for what it asked.
LEMMA KeepPreserves ==
  ASSUME IInv, NEW t \in Threads, NEW a \in Allocs, want \in Specs, Fits(want),
         heap[a] \in {None, want}, Keep(t, a, want), Unlock,
         UNCHANGED <<poisoned, counters, wrapped>>
  PROVE  IInv'
<1> DEFINE k == want.key
           slots == [cached EXCEPT ![k] = a]
<1>1. /\ want.key \in Keys /\ want.bytes \in Nat /\ Admissible(want)
      /\ cached[want.key] = None /\ want # None
  BY SpecsAreRecords, NoneIsNoValue DEF IInv, CallInProgress
<1>2. /\ cached' = slots
      /\ cached' \in [Keys -> Allocs \cup {None}]
      /\ cached'[k] = a
      /\ \A j \in Keys : j # k => cached'[j] = cached[j]
  BY <1>1 DEF Keep, IInv, TypeOK
<1>3. /\ lease' = [lease EXCEPT ![t] = a]
      /\ asked' = [asked EXCEPT ![t] = want]
      /\ lease' \in [Threads -> Allocs \cup {None}]
      /\ asked' \in [Threads -> Specs \cup {None}]
  BY DEF Keep, Hand, IInv, TypeOK
<1>4. /\ heap' \in [Allocs -> Specs \cup {None}]
      /\ \A b \in Allocs : heap'[b] = IF b \in ArcsOf(cached', lease')
                                      THEN IF b = a THEN want ELSE heap[b]
                                      ELSE None
  BY <1>2, <1>3 DEF Keep, Hand, Surviving, IInv, TypeOK
<1>5. /\ \A j \in Keys : cached'[j] # None => cached'[j] \in ArcsOf(cached', lease')
      /\ \A u \in Threads : lease'[u] # None => lease'[u] \in ArcsOf(cached', lease')
  BY <1>2, <1>3, HeldIffNamed
<1>6. heap'[a] = want
  <2>1. cached'[k] = a /\ cached'[k] # None /\ k \in Keys
    BY <1>1, <1>2, NoneIsNoValue
  <2>2. a \in ArcsOf(cached', lease')
    BY <1>5, <2>1
  <2>3. QED
    BY <1>4, <2>2
<1>7. \A j \in Keys : j # k /\ cached[j] # None => heap'[cached'[j]] = heap[cached[j]]
  <2> SUFFICES ASSUME NEW j \in Keys, j # k, cached[j] # None
               PROVE  heap'[cached'[j]] = heap[cached[j]]
    OBVIOUS
  <2>1. cached[j] \in Allocs /\ heap[cached[j]] # None /\ cached'[j] = cached[j]
    BY <1>2 DEF IInv, Consistent, EntriesAreLive, CachedKeys, TypeOK
  <2>2. cached[j] = a => heap[a] = want
    BY <2>1
  <2>3. QED
    BY <1>4, <1>5, <2>1, <2>2
<1>8. EntriesAreLive'
  <2> SUFFICES ASSUME NEW j \in Keys, cached'[j] # None
               PROVE  heap'[cached'[j]] # None /\ heap'[cached'[j]].key = j
                      /\ Admissible(heap'[cached'[j]])
    BY DEF EntriesAreLive, CachedKeys, Admissible
  <2>1. CASE j = k
    BY <1>1, <1>2, <1>6, <2>1 DEF Admissible
  <2>2. CASE j # k
    BY <1>2, <1>7, <2>2 DEF IInv, Consistent, EntriesAreLive, CachedKeys, Admissible
  <2>3. QED
    BY <2>1, <2>2
<1>9. residentBytes' = residentBytes + want.bytes /\ residentBytes' <= Capacity
      /\ residentBytes' \in Nat
  BY <1>1 DEF Keep, Fits, IInv, TypeOK
<1>10. ResidentBytesExact'
  <2> DEFINE table == [j \in Keys |-> EntryBytes(j)]
  <2>1. ASSUME NEW j \in Keys
        PROVE  EntryBytes(j)' = IF j = k THEN want.bytes ELSE EntryBytes(j)
    BY <1>2, <1>6, <1>7, NoneIsNoValue DEF EntryBytes
  <2>2. [j \in Keys |-> EntryBytes(j)'] = [table EXCEPT ![k] = want.bytes]
    BY <2>1
  <2>3. want.bytes \in ByteCounts
    BY DEF ByteCounts
  <2>4. table \in [Keys -> ByteCounts] /\ table[k] = 0
    BY <1>1, EntryTableType DEF EntryBytes, IInv, Consistent
  <2>5. Total([table EXCEPT ![k] = want.bytes]) = Total(table) - 0 + want.bytes
    BY <1>1, <2>3, <2>4, TotalOfOneChange
  <2>6. Total(table) \in Nat /\ residentBytes = Total(table)
    BY EntryTableType DEF IInv, Consistent, ResidentBytesExact, CachedTotal
  <2>7. CachedTotal' = Total([table EXCEPT ![k] = want.bytes])
    BY <2>2 DEF CachedTotal, Total
  <2>8. QED
    BY <1>1, <1>9, <2>5, <2>6, <2>7 DEF ResidentBytesExact
<1>11. LeaseServesRequest'
  <2> SUFFICES ASSUME NEW u \in Threads, lease'[u] # None
               PROVE  heap'[lease'[u]] # None /\ heap'[lease'[u]] = asked'[u]
    BY DEF LeaseServesRequest
  <2>1. CASE u = t
    BY <1>1, <1>3, <1>6, <2>1 DEF IInv, TypeOK
  <2>2. CASE u # t
    <3>1. /\ lease'[u] = lease[u] /\ asked'[u] = asked[u] /\ lease[u] \in Allocs
          /\ heap[lease[u]] # None /\ heap[lease[u]] = asked[u]
      BY <1>3, <2>2 DEF IInv, Consistent, LeaseServesRequest, TypeOK
    <3>2. lease[u] = a => heap[a] = want
      BY <3>1
    <3>3. QED
      BY <1>4, <1>5, <3>1, <3>2
  <2>3. QED
    BY <2>1, <2>2
<1>12. CallInProgress'
  BY DEF Unlock, CallInProgress
<1>13. TypeOK'
  <2>1. lastTouch' \in [Keys -> U64] /\ older' \subseteq Keys \X Keys
    BY <1>1 DEF Keep, Newest, Forgotten, CachedKeys, IInv, TypeOK
  <2>2. {clock, hits, misses, evictions, stamp, failed}' \subseteq U64
    BY CountersHaveWidth DEF Keep, Unlock, counters, IInv, TypeOK, U64
  <2>3. QED
    BY <1>2, <1>3, <1>4, <1>9, <2>1, <2>2 DEF Unlock, IInv, TypeOK
<1>14. QED
  BY <1>8, <1>9, <1>10, <1>11, <1>12, <1>13 DEF IInv, Consistent

\* A refused answer, an error or a panic leaves the entries and leases as they were.
LEMMA RejectPreserves ==
  ASSUME IInv, Reject, Unlock, poisoned' \in BOOLEAN, UNCHANGED <<counters, wrapped>>
  PROVE  IInv'
<1>1. UNCHANGED <<cached, lastTouch, residentBytes, heap, lease, asked, older>>
  BY DEF Reject, entries
<1>2. Consistent'
  BY <1>1 DEF IInv, Consistent, EntriesAreLive, CachedKeys, Admissible, ResidentBytesExact,
              CachedTotal, EntryBytes, LeaseServesRequest
<1>3. CallInProgress'
  BY DEF Unlock, CallInProgress
<1>4. {clock, hits, misses, evictions, stamp, failed}' \subseteq U64
  BY CountersStayInRange, CountersHaveWidth DEF Reject, Unlock, counters, IInv, TypeOK, U64
<1>5. TypeOK'
  BY <1>1, <1>4 DEF Unlock, IInv, TypeOK
<1>6. QED
  BY <1>2, <1>3, <1>5 DEF IInv

LEMMA ClearPreserves ==
  ASSUME IInv, Clear
  PROVE  IInv'
<1>1. /\ cached' = [k \in Keys |-> None] /\ residentBytes' = 0
      /\ UNCHANGED <<owner, want, lease, asked>>
      /\ heap' \in [Allocs -> Specs \cup {None}]
      /\ \A a \in Allocs : heap'[a] = IF a \in ArcsOf(cached', lease) THEN heap[a] ELSE None
  BY DEF Clear, Surviving, IInv, TypeOK
<1>2. cached' \in [Keys -> Allocs \cup {None}]
  BY <1>1
<1>3. LeaseServesRequest'
  BY <1>1, <1>2, HeldIffNamed DEF LeaseServesRequest, IInv, Consistent, TypeOK
<1>4. EntriesAreLive'
  BY <1>1 DEF EntriesAreLive, CachedKeys
<1>5. ResidentBytesExact' /\ residentBytes' <= Capacity
  <2>1. [k \in Keys |-> EntryBytes(k)'] = [k \in Keys |-> 0]
    BY <1>1 DEF EntryBytes
  <2>2. CachedTotal' = 0
    BY <2>1, TotalOfEmptyTable DEF CachedTotal, Total
  <2>3. QED
    BY <1>1, <2>2, NonZeroCapacity DEF ResidentBytesExact
<1>6. CallInProgress'
  BY <1>1, SpecsAreRecords DEF IInv, TypeOK, CallInProgress, Admissible
<1>7. TypeOK'
  <2>1. Saturating(evictions + Cardinality(CachedKeys)) \in U64
    <3>1. Cardinality(CachedKeys) \in Nat
      BY FiniteKeys, FS_Subset, FS_CardinalityType DEF CachedKeys
    <3>2. QED
      BY <3>1, CountersStayInRange DEF U64, IInv, TypeOK
  <2>2. lastTouch' \in [Keys -> U64]
    BY CountersHaveWidth DEF Clear, U64
  <2>3. QED
    BY <1>1, <1>2, <2>1, <2>2 DEF Clear, IInv, TypeOK
<1>8. QED
  BY <1>3, <1>4, <1>5, <1>6, <1>7 DEF IInv, Consistent

LEMMA DropPreserves ==
  ASSUME IInv, NEW t \in Threads, DropLease(t)
  PROVE  IInv'
<1>1. /\ lease' = [lease EXCEPT ![t] = None] /\ asked' = [asked EXCEPT ![t] = None]
      /\ UNCHANGED <<owner, poisoned, want, stamp, entries, counters, history>>
      /\ heap' \in [Allocs -> Specs \cup {None}]
      /\ \A a \in Allocs : heap'[a] = IF a \in ArcsOf(cached, lease') THEN heap[a] ELSE None
  BY DEF DropLease, Surviving, IInv, TypeOK
<1>2. /\ lease' \in [Threads -> Allocs \cup {None}]
      /\ asked' \in [Threads -> Specs \cup {None}]
      /\ cached' = cached /\ residentBytes' = residentBytes
  BY <1>1 DEF IInv, TypeOK, entries
<1>3. /\ \A k \in Keys : cached[k] # None => heap'[cached[k]] = heap[cached[k]]
      /\ \A u \in Threads : lease'[u] # None => heap'[lease'[u]] = heap[lease'[u]]
  <2>1. /\ \A k \in Keys : cached[k] # None => cached[k] \in ArcsOf(cached, lease')
        /\ \A u \in Threads : lease'[u] # None => lease'[u] \in ArcsOf(cached, lease')
    BY <1>2, HeldIffNamed DEF IInv, TypeOK
  <2>2. QED
    BY <1>1, <1>2, <2>1 DEF IInv, TypeOK
<1>4. EntriesAreLive'
  BY <1>2, <1>3 DEF EntriesAreLive, CachedKeys, Admissible, IInv, Consistent
<1>5. ResidentBytesExact' /\ residentBytes' <= Capacity
  <2>1. \A k \in Keys : EntryBytes(k)' = EntryBytes(k)
    BY <1>2, <1>3 DEF EntryBytes
  <2>2. [k \in Keys |-> EntryBytes(k)'] = [k \in Keys |-> EntryBytes(k)]
    BY <2>1
  <2>3. QED
    BY <1>2, <2>2 DEF ResidentBytesExact, CachedTotal, Total, IInv, Consistent
<1>6. LeaseServesRequest'
  BY <1>1, <1>3 DEF LeaseServesRequest, IInv, Consistent, TypeOK
<1>7. CallInProgress' /\ TypeOK'
  <2>1. UNCHANGED <<owner, poisoned, want, stamp, cached, lastTouch, residentBytes, clock,
                    hits, misses, evictions, older, wrapped, failed>>
    BY <1>1 DEF entries, counters, history
  <2>2. QED
    BY <1>1, <1>2, <2>1 DEF IInv, TypeOK, CallInProgress, Admissible
<1>8. QED
  BY <1>2, <1>4, <1>5, <1>6, <1>7 DEF IInv, Consistent

-----------------------------------------------------------------------------
(* The inductive invariant and the theorems. *)

LEMMA InitEstablishes == Init => IInv
<1> SUFFICES ASSUME Init PROVE IInv
  OBVIOUS
<1>1. TypeOK
  <2>1. 0 \in U64
    BY CountersHaveWidth DEF U64
  <2>2. /\ cached \in [Keys -> Allocs \cup {None}]
        /\ lastTouch \in [Keys -> U64]
        /\ heap \in [Allocs -> Specs \cup {None}]
        /\ lease \in [Threads -> Allocs \cup {None}]
        /\ asked \in [Threads -> Specs \cup {None}]
    BY <2>1 DEF Init
  <2>3. QED
    BY <2>1, <2>2 DEF Init, TypeOK
<1>2. [k \in Keys |-> EntryBytes(k)] = [k \in Keys |-> 0]
  BY DEF Init, EntryBytes
<1>3. CachedTotal = 0
  BY <1>2, TotalOfEmptyTable DEF CachedTotal
<1>4. QED
  BY <1>1, <1>3, NonZeroCapacity
     DEF Init, IInv, Consistent, CallInProgress, EntriesAreLive, CachedKeys,
         ResidentBytesExact, LeaseServesRequest

LEMMA StepPreserves == IInv /\ [Next]_vars => IInv'
<1> SUFFICES ASSUME IInv, [Next]_vars PROVE IInv'
  OBVIOUS
<1>1. ASSUME NEW t \in Threads, Call(t) PROVE IInv'
  <2>1. ASSUME NEW s \in Specs, AcquireHit(t, s) PROVE IInv'
    BY <2>1, HitPreserves
  <2>2. ASSUME NEW s \in Specs, AcquireMiss(t, s) PROVE IInv'
    BY <2>2, MissPreserves
  <2>3. CASE EvictOne(t)
    BY <2>3, EvictPreserves
  <2>4. CASE OpenReturns(t)
    <3>1. PICK a \in Allocs, returned \in Specs :
            /\ heap[a] \in {None, returned}
            /\ IF Honoured(returned, want) THEN Keep(t, a, returned) ELSE Reject
      BY <2>4 DEF OpenReturns
    <3>2. Fits(want) /\ Unlock /\ UNCHANGED <<poisoned, counters, wrapped>>
      BY <2>4 DEF OpenReturns
    <3>3. CASE returned = want
      BY <3>1, <3>2, <3>3, KeepPreserves DEF Honoured
    <3>4. CASE returned # want
      BY <3>1, <3>2, <3>4, RejectPreserves DEF Honoured, IInv, TypeOK
    <3>5. QED
      BY <3>3, <3>4
  <2>5. CASE OpenFails(t)
    BY <2>5, RejectPreserves DEF OpenFails, IInv, TypeOK
  <2>6. CASE OpenPanics(t)
    BY <2>6, RejectPreserves DEF OpenPanics
  <2>7. CASE DropLease(t)
    BY <2>7, DropPreserves
  <2>8. QED
    BY <1>1, <2>1, <2>2, <2>3, <2>4, <2>5, <2>6, <2>7 DEF Call
<1>2. ASSUME NEW k \in Keys, Invalidate(k) PROVE IInv'
  BY <1>2, InvalidatePreserves
<1>3. CASE Clear
  BY <1>3, ClearPreserves
<1>4. CASE UNCHANGED vars
  <2>1. UNCHANGED <<owner, poisoned, want, stamp, cached, lastTouch, residentBytes, clock,
                    hits, misses, evictions, heap, lease, asked, older, wrapped, failed>>
    BY <1>4 DEF vars, entries, counters, history
  <2>2. QED
    BY <2>1 DEF IInv, TypeOK, CallInProgress, Admissible, Consistent, EntriesAreLive, CachedKeys,
                ResidentBytesExact, CachedTotal, EntryBytes, LeaseServesRequest
<1>5. QED
  BY <1>1, <1>2, <1>3, <1>4 DEF Next

LEMMA Invariance == Spec => []IInv
BY InitEstablishes, StepPreserves, PTL DEF Spec

\* Every variable keeps its type, the clock and counters within u64.
THEOREM TypeCorrect == Spec => []TypeOK
<1>1. IInv => TypeOK
  BY DEF IInv
<1>2. QED
  BY <1>1, Invariance, PTL

\* acquire's, invalidate's and clear's updates of resident_bytes always add up to
\* the bytes of the cached allocations.
THEOREM AccountingIsExact == Spec => []ResidentBytesExact
<1>1. IInv => ResidentBytesExact
  BY DEF IInv, Consistent
<1>2. QED
  BY <1>1, Invariance, PTL

\* The bytes of the cached allocations stay within capacity_bytes.
THEOREM CapacityIsRespected == Spec => []CachedWithinCapacity
<1>1. IInv => CachedWithinCapacity
  BY DEF IInv, Consistent, ResidentBytesExact, CachedWithinCapacity
<1>2. QED
  BY <1>1, Invariance, PTL

\* acquire's eviction loop always finds a victim (its in-loop error is dead code).
THEOREM EvictionNeverStuck == Spec => []VictimAvailable
BY SomethingToEvict, Invariance, PTL

\* A held lease is live and is for the spec its caller asked for, across every
\* eviction, invalidation, replacement, failed open and panic.
THEOREM LeasesServeTheirRequest == Spec => []LeaseServesRequest
<1>1. IInv => LeaseServesRequest
  BY DEF IInv, Consistent
<1>2. QED
  BY <1>1, Invariance, PTL

-----------------------------------------------------------------------------
(* LRU order: the touch stamps agree with the real order of acquires. *)

\* Until the clock wraps, a later acquire has a later stamp, no stamp is ahead of
\* the clock, and the call in progress has the newest one.
StampsFollowOrder ==
  ~wrapped =>
    /\ \A j, k \in Keys : <<j, k>> \in older => cached[j] # None /\ lastTouch[j] < lastTouch[k]
    /\ \A k \in Keys : lastTouch[k] <= clock
    /\ owner # None => stamp = clock /\ \A k \in Keys : lastTouch[k] < stamp

LEMMA ClockTicks ==
  ASSUME TypeOK, ~(wrapped \/ clock = U64Max)
  PROVE  Tick = clock + 1 /\ clock \in Nat /\ ~wrapped
BY DEF Tick, TypeOK, U64

\* Removing an entry while the clock, the stamp and the owner stand keeps the order.
LEMMA RemovalKeepsOrder ==
  ASSUME TypeOK, StampsFollowOrder, NEW k \in Keys, RemoveEntry(k),
         UNCHANGED <<owner, stamp, clock, wrapped>>
  PROVE  StampsFollowOrder'
<1>1. /\ \A j \in Keys : cached'[j] = IF j = k THEN None ELSE cached[j]
      /\ \A j \in Keys : lastTouch'[j] = IF j = k THEN 0 ELSE lastTouch[j]
      /\ \A i, j \in Keys : <<i, j>> \in older' => <<i, j>> \in older /\ i # k /\ j # k
  BY DEF RemoveEntry, Slots, Forgotten, TypeOK
<1>2. clock \in Nat /\ \A j \in Keys : lastTouch[j] \in Nat
  BY DEF TypeOK, U64
<1>3. owner # None /\ ~wrapped => 0 < stamp \/ Keys = {}
  BY <1>2 DEF StampsFollowOrder
<1>4. QED
  BY <1>1, <1>2, <1>3 DEF StampsFollowOrder

LEMMA OrderStep == IInv /\ StampsFollowOrder /\ [Next]_vars => StampsFollowOrder'
<1> SUFFICES ASSUME IInv, StampsFollowOrder, [Next]_vars, ~wrapped'
             PROVE  StampsFollowOrder'
  BY DEF StampsFollowOrder
<1>0. TypeOK /\ \A k \in Keys : lastTouch[k] \in Nat
  BY DEF IInv, TypeOK, U64
<1>1. ASSUME NEW t \in Threads, NEW s \in Specs, AcquireHit(t, s) PROVE StampsFollowOrder'
  <2>1. clock' = clock + 1 /\ Tick = clock + 1 /\ clock \in Nat /\ ~wrapped
    BY <1>0, <1>1, ClockTicks DEF AcquireHit
  <2>2. s.key \in Keys /\ cached[s.key] # None /\ owner' = None /\ cached' = cached
    BY <1>1, SpecsAreRecords DEF AcquireHit, Matches, LockFree
  <2>3. \A k \in Keys : lastTouch'[k] = IF k = s.key THEN clock + 1 ELSE lastTouch[k]
    BY <1>0, <1>1, <2>1, <2>2 DEF AcquireHit, TypeOK
  <2>4. \A i, j \in Keys : <<i, j>> \in older' =>
          \/ <<i, j>> \in older /\ i # s.key /\ j # s.key
          \/ i # s.key /\ cached[i] # None /\ j = s.key
    BY <1>1 DEF AcquireHit, Newest, Forgotten, CachedKeys
  <2>5. QED
    BY <1>0, <2>1, <2>2, <2>3, <2>4 DEF StampsFollowOrder
<1>2. ASSUME NEW t \in Threads, NEW s \in Specs, AcquireMiss(t, s) PROVE StampsFollowOrder'
  <2>1. /\ clock' = clock + 1 /\ stamp' = clock + 1 /\ clock \in Nat /\ ~wrapped
        /\ RemoveEntry(s.key) /\ s.key \in Keys
    BY <1>0, <1>2, ClockTicks, SpecsAreRecords DEF AcquireMiss
  <2>2. /\ \A j \in Keys : cached'[j] = IF j = s.key THEN None ELSE cached[j]
        /\ \A j \in Keys : lastTouch'[j] = IF j = s.key THEN 0 ELSE lastTouch[j]
        /\ \A i, j \in Keys : <<i, j>> \in older' =>
             <<i, j>> \in older /\ i # s.key /\ j # s.key
    BY <1>0, <2>1 DEF RemoveEntry, Slots, Forgotten, TypeOK
  <2>3. QED
    BY <1>0, <2>1, <2>2 DEF StampsFollowOrder
<1>3. ASSUME NEW t \in Threads, EvictOne(t) PROVE StampsFollowOrder'
  BY <1>0, <1>3, RemovalKeepsOrder DEF EvictOne
<1>4. ASSUME NEW t \in Threads, NEW a \in Allocs, want \in Specs, owner = t, Keep(t, a, want),
             Unlock, UNCHANGED <<counters, wrapped>>
      PROVE  StampsFollowOrder'
  <2>1. /\ owner' = None /\ clock' = clock /\ clock \in Nat /\ ~wrapped /\ owner # None
        /\ want.key \in Keys
    BY <1>0, <1>4, SpecsAreRecords, NoneIsNoValue DEF Unlock, counters, TypeOK, U64
  <2>2. /\ \A j \in Keys : cached'[j] = IF j = want.key THEN a ELSE cached[j]
        /\ \A j \in Keys : lastTouch'[j] = IF j = want.key THEN stamp ELSE lastTouch[j]
    BY <1>0, <1>4, <2>1 DEF Keep, TypeOK
  <2>3. \A i, j \in Keys : <<i, j>> \in older' =>
          \/ <<i, j>> \in older /\ i # want.key /\ j # want.key
          \/ i # want.key /\ cached[i] # None /\ j = want.key
    BY <1>4 DEF Keep, Newest, Forgotten, CachedKeys
  <2>4. QED
    BY <1>0, <2>1, <2>2, <2>3 DEF StampsFollowOrder
<1>5. ASSUME Reject, Unlock, UNCHANGED <<counters, wrapped>> PROVE StampsFollowOrder'
  BY <1>5 DEF Reject, Unlock, entries, counters, StampsFollowOrder
<1>6. ASSUME NEW k \in Keys, Invalidate(k) PROVE StampsFollowOrder'
  BY <1>0, <1>6, RemovalKeepsOrder DEF Invalidate
<1>7. CASE Clear
  <2>1. clock' = clock /\ clock \in Nat /\ owner' = None /\ older' = {}
        /\ \A k \in Keys : lastTouch'[k] = 0
    BY <1>0, <1>7 DEF Clear, LockFree, TypeOK, U64
  <2>2. QED
    BY <2>1 DEF StampsFollowOrder
<1>8. ASSUME NEW t \in Threads, DropLease(t) PROVE StampsFollowOrder'
  BY <1>8 DEF DropLease, entries, counters, history, StampsFollowOrder
<1>9. CASE UNCHANGED vars
  BY <1>9 DEF vars, entries, counters, history, StampsFollowOrder
<1>10. ASSUME NEW t \in Threads, OpenReturns(t) PROVE StampsFollowOrder'
  <2>1. PICK a \in Allocs, returned \in Specs :
          IF Honoured(returned, want) THEN Keep(t, a, returned) ELSE Reject
    BY <1>10 DEF OpenReturns
  <2>2. owner = t /\ Unlock /\ UNCHANGED <<counters, wrapped>>
    BY <1>10 DEF OpenReturns
  <2>3. CASE returned = want
    BY <1>4, <2>1, <2>2, <2>3 DEF Honoured
  <2>4. CASE returned # want
    BY <1>5, <2>1, <2>2, <2>4 DEF Honoured
  <2>5. QED
    BY <2>3, <2>4
<1>11. ASSUME NEW t \in Threads, OpenFails(t) \/ OpenPanics(t) PROVE StampsFollowOrder'
  BY <1>5, <1>11 DEF OpenFails, OpenPanics
<1>12. QED
  BY <1>1, <1>2, <1>3, <1>6, <1>7, <1>8, <1>9, <1>10, <1>11 DEF Next, Call

\* A step that keeps the mutex and empties a slot is an eviction, of a key that is
\* the oldest of all cached keys.
LEMMA OnlyOldestLeaves ==
  ASSUME IInv, StampsFollowOrder, [Next]_vars, NEW k \in Keys,
         owner # None, owner' = owner, cached[k] # None, cached'[k] = None, ~wrapped
  PROVE  \A j \in Keys : <<j, k>> \notin older
<1>1. \E t \in Threads : EvictOne(t)
  <2>1. cached' # cached
    OBVIOUS
  <2>2. QED
    BY <2>1, NoneIsNoValue DEF Next, Call, vars, entries, AcquireHit, AcquireMiss, LockFree, OpenReturns,
       OpenFails, OpenPanics, Unlock, DropLease, Invalidate, Clear
<1>2. PICK victim \in Keys : IsVictim(victim) /\ RemoveEntry(victim)
  BY <1>1 DEF EvictOne
<1>3. victim = k
  BY <1>2 DEF RemoveEntry, Slots, IInv, TypeOK
<1>4. \A j \in Keys : lastTouch[j] \in Nat
  BY DEF IInv, TypeOK, U64
<1>5. QED
  BY <1>2, <1>3, <1>4 DEF IsVictim, CachedKeys, StampsFollowOrder

\* Making room takes the least recently acquired key first (V0.2's "LRU
\* eviction"), for as long as the 64-bit clock has not wrapped.
THEOREM EvictionIsLeastRecent == Spec => EvictsLeastRecent
<1>1. Init => StampsFollowOrder
  BY NoneIsNoValue DEF Init, StampsFollowOrder
<1>2. Spec => []StampsFollowOrder
  BY <1>1, OrderStep, Invariance, PTL DEF Spec
<1>3. IInv /\ StampsFollowOrder /\ [Next]_vars =>
        [\A k \in Keys :
           /\ owner # None /\ owner' = owner
           /\ cached[k] # None /\ cached'[k] = None
           /\ ~wrapped
           => \A j \in Keys : <<j, k>> \notin older]_vars
  BY OnlyOldestLeaves
<1>4. QED
  BY <1>2, <1>3, Invariance, PTL DEF Spec, EvictsLeastRecent

-----------------------------------------------------------------------------
(* The counters. *)

\* A saturating addition is exact as long as its result is below the limit, and never
\* goes down.
LEMMA SaturatingAdds ==
  ASSUME NEW i \in U64, NEW j \in Nat
  PROVE  /\ Saturating(i + j) \in U64
         /\ Saturating(i + j) # U64Max => Saturating(i + j) = i + j /\ i # U64Max
         /\ i + j <= U64Max => Saturating(i + j) = i + j
BY CountersHaveWidth DEF Saturating, U64

LEMMA CachedKeysAreFinite == IsFiniteSet(CachedKeys) /\ Cardinality(CachedKeys) \in Nat
BY FiniteKeys, FS_Subset, FS_CardinalityType DEF CachedKeys

\* Emptying a slot takes one key away, or none if it was empty.
LEMMA RemovalCounts ==
  ASSUME TypeOK, NEW k \in Keys, RemoveEntry(k)
  PROVE  /\ Cardinality(CachedKeys)' = Cardinality(CachedKeys) - Occupied(k)
         /\ Occupied(k) \in Nat
<1>1. CachedKeys' = CachedKeys \ {k}
  BY DEF CachedKeys, RemoveEntry, Slots, TypeOK
<1>2. k \in CachedKeys <=> cached[k] # None
  BY DEF CachedKeys
<1>3. Cardinality(CachedKeys \ {k}) =
        IF k \in CachedKeys THEN Cardinality(CachedKeys) - 1 ELSE Cardinality(CachedKeys)
  BY CachedKeysAreFinite, FS_RemoveElement
<1>4. QED
  BY <1>1, <1>2, <1>3, CachedKeysAreFinite DEF Occupied

\* Every tick is a hit or a miss.
TicksAreCalls == ~wrapped => clock = hits + misses

LEMMA TicksStep == TypeOK /\ TicksAreCalls /\ [Next]_vars => TicksAreCalls'
<1> SUFFICES ASSUME TypeOK, TicksAreCalls, [Next]_vars PROVE TicksAreCalls'
  OBVIOUS
<1>1. clock \in U64 /\ hits \in U64 /\ misses \in U64
  BY DEF TypeOK
<1>2. CASE \E t \in Threads, s \in Specs : AcquireHit(t, s)
  <2>1. clock' = Tick /\ wrapped' = (wrapped \/ clock = U64Max)
        /\ hits' = Saturating(hits + 1) /\ misses' = misses
    BY <1>2 DEF AcquireHit
  <2>2. ~wrapped' => ~wrapped /\ clock # U64Max
    BY <2>1
  <2>3. QED
    BY <1>1, <2>1, <2>2, CountersHaveWidth DEF TicksAreCalls, Saturating, Tick, U64
<1>3. CASE \E t \in Threads, s \in Specs : AcquireMiss(t, s)
  <2>1. clock' = Tick /\ wrapped' = (wrapped \/ clock = U64Max)
        /\ misses' = Saturating(misses + 1) /\ hits' = hits
    BY <1>3 DEF AcquireMiss
  <2>2. ~wrapped' => ~wrapped /\ clock # U64Max
    BY <2>1
  <2>3. QED
    BY <1>1, <2>1, <2>2, CountersHaveWidth DEF TicksAreCalls, Saturating, Tick, U64
<1>4. CASE UNCHANGED <<clock, hits, misses, wrapped>>
  BY <1>4 DEF TicksAreCalls
<1>5. (\E t \in Threads, s \in Specs : AcquireHit(t, s) \/ AcquireMiss(t, s))
      \/ UNCHANGED <<clock, hits, misses, wrapped>>
  BY DEF Next, Call, EvictOne, OpenReturns, OpenFails, OpenPanics, DropLease, Invalidate,
         Clear, vars, counters, history
<1>6. QED
  BY <1>2, <1>3, <1>4, <1>5

InProgress == IF owner = None THEN 0 ELSE 1

\* Every miss is an entry, an eviction, a failed open or the call in progress.
MissesAreAccounted ==
  misses # U64Max /\ evictions # U64Max /\ failed # U64Max =>
    misses = Cardinality(CachedKeys) + evictions + failed + InProgress

LEMMA MissesStep == IInv /\ MissesAreAccounted /\ [Next]_vars => MissesAreAccounted'
<1> SUFFICES ASSUME IInv, MissesAreAccounted, [Next]_vars,
                    misses' # U64Max, evictions' # U64Max, failed' # U64Max
             PROVE  misses' = Cardinality(CachedKeys)' + evictions' + failed' + InProgress'
  BY DEF MissesAreAccounted
<1>0. /\ TypeOK /\ misses \in U64 /\ evictions \in U64 /\ failed \in U64
      /\ misses \in Nat /\ evictions \in Nat /\ failed \in Nat
      /\ Cardinality(CachedKeys) \in Nat
  BY CachedKeysAreFinite DEF IInv, TypeOK, U64
<1>1. ASSUME NEW t \in Threads, NEW s \in Specs, AcquireHit(t, s)
      PROVE  misses' = Cardinality(CachedKeys)' + evictions' + failed' + InProgress'
  BY <1>1 DEF AcquireHit, CachedKeys, MissesAreAccounted, InProgress
<1>2. ASSUME NEW t \in Threads, NEW s \in Specs, AcquireMiss(t, s)
      PROVE  misses' = Cardinality(CachedKeys)' + evictions' + failed' + InProgress'
  <2>1. s.key \in Keys /\ RemoveEntry(s.key) /\ InProgress = 0 /\ InProgress' = 1
    BY <1>2, SpecsAreRecords, NoneIsNoValue DEF AcquireMiss, LockFree, InProgress
  <2>2. /\ Cardinality(CachedKeys)' = Cardinality(CachedKeys) - Occupied(s.key)
        /\ Occupied(s.key) \in Nat
    BY <1>0, <2>1, RemovalCounts
  <2>3. /\ misses' = misses + 1 /\ misses # U64Max
        /\ evictions' = evictions + Occupied(s.key) /\ evictions # U64Max
        /\ failed' = failed
    <3>1. /\ misses' = Saturating(misses + 1)
          /\ evictions' = Saturating(evictions + Occupied(s.key)) /\ failed' = failed
      BY <1>2 DEF AcquireMiss
    <3>2. QED
      BY <1>0, <2>2, <3>1, SaturatingAdds
  <2>4. QED
    BY <1>0, <2>1, <2>2, <2>3 DEF MissesAreAccounted
<1>3. ASSUME NEW k \in Keys, RemoveEntry(k), cached[k] # None,
             evictions' = Saturating(evictions + 1), UNCHANGED <<misses, failed, owner>>
      PROVE  misses' = Cardinality(CachedKeys)' + evictions' + failed' + InProgress'
  <2>1. Cardinality(CachedKeys)' = Cardinality(CachedKeys) - 1
    BY <1>0, <1>3, RemovalCounts DEF Occupied
  <2>2. evictions' = evictions + 1 /\ evictions # U64Max
    BY <1>0, <1>3, SaturatingAdds
  <2>3. QED
    BY <1>0, <1>3, <2>1, <2>2 DEF MissesAreAccounted, InProgress
<1>4. ASSUME NEW t \in Threads, EvictOne(t)
      PROVE  misses' = Cardinality(CachedKeys)' + evictions' + failed' + InProgress'
  BY <1>3, <1>4 DEF EvictOne, IsVictim, CachedKeys
<1>5. ASSUME NEW k \in Keys, Invalidate(k)
      PROVE  misses' = Cardinality(CachedKeys)' + evictions' + failed' + InProgress'
  BY <1>3, <1>5 DEF Invalidate
<1>6. ASSUME NEW t \in Threads, NEW a \in Allocs, owner = t, want \in Specs,
             Keep(t, a, want), Unlock, UNCHANGED counters
      PROVE  misses' = Cardinality(CachedKeys)' + evictions' + failed' + InProgress'
  <2>1. /\ want.key \in Keys /\ cached[want.key] = None /\ a # None
        /\ InProgress = 1 /\ InProgress' = 0
    BY <1>6, SpecsAreRecords, NoneIsNoValue DEF IInv, CallInProgress, Unlock, InProgress
  <2>2. CachedKeys' = CachedKeys \cup {want.key} /\ want.key \notin CachedKeys
    BY <1>0, <1>6, <2>1 DEF Keep, CachedKeys, TypeOK
  <2>3. Cardinality(CachedKeys)' = Cardinality(CachedKeys) + 1
    BY <2>2, CachedKeysAreFinite, FS_AddElement
  <2>4. UNCHANGED <<misses, evictions, failed>>
    BY <1>6 DEF Keep, counters
  <2>5. QED
    BY <1>0, <2>1, <2>3, <2>4 DEF MissesAreAccounted
<1>7. ASSUME NEW t \in Threads, owner = t, Reject, Unlock, UNCHANGED counters
      PROVE  misses' = Cardinality(CachedKeys)' + evictions' + failed' + InProgress'
  <2>1. InProgress = 1 /\ InProgress' = 0
    BY <1>7, NoneIsNoValue DEF Unlock, InProgress
  <2>2. failed' = failed + 1 /\ failed # U64Max
    BY <1>0, <1>7, SaturatingAdds DEF Reject
  <2>3. UNCHANGED <<misses, evictions, cached>>
    BY <1>7 DEF Reject, entries, counters
  <2>4. QED
    BY <1>0, <2>1, <2>2, <2>3 DEF MissesAreAccounted, CachedKeys
<1>8. ASSUME NEW t \in Threads, OpenReturns(t) \/ OpenFails(t) \/ OpenPanics(t)
      PROVE  misses' = Cardinality(CachedKeys)' + evictions' + failed' + InProgress'
  <2>1. owner = t /\ Unlock /\ UNCHANGED counters
    BY <1>8 DEF OpenReturns, OpenFails, OpenPanics
  <2>2. Reject \/ \E a \in Allocs : want \in Specs /\ Keep(t, a, want)
    BY <1>8 DEF OpenReturns, OpenFails, OpenPanics, Honoured
  <2>3. QED
    BY <1>6, <1>7, <2>1, <2>2
<1>9. ASSUME Clear
      PROVE  misses' = Cardinality(CachedKeys)' + evictions' + failed' + InProgress'
  <2>1. CachedKeys' = {}
    BY <1>9 DEF Clear, CachedKeys
  <2>2. Cardinality(CachedKeys)' = 0
    BY <2>1, FS_EmptySet
  <2>3. evictions' = evictions + Cardinality(CachedKeys) /\ evictions # U64Max
    BY <1>0, <1>9, SaturatingAdds DEF Clear
  <2>4. UNCHANGED <<misses, failed, owner>>
    BY <1>9 DEF Clear
  <2>5. QED
    BY <1>0, <2>2, <2>3, <2>4 DEF MissesAreAccounted, InProgress
<1>10. ASSUME UNCHANGED <<cached, misses, evictions, failed, owner>>
       PROVE  misses' = Cardinality(CachedKeys)' + evictions' + failed' + InProgress'
  BY <1>10 DEF MissesAreAccounted, CachedKeys, InProgress
<1>11. ASSUME NEW t \in Threads, DropLease(t)
       PROVE  misses' = Cardinality(CachedKeys)' + evictions' + failed' + InProgress'
  BY <1>10, <1>11 DEF DropLease, entries, counters, history
<1>12. CASE UNCHANGED vars
  BY <1>10, <1>12 DEF vars, entries, counters, history
<1>13. QED
  BY <1>1, <1>2, <1>4, <1>5, <1>8, <1>9, <1>11, <1>12 DEF Next, Call

\* ResidencyStats adds up, until a counter saturates: hits and misses are the acquires
\* that got past the checks, and every miss is accounted for.
THEOREM StatisticsAddUp == Spec => []CountersBalance
<1>1. Init => TicksAreCalls /\ MissesAreAccounted
  <2> SUFFICES ASSUME Init PROVE TicksAreCalls /\ MissesAreAccounted
    OBVIOUS
  <2>1. CachedKeys = {}
    BY DEF Init, CachedKeys
  <2>2. Cardinality(CachedKeys) = 0
    BY <2>1, FS_EmptySet
  <2>3. QED
    BY <2>2 DEF Init, TicksAreCalls, MissesAreAccounted, InProgress
<1>2. IInv => TypeOK
  BY DEF IInv
<1>3. Spec => [](TicksAreCalls /\ MissesAreAccounted)
  BY <1>1, <1>2, TicksStep, MissesStep, Invariance, PTL DEF Spec
<1>4. TicksAreCalls /\ MissesAreAccounted => CountersBalance
  BY DEF TicksAreCalls, MissesAreAccounted, CountersBalance, InProgress
<1>5. QED
  BY <1>3, <1>4, PTL

=============================================================================
