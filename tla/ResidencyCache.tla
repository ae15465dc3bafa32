--------------------------- MODULE ResidencyCache ---------------------------
(***************************************************************************)
(* The residency cache of crates/vrb-residency/src/lib.rs.  Worker threads *)
(* acquire leases (Arc clones) on durable GPU allocations; the cache keeps *)
(* at most Capacity bytes of them, keyed and generation-checked, under one *)
(* std::sync::Mutex that is held across the provider's `open`.             *)
(*                                                                         *)
(* One acquire is several steps: the locked lookup, one step per evicted   *)
(* victim, and the provider's answer.  No other call sees the steps in     *)
(* between, but leases are dropped, and allocations die, while they run.   *)
(***************************************************************************)
EXTENDS Integers, FiniteSets, Functions

CONSTANTS
  Threads,   \* callers of the cache
  Keys,      \* ResidencyKey values
  Specs,     \* ResidencySpec values callers ask for, valid or not
  Allocs,    \* addresses of ResidentAllocation objects
  Capacity,  \* capacity_bytes
  U64Max,    \* the largest u64: the clock wraps and the counters saturate here
  None       \* Option::None

ASSUME SpecsAreRecords ==
  Specs \subseteq [key : Keys, generation : Nat, device_index : Int, bytes : Nat]
ASSUME FiniteKeys == IsFiniteSet(Keys)
ASSUME NoneIsNoValue ==
  None \notin Threads /\ None \notin Keys /\ None \notin Specs /\ None \notin Allocs
ASSUME NonZeroCapacity == Capacity \in Nat \ {0}
ASSUME CountersHaveWidth == U64Max \in Nat \ {0}

\* The total of a per-key byte table.
Total(table) == SumFunction(table)

VARIABLES
  owner,          \* the thread inside the mutex, or None
  poisoned,       \* the mutex is poisoned
  want,           \* the spec the owner asked for
  stamp,          \* the owner's `touch`
  cached,         \* entries: key -> allocation, or None
  lastTouch,      \* entries: key -> last_touch (0 when absent)
  residentBytes, clock, hits, misses, evictions,
  heap,           \* address -> spec of the allocation living there, or None
  lease,          \* thread -> the allocation its Arc keeps alive, or None
  \* History: what the properties compare the code's bookkeeping with.
  asked,          \* thread -> the spec its lease was acquired for
  older,          \* <<j, k>>: both are cached, and j was last acquired before k
  wrapped,        \* the clock has wrapped
  failed          \* provider calls that yielded no entry (saturating)

entries  == <<cached, lastTouch, residentBytes>>
counters == <<clock, hits, misses, evictions>>
history  == <<older, wrapped, failed>>
vars == <<owner, poisoned, want, stamp, entries, counters, heap, lease, asked,
          history>>

-----------------------------------------------------------------------------
(* Helpers *)

CachedKeys == {k \in Keys : cached[k] # None}

\* bytes that entry k contributes
EntryBytes(k) == IF cached[k] = None THEN 0 ELSE heap[cached[k]].bytes

CachedTotal == Total([k \in Keys |-> EntryBytes(k)])

\* Mutant: the request is not compared with the capacity before the lock.
AdmissibleAnySize(s) == s.device_index >= 0 /\ s.bytes # 0

\* ResidencySpec::validate and the capacity check made before the lock
Admissible(s) ==
  /\ s.device_index >= 0
  /\ s.bytes # 0
  /\ s.bytes <= Capacity

LockFree == owner = None /\ ~poisoned

Tick == IF clock = U64Max THEN 1 ELSE clock + 1

Saturating(n) == IF n >= U64Max THEN U64Max ELSE n

\* Mutant: the removed entry's bytes are not given back.
NoRefund(total, bytes) == total

\* saturating_sub: byte counts never go below zero
MinusBytes(total, bytes) == IF bytes >= total THEN 0 ELSE total - bytes

\* Mutant: a hit is decided by the key alone.
MatchesKeyOnly(s) == cached[s.key] # None

\* entry.allocation.spec() == spec
Matches(s) == cached[s.key] # None /\ heap[cached[s.key]] = s

\* Mutant: the bound is tested without the new bytes.
FitsAlready(s) == residentBytes <= Capacity

Fits(s) == residentBytes + s.bytes <= Capacity

\* Mutant: max_by_key.
IsNewest(k) ==
  /\ k \in CachedKeys
  /\ \A other \in CachedKeys : lastTouch[other] <= lastTouch[k]

\* min_by_key over last_touch; distinct until the clock wraps
IsVictim(k) ==
  /\ k \in CachedKeys
  /\ \A other \in CachedKeys : lastTouch[k] <= lastTouch[other]

\* What is left of `live` when the Arcs in `held` are the only ones: an
\* allocation is destroyed when its last Arc is dropped.
Surviving(live, held) == [a \in Allocs |-> IF a \in held THEN live[a] ELSE None]

ArcsOf(slots, leases) == (Range(slots) \cup Range(leases)) \ {None}

\* A lookup that misses removes whatever the key maps to.
Slots(k) == [cached EXCEPT ![k] = None]

\* The acquisition order once key k has left it, and once k is its newest member.
Forgotten(k) == {pair \in older : k \notin {pair[1], pair[2]}}
Newest(k) == Forgotten(k) \cup ((CachedKeys \ {k}) \X {k})

\* Removing the entry of key k: its bytes, its Arc and its place are given up.
RemoveEntry(k) ==
  /\ cached' = Slots(k)
  /\ lastTouch' = [lastTouch EXCEPT ![k] = 0]
  /\ residentBytes' = MinusBytes(residentBytes, EntryBytes(k))
  /\ heap' = Surviving(heap, ArcsOf(Slots(k), lease))
  /\ older' = Forgotten(k)

\* Mutant: replacing a stale generation is not counted as an eviction.
NeverOccupied(k) == 0

\* The number of entries an operation that empties key k's slot evicts.
Occupied(k) == IF cached[k] = None THEN 0 ELSE 1

-----------------------------------------------------------------------------
(* Operations *)

Init ==
  /\ owner = None /\ poisoned = FALSE /\ want = None /\ stamp = 0
  /\ cached = [k \in Keys |-> None]
  /\ lastTouch = [k \in Keys |-> 0]
  /\ residentBytes = 0
  /\ clock = 0 /\ hits = 0 /\ misses = 0 /\ evictions = 0
  /\ heap = [a \in Allocs |-> None]
  /\ lease = [t \in Threads |-> None]
  /\ asked = [t \in Threads |-> None]
  /\ older = {}
  /\ wrapped = FALSE /\ failed = 0

\* The caller binds the returned Arc in place of the one it held.
Hand(t, a, s, live, slots) ==
  /\ lease' = [lease EXCEPT ![t] = a]
  /\ asked' = [asked EXCEPT ![t] = s]
  /\ heap' = Surviving(live, ArcsOf(slots, [lease EXCEPT ![t] = a]))

AcquireHit(t, s) ==
  /\ Admissible(s) /\ LockFree
  /\ Matches(s)
  /\ clock' = Tick
  /\ wrapped' = (wrapped \/ clock = U64Max)
  /\ lastTouch' = [lastTouch EXCEPT ![s.key] = Tick]
  /\ hits' = Saturating(hits + 1)
  /\ older' = Newest(s.key)
  /\ Hand(t, cached[s.key], s, heap, cached)
  /\ UNCHANGED <<owner, poisoned, want, stamp, cached, residentBytes, misses,
                 evictions, failed>>

AcquireMiss(t, s) ==
  /\ Admissible(s) /\ LockFree
  /\ ~Matches(s)
  /\ owner' = t /\ want' = s /\ stamp' = Tick
  /\ clock' = Tick
  /\ wrapped' = (wrapped \/ clock = U64Max)
  /\ RemoveEntry(s.key)
  /\ evictions' = Saturating(evictions + Occupied(s.key))
  /\ misses' = Saturating(misses + 1)
  /\ UNCHANGED <<poisoned, hits, lease, asked, failed>>

EvictOne(t) ==
  /\ owner = t /\ ~Fits(want)
  /\ \E victim \in Keys : IsVictim(victim) /\ RemoveEntry(victim)
  /\ evictions' = Saturating(evictions + 1)
  /\ UNCHANGED <<owner, poisoned, want, stamp, clock, hits, misses, lease, asked,
                 wrapped, failed>>

Unlock == owner' = None /\ want' = None /\ stamp' = 0

\* A provider answer that is kept: the new entry and the caller's Arc.
Keep(t, a, s) ==
  LET slots == [cached EXCEPT ![s.key] = a] IN
  /\ cached' = slots
  /\ lastTouch' = [lastTouch EXCEPT ![s.key] = stamp]
  /\ residentBytes' = residentBytes + s.bytes
  /\ older' = Newest(s.key)
  /\ Hand(t, a, s, [heap EXCEPT ![a] = s], slots)
  /\ failed' = failed

\* A provider answer whose spec is not the requested one: dropped.
Reject ==
  /\ failed' = Saturating(failed + 1)
  /\ UNCHANGED <<entries, heap, lease, asked, older>>

Honoured(returned, s) == returned = s

\* provider.open returns an allocation: a new one, or one that somebody still
\* holds and that has the spec it reports.
OpenReturns(t) ==
  /\ owner = t /\ Fits(want)
  /\ \E a \in Allocs, returned \in Specs :
       /\ heap[a] \in {None, returned}
       /\ IF Honoured(returned, want) THEN Keep(t, a, returned) ELSE Reject
  /\ Unlock
  /\ UNCHANGED <<poisoned, counters, wrapped>>

OpenFails(t) ==
  /\ owner = t /\ Fits(want)
  /\ Reject /\ Unlock
  /\ UNCHANGED <<poisoned, counters, wrapped>>

\* A panic inside provider.open unwinds through the guard.
OpenPanics(t) ==
  /\ owner = t /\ Fits(want)
  /\ poisoned' = TRUE
  /\ Reject /\ Unlock
  /\ UNCHANGED <<counters, wrapped>>

Invalidate(k) ==
  /\ LockFree /\ cached[k] # None
  /\ RemoveEntry(k)
  /\ evictions' = Saturating(evictions + 1)
  /\ UNCHANGED <<owner, poisoned, want, stamp, clock, hits, misses, lease, asked,
                 wrapped, failed>>

Clear ==
  /\ LockFree
  /\ cached' = [k \in Keys |-> None]
  /\ lastTouch' = [k \in Keys |-> 0]
  /\ residentBytes' = 0
  /\ evictions' = Saturating(evictions + Cardinality(CachedKeys))
  /\ heap' = Surviving(heap, ArcsOf(cached', lease))
  /\ older' = {}
  /\ UNCHANGED <<owner, poisoned, want, stamp, clock, hits, misses, lease, asked,
                 wrapped, failed>>

\* A caller drops its Arc; no lock is involved.
DropLease(t) ==
  /\ lease[t] # None
  /\ lease' = [lease EXCEPT ![t] = None]
  /\ asked' = [asked EXCEPT ![t] = None]
  /\ heap' = Surviving(heap, ArcsOf(cached, lease'))
  /\ UNCHANGED <<owner, poisoned, want, stamp, entries, counters, history>>

Call(t) ==
  \/ \E s \in Specs : AcquireHit(t, s) \/ AcquireMiss(t, s)
  \/ EvictOne(t)
  \/ OpenReturns(t) \/ OpenFails(t) \/ OpenPanics(t)
  \/ DropLease(t)

Next ==
  \/ \E t \in Threads : Call(t)
  \/ \E k \in Keys : Invalidate(k)
  \/ Clear

Spec == Init /\ [][Next]_vars

-----------------------------------------------------------------------------
(* Properties *)

U64 == 0 .. U64Max

\* The type of every variable of CacheState and of the callers.
TypeOK ==
  /\ owner \in Threads \cup {None}
  /\ poisoned \in BOOLEAN /\ wrapped \in BOOLEAN
  /\ want \in Specs \cup {None}
  /\ cached \in [Keys -> Allocs \cup {None}]
  /\ lastTouch \in [Keys -> U64]
  /\ residentBytes \in Nat
  /\ {clock, hits, misses, evictions, stamp, failed} \subseteq U64
  /\ heap \in [Allocs -> Specs \cup {None}]
  /\ lease \in [Threads -> Allocs \cup {None}]
  /\ asked \in [Threads -> Specs \cup {None}]
  /\ older \subseteq Keys \X Keys

\* Every entry points at a live allocation of its own key, opened for a request
\* that passed validation.
EntriesAreLive ==
  \A k \in CachedKeys :
    /\ heap[cached[k]] # None
    /\ heap[cached[k]].key = k
    /\ Admissible(heap[cached[k]])

\* resident_bytes is the sum of the bytes of the cached allocations: what acquire,
\* eviction, stale removal, invalidate and clear add and subtract agrees.
ResidentBytesExact == residentBytes = CachedTotal

\* The allocations the cache itself keeps alive never exceed capacity_bytes,
\* whatever the order of evictions, failed opens and replacements.
CachedWithinCapacity == CachedTotal <= Capacity

\* The eviction loop never runs out of victims: acquire's in-loop
\* CapacityExceeded (lib.rs:169-172) is unreachable once the request itself fits.
VictimAvailable == owner # None /\ ~Fits(want) => CachedKeys # {}

\* A lease is for exactly the spec its caller asked for (key, generation, device
\* and size) and stays alive while it is held: eviction, invalidation, clearing,
\* a newer generation or a provider that breaks its contract never changes it.
LeaseServesRequest ==
  \A t \in Threads : lease[t] # None => heap[lease[t]] # None /\ heap[lease[t]] = asked[t]

\* Every clock tick was a hit or a miss, and every miss is accounted for as an
\* entry still cached, an eviction, a failed open or the call in progress.  Holds
\* until a counter saturates.
CountersBalance ==
  /\ ~wrapped => clock = hits + misses
  /\ U64Max \notin {misses, evictions, failed} =>
       misses = Cardinality(CachedKeys) + evictions + failed
                + (IF owner = None THEN 0 ELSE 1)

\* Evicting to make room takes the key whose last acquire is the oldest of all
\* cached keys, as long as the 64-bit clock has not wrapped.
EvictsLeastRecent ==
  [][\A k \in Keys :
       /\ owner # None /\ owner' = owner
       /\ cached[k] # None /\ cached'[k] = None
       /\ ~wrapped
       => \A j \in Keys : <<j, k>> \notin older]_vars

=============================================================================
