------------------------------ MODULE KvCache ------------------------------
(***************************************************************************)
(* The KV-cache metadata service of crates/vrb-kv-cache/src/lib.rs.  It is *)
(* single threaded (&mut self).  An append is one call, modelled as the    *)
(* checks that accept it, one step per evicted entry and the push, so that *)
(* what the checks established is seen to hold until the push uses it.     *)
(***************************************************************************)
EXTENDS Integers, FiniteSets, Sequences, Functions

CONSTANTS
  Keys,       \* KvCacheKey values: records of a sequence_id and a layer
  Blocks,     \* the KvBlock values callers append, valid or not
  Capacity,   \* capacity_bytes
  U64Max,     \* the largest u64: tokens overflow, the clock wraps here
  None

ASSUME KeysAreRecords == Keys \subseteq [sequence_id : Nat, layer : Nat]
ASSUME FiniteKeys == IsFiniteSet(Keys)
ASSUME BlocksAreRecords ==
  \A b \in Blocks : b.token_start \in Nat /\ b.token_count \in Nat /\ b.bytes \in Nat
ASSUME NoneIsNoValue == None \notin Keys /\ None \notin Blocks
ASSUME CapacityHasWidth == Capacity \in 1 .. U64Max /\ U64Max \in Nat

\* The total of a per-key byte table.
Total(table) == SumFunction(table)

VARIABLES
  blocks,       \* entries: key -> blocks (empty: no entry)
  entryBytes,   \* entries: key -> bytes
  lastTouch,    \* entries: key -> last_touch
  bytes, clock, evictions,
  target,       \* the key of the accepted append in progress, or None
  incoming,     \* its block
  \* History
  older,        \* <<j, k>>: both have entries, and j was used before k
  wrapped       \* the clock has wrapped

entries == <<blocks, entryBytes, lastTouch>>
vars == <<entries, bytes, clock, evictions, target, incoming, older, wrapped>>

-----------------------------------------------------------------------------
(* Helpers *)

PresentKeys == {k \in Keys : blocks[k] # << >>}

EndOf(b) == b.token_start + b.token_count

\* KvBlock::validate, with the checked_add of token_end
ValidBlock(b) ==
  /\ b.token_count # 0 /\ b.bytes # 0
  /\ EndOf(b) <= U64Max

ExpectedStart(k) == IF k \in PresentKeys THEN EndOf(blocks[k][Len(blocks[k])]) ELSE 0

\* Mutant: the size check looks at the block alone.
BlockFits(k, b) == b.bytes <= Capacity

\* block.bytes and new_entry_bytes within the capacity
EntryFits(k, b) == entryBytes[k] + b.bytes <= Capacity

\* Mutant: the loop ends once the old blocks alone are within the capacity.
FitsAlready(b) == bytes <= Capacity

Fits(b) == bytes + b.bytes <= Capacity

\* Mutant: the key being appended to is not protected.
AnyKey == PresentKeys

\* evict_for's filter: every entry but the protected one
Evictable == PresentKeys \ {target}

\* Mutant: max_by_key.
IsNewest(k) == k \in Evictable /\ \A j \in Evictable : lastTouch[j] <= lastTouch[k]

\* min_by_key over last_touch; distinct until the clock wraps
IsVictim(k) == k \in Evictable /\ \A j \in Evictable : lastTouch[k] <= lastTouch[j]

Tick == IF clock = U64Max THEN 1 ELSE clock + 1

\* Mutant: only the last block's bytes are given back.
LastBlockBytes(k) == blocks[k][Len(blocks[k])].bytes

\* The bytes given back with an entry.
RefundOf(k) == entryBytes[k]

Forgotten(k) == {pair \in older : k \notin {pair[1], pair[2]}}
Newest(k, present) == Forgotten(k) \cup ((present \ {k}) \X {k})

RemoveEntry(k) ==
  /\ blocks' = [blocks EXCEPT ![k] = << >>]
  /\ entryBytes' = [entryBytes EXCEPT ![k] = 0]
  /\ lastTouch' = [lastTouch EXCEPT ![k] = 0]
  /\ bytes' = IF RefundOf(k) >= bytes THEN 0 ELSE bytes - RefundOf(k)
  /\ older' = Forgotten(k)

-----------------------------------------------------------------------------
(* Operations *)

Init ==
  /\ blocks = [k \in Keys |-> << >>]
  /\ entryBytes = [k \in Keys |-> 0]
  /\ lastTouch = [k \in Keys |-> 0]
  /\ bytes = 0 /\ clock = 0 /\ evictions = 0
  /\ target = None /\ incoming = None
  /\ older = {} /\ wrapped = FALSE

Idle == target = None

\* The checks of append, in one step: a refused block changes nothing.
AcceptAppend(k, b) ==
  /\ Idle
  /\ ValidBlock(b)
  /\ b.token_start = ExpectedStart(k)
  /\ EntryFits(k, b)
  /\ target' = k /\ incoming' = b
  /\ UNCHANGED <<entries, bytes, clock, evictions, older, wrapped>>

\* One turn of evict_for's loop.
EvictOne ==
  /\ ~Idle /\ ~Fits(incoming)
  /\ \E victim \in Keys : IsVictim(victim) /\ RemoveEntry(victim)
  /\ evictions' = IF evictions = U64Max THEN U64Max ELSE evictions + 1
  /\ UNCHANGED <<clock, target, incoming, wrapped>>

Push ==
  /\ ~Idle /\ Fits(incoming)
  /\ clock' = Tick
  /\ wrapped' = (wrapped \/ clock = U64Max)
  /\ blocks' = [blocks EXCEPT ![target] = Append(@, incoming)]
  /\ entryBytes' = [entryBytes EXCEPT ![target] = @ + incoming.bytes]
  /\ lastTouch' = [lastTouch EXCEPT ![target] = Tick]
  /\ bytes' = bytes + incoming.bytes
  /\ older' = Newest(target, PresentKeys)
  /\ target' = None /\ incoming' = None
  /\ UNCHANGED evictions

\* view ticks the clock whether or not the key has an entry.
View(k) ==
  /\ Idle
  /\ clock' = Tick
  /\ wrapped' = (wrapped \/ clock = U64Max)
  /\ IF k \in PresentKeys
     THEN /\ lastTouch' = [lastTouch EXCEPT ![k] = Tick]
          /\ older' = Newest(k, PresentKeys)
     ELSE UNCHANGED <<lastTouch, older>>
  /\ UNCHANGED <<blocks, entryBytes, bytes, evictions, target, incoming>>

Remove(k) ==
  /\ Idle /\ k \in PresentKeys
  /\ RemoveEntry(k)
  /\ UNCHANGED <<clock, evictions, target, incoming, wrapped>>

Clear ==
  /\ Idle
  /\ blocks' = [k \in Keys |-> << >>]
  /\ entryBytes' = [k \in Keys |-> 0]
  /\ lastTouch' = [k \in Keys |-> 0]
  /\ bytes' = 0
  /\ older' = {}
  /\ UNCHANGED <<clock, evictions, target, incoming, wrapped>>

Next ==
  \/ \E k \in Keys :
       \/ \E b \in Blocks : AcceptAppend(k, b)
       \/ View(k)
       \/ Remove(k)
  \/ EvictOne
  \/ Push
  \/ Clear

Spec == Init /\ [][Next]_vars

-----------------------------------------------------------------------------
(* Properties *)

\* The type of every field of KvCache.
TypeOK ==
  /\ blocks \in [Keys -> Seq(Blocks)]
  /\ entryBytes \in [Keys -> 0 .. Capacity]
  /\ lastTouch \in [Keys -> 0 .. U64Max]
  /\ bytes \in Nat
  /\ clock \in 0 .. U64Max /\ evictions \in 0 .. U64Max
  /\ target \in Keys \cup {None} /\ incoming \in Blocks \cup {None}
  /\ older \subseteq Keys \X Keys /\ wrapped \in BOOLEAN

\* The cache is a store of contiguous runs lost only as a whole: what append's
\* check found is still true of the entry when the push, after any number of
\* evictions, extends it.
Store == INSTANCE SequenceStore WITH held <- blocks
ImplementsStore == Store!Spec

\* V0.2.md:29, "Appends are token-contiguous": every entry covers tokens 0 .. n
\* without a gap, whatever was refused, evicted, removed and rebuilt before.
RunsAreContiguous == Store!ContiguousFromZero

\* The three byte counts agree: `bytes` is the sum over the entries, and each
\* entry's bytes the sum over its blocks, which is within the capacity.
BytesAreTotal == bytes = Total(entryBytes)
BytesOf(run) == SumFunction([i \in DOMAIN run |-> run[i].bytes])
BytesExact ==
  /\ BytesAreTotal
  /\ \A k \in Keys : entryBytes[k] = BytesOf(blocks[k])

\* What the cache holds is within capacity_bytes after every call and between
\* the evictions of one.
WithinCapacity == Total(entryBytes) <= Capacity

\* An accepted append cannot fail halfway: whenever it has to evict there is an
\* entry other than its own to evict, so evict_for's error (lib.rs:207-210) and
\* an append that evicted but stored nothing are unreachable.
AcceptedAppendFits == target # None /\ ~Fits(incoming) => Evictable # {}

\* Eviction takes the least recently appended to or viewed of the other entries,
\* until the 64-bit clock wraps.
EvictsLeastRecent ==
  [][\A k \in Keys :
       /\ target # None /\ ~wrapped
       /\ k \in PresentKeys /\ blocks'[k] = << >>
       => \A j \in Keys \ {target} : <<j, k>> \notin older]_vars

\* V0.2.md:29 says that eviction does not partially corrupt an active sequence.
\* Entries are per layer: an append to one layer may evict another layer of the
\* sequence that is being appended to.
ActiveSequenceIsSpared ==
  [][\A k \in Keys :
       target # None /\ k.sequence_id = target.sequence_id /\ k \in PresentKeys
       => blocks'[k] # << >>]_vars

=============================================================================
