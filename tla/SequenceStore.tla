--------------------------- MODULE SequenceStore ---------------------------
(***************************************************************************)
(* What crates/vrb-kv-cache promises its callers (V0.2.md, vrb-kv-cache):  *)
(* per (sequence, layer) key, a run of blocks that starts at token 0, has  *)
(* no gap or overlap, grows only at its end, and is lost only as a whole.  *)
(***************************************************************************)
EXTENDS Integers, Sequences

CONSTANTS
  Keys,    \* (sequence_id, layer) pairs
  Blocks   \* KvBlock values

VARIABLE held   \* key -> the blocks of its entry; empty when there is no entry

EndOf(b) == b.token_start + b.token_count

\* The token the next block must start at.
NextToken(run) == IF run = << >> THEN 0 ELSE EndOf(run[Len(run)])

Init == held = [k \in Keys |-> << >>]

Extend(k, b) ==
  /\ b.token_start = NextToken(held[k])
  /\ held' = [held EXCEPT ![k] = Append(@, b)]

Lose(k) == held' = [held EXCEPT ![k] = << >>]

LoseAll == held' = [k \in Keys |-> << >>]

Next ==
  \/ \E k \in Keys : Lose(k) \/ \E b \in Blocks : Extend(k, b)
  \/ LoseAll

Spec == Init /\ [][Next]_held

\* Every entry covers tokens 0 .. n without a gap.
ContiguousFromZero ==
  \A k \in Keys : \A i \in 1 .. Len(held[k]) :
    held[k][i].token_start = IF i = 1 THEN 0 ELSE EndOf(held[k][i - 1])

TypeOK == held \in [Keys -> Seq(Blocks)]

=============================================================================
