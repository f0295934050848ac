----------------------------- MODULE ChunkTable -----------------------------
(***************************************************************************)
(* What the vector store promises its callers: one table that holds, for   *)
(* each (page_slug, chunk_idx), at most one chunk, named here by its       *)
(* checksum.  Each of the three writing calls of VecStore takes effect in  *)
(* one step.  The module has no notion of rowids, of three tables or of    *)
(* other processes: module VecStore has, and is shown to implement this.   *)
(*                                                                         *)
(* The operators on tables are also what module Indexer writes through.    *)
(***************************************************************************)
CONSTANTS Slugs,   \* page slugs
          Idxs,    \* chunk indexes
          Sums     \* chunk checksums, one per chunk text

Entries == [slug : Slugs, idx : Idxs, sum : Sums]

\* The chunks of a table that a call about page s and indexes ix touches.
At(t, s, ix) == {e \in t : e.slug = s /\ e.idx \in ix}

\* Not the code: an upsert that does not delete the old row.
PutInKeepsOld(t, s, i, c) == t \cup {[slug |-> s, idx |-> i, sum |-> c]}

\* upsert: the chunk of text c replaces whatever (s, i) held.
PutIn(t, s, i, c) ==
  (t \ At(t, s, {i})) \cup {[slug |-> s, idx |-> i, sum |-> c]}

\* delete_page and delete_chunk.
DropSlug(t, s) == {e \in t : e.slug # s}
DropKey(t, s, i) == t \ At(t, s, {i})

\* One chunk per key.
IsTable(t) ==
  /\ t \subseteq Entries
  /\ \A e, f \in t : e.slug = f.slug /\ e.idx = f.idx => e = f
-----------------------------------------------------------------------------
VARIABLE table

Init == table = {}

Put(s, i, c)    == table' = PutIn(table, s, i, c)
DropPage(s)     == table' = DropSlug(table, s)
DropChunk(s, i) == table' = DropKey(table, s, i)

Next == \E s \in Slugs :
          \/ DropPage(s)
          \/ \E i \in Idxs : \/ DropChunk(s, i)
                             \/ \E c \in Sums : Put(s, i, c)

Spec == Init /\ [][Next]_table
=============================================================================
