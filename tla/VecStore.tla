------------------------------ MODULE VecStore ------------------------------
(***************************************************************************)
(* stores/vec_store.py: one SQLite file shared by the processes Procs (the *)
(* `serve` or `mcp` process and the `vault-engine reindex` that the        *)
(* post-commit hook starts beside it).  Inside one process the calls are   *)
(* serialised by the service's lock, so a process runs one call at a time. *)
(*                                                                         *)
(* A chunk lives in three tables: `chunks` (vec0, searched by vector),     *)
(* `chunks_fts` (searched by keyword, same rowid) and `chunk_meta` (what   *)
(* get_checksums, all_slugs and every delete go through).  A writing call  *)
(* reads chunk_meta FIRST, outside its transaction, and deletes by the     *)
(* rowids it read; the transaction itself (`with self._conn`) is atomic,   *)
(* so it is one action here, and its failure (lock timeout, IntegrityError,*)
(* death of the process) is a rollback.  The two halves of a call are      *)
(* separate actions: another process may commit between them.              *)
(*                                                                         *)
(* The text and the vector of a chunk are determined by its checksum.      *)
(***************************************************************************)
EXTENDS Integers, FiniteSets

CONSTANTS Procs,   \* processes with the database file open
          Slugs, Idxs, Sums,
          MaxRows  \* bound: how many rows are ever inserted

ASSUME MaxRowsAssumption == MaxRows \in Nat

VARIABLES chunks,  \* rows of the vec0 table
          fts,     \* rows of chunks_fts
          meta,    \* rows of chunk_meta; `id` is its column `rowid`
          nextRow, \* the rowid vec0 gives next (AUTOINCREMENT: never reused)
          op,      \* the call each process is in, with what it read
          overlapped \* history: slugs that two calls at a time were about

vars == <<chunks, fts, meta, nextRow, op, overlapped>>

Rows  == [id : Nat, slug : Slugs, idx : Idxs, sum : Sums]
Idle  == [kind |-> "idle"]

\* A call in progress: its arguments, and the rowids its SELECT returned.
Calls ==
  [kind : {"upsert"}, slug : Slugs, idx : Idxs, sum : Sums, rows : SUBSET Nat]
    \cup [kind : {"delete_page"}, slug : Slugs, rows : SUBSET Nat]
    \cup [kind : {"delete_chunk"}, slug : Slugs, idx : Idxs, rows : SUBSET Nat]

TypeOK == /\ chunks \subseteq Rows
          /\ fts \subseteq Rows
          /\ meta \subseteq Rows
          /\ nextRow \in Nat
          /\ op \in [Procs -> Calls \cup {Idle}]
          /\ overlapped \subseteq Slugs
-----------------------------------------------------------------------------
\* The rows of chunk_meta, or of chunks, that a call is about:
\* WHERE page_slug=? [AND chunk_idx=?]
IsAbout(o, r) == /\ r.slug = o.slug
                 /\ o.kind # "delete_page" => r.idx = o.idx

MetaOf(o) == {m \in meta : IsAbout(o, m)}

\* DELETE FROM chunks / chunks_fts WHERE rowid=?
WithoutIds(rows, ids) == {r \in rows : r.id \notin ids}

\* Search, in either channel, returns rows of its table as they are: there
\* is no join with chunk_meta.
Entry(r) == [slug |-> r.slug, idx |-> r.idx, sum |-> r.sum]
Searchable == {Entry(r) : r \in chunks}   \* what search can return
Recorded   == {Entry(m) : m \in meta}     \* what get_checksums reports

\* Not the code: rowids as an ordinary table gives them, reusing the highest.
ReusedRowid == 1 + Cardinality({n \in 1..MaxRows : \E r \in chunks : r.id >= n})

NewRowid == nextRow

\* The SELECT of call o; the call is remembered with the rowids it returned.
Select(p, o) ==
  /\ op[p] = Idle
  /\ op' = [op EXCEPT ![p] = [o EXCEPT !.rows = {m.id : m \in MetaOf(o)}]]
  /\ overlapped' = IF \E q \in Procs : op[q] # Idle /\ op[q].slug = o.slug
                   THEN overlapped \cup {o.slug} ELSE overlapped
  /\ UNCHANGED <<chunks, fts, meta, nextRow>>

Return(p) == op' = [op EXCEPT ![p] = Idle] /\ UNCHANGED overlapped

Init == /\ chunks = {} /\ fts = {} /\ meta = {}
        /\ nextRow = 1
        /\ op = [p \in Procs |-> Idle]
        /\ overlapped = {}
-----------------------------------------------------------------------------
\* upsert, up to the transaction: an unchanged checksum returns False at once.
UpsertSelect(p, s, i, c) ==
  LET o == [kind |-> "upsert", slug |-> s, idx |-> i, sum |-> c, rows |-> {}]
  IN /\ \A m \in MetaOf(o) : m.sum # c
     /\ Select(p, o)

\* The INSERT INTO chunk_meta hits the primary key: the SELECT found no row
\* and another process has inserted one since.
KeyTakenNever(o) == FALSE  \* Not the code: chunk_meta without PRIMARY KEY.

KeyTaken(o) == o.rows = {} /\ MetaOf(o) # {}

\* Not the code: two positional parameters in the wrong order.
NewRowSwapped(o) ==
  [id |-> NewRowid, slug |-> o.idx, idx |-> o.slug, sum |-> o.sum]

NewRow(o) == [id |-> NewRowid, slug |-> o.slug, idx |-> o.idx, sum |-> o.sum]

\* Not the code: an upsert that only inserts.
UpsertCommitKeepsOld(p) ==
  /\ op[p].kind = "upsert"
  /\ nextRow <= MaxRows
  /\ chunks' = chunks \cup {NewRow(op[p])}
  /\ fts' = fts \cup {NewRow(op[p])}
  /\ meta' = (meta \ MetaOf(op[p])) \cup {NewRow(op[p])}
  /\ nextRow' = nextRow + 1
  /\ Return(p)

\* `if row:` the row that the SELECT found is deleted by its old rowid from
\* chunks and chunks_fts, but by key from chunk_meta; then the inserts.
UpsertCommit(p) ==
  /\ op[p].kind = "upsert"
  /\ ~ KeyTaken(op[p])
  /\ nextRow <= MaxRows
  /\ LET o == op[p]
     IN /\ chunks' = WithoutIds(chunks, o.rows) \cup {NewRow(o)}
        /\ fts' = WithoutIds(fts, o.rows) \cup {NewRow(o)}
        /\ meta' = (IF o.rows = {} THEN meta ELSE meta \ MetaOf(o))
                     \cup {NewRow(o)}
  /\ nextRow' = nextRow + 1
  /\ Return(p)

\* delete_page: the SELECT, then one transaction even when it found no row.
DeletePageSelect(p, s) ==
  Select(p, [kind |-> "delete_page", slug |-> s, rows |-> {}])

\* delete_chunk: the SELECT; an absent row returns False at once.
DeleteChunkSelect(p, s, i) ==
  LET o == [kind |-> "delete_chunk", slug |-> s, idx |-> i, rows |-> {}]
  IN /\ MetaOf(o) # {}
     /\ Select(p, o)

\* Not the code: the delete that predates the keyword index.
DeleteCommitNoFts(p) ==
  /\ op[p].kind \in {"delete_page", "delete_chunk"}
  /\ chunks' = WithoutIds(chunks, op[p].rows)
  /\ meta' = meta \ MetaOf(op[p])
  /\ Return(p)
  /\ UNCHANGED <<fts, nextRow>>

\* The transaction of either delete.
DeleteCommit(p) ==
  /\ op[p].kind \in {"delete_page", "delete_chunk"}
  /\ chunks' = WithoutIds(chunks, op[p].rows)
  /\ fts' = WithoutIds(fts, op[p].rows)
  /\ meta' = meta \ MetaOf(op[p])
  /\ Return(p)
  /\ UNCHANGED nextRow

\* Not the code: statements that commit one by one, cut short after the first
\* DELETE or INSERT of chunk_meta's counterpart in the searched tables.
AbortHalfDone(p) ==
  /\ op[p].kind = "upsert"
  /\ nextRow <= MaxRows
  /\ chunks' = WithoutIds(chunks, op[p].rows) \cup {NewRow(op[p])}
  /\ fts' = WithoutIds(fts, op[p].rows) \cup {NewRow(op[p])}
  /\ nextRow' = nextRow + 1
  /\ Return(p)
  /\ UNCHANGED meta

\* The call dies after its SELECT: the lock times out, the key is taken, or
\* the process is killed.  `with self._conn` rolls everything back.
Abort(p) ==
  /\ op[p] # Idle
  /\ Return(p)
  /\ UNCHANGED <<chunks, fts, meta, nextRow>>

Next == \E p \in Procs :
  \/ \E s \in Slugs, i \in Idxs, c \in Sums : UpsertSelect(p, s, i, c)
  \/ \E s \in Slugs : DeletePageSelect(p, s)
  \/ \E s \in Slugs, i \in Idxs : DeleteChunkSelect(p, s, i)
  \/ UpsertCommit(p)
  \/ DeleteCommit(p)
  \/ Abort(p)

Spec == Init /\ [][Next]_vars
-----------------------------------------------------------------------------
\* The keyword index and the vector index hold the same chunks under the same
\* rowids: no call, interleaved with any others or cut short, adds to or drops
\* from one of them alone ("Keep the lexical index in lock-step").
LockStep == fts = chunks

\* Every chunk that chunk_meta records is there to be searched, with the text
\* of the recorded checksum: get_checksums never makes the indexer skip a
\* chunk that search has lost.  No two rows record the same key.
NoDangling == /\ meta \subseteq chunks
              /\ \A m, n \in meta : m.slug = n.slug /\ m.idx = n.idx => m = n

\* A call removes chunks of its own page only, even when it deletes by rowids
\* that it read before other calls committed.
OwnPageOnly ==
  [][\A r \in chunks : r \in chunks' \/ \E p \in Procs : /\ op[p] # Idle
                                                      /\ op'[p] = Idle
                                                      /\ IsAbout(op[p], r)]_vars

\* Calls about one page that do not overlap leave no orphan, whatever goes on
\* about other pages and whichever calls are cut short: what search can return
\* of the page, chunk_meta records, so that a later delete or upsert of the
\* page removes it.
NoOrphans == \A r \in chunks : r.slug \notin overlapped => r \in meta

\* As seen through get_checksums, the calls are atomic whatever the number of
\* processes.
MetaTable == INSTANCE ChunkTable WITH table <- Recorded
RecordedIsTable == MetaTable!Spec

\* As seen by search, they are atomic for the pages whose calls have never
\* overlapped; when two do, the page leaves the table that search implements.
Undisturbed == {e \in Searchable : e.slug \notin overlapped}
SearchTable == INSTANCE ChunkTable WITH table <- Undisturbed
SearchableIsTable == SearchTable!Spec
-----------------------------------------------------------------------------
\* The inductive invariant.  Rowids are unique and below nextRow.  A call in
\* progress holds rowids that were given to chunks of the keys it is about, so
\* they still can only name such chunks; until another call about the same page
\* overlaps with it, they are exactly the rows that chunk_meta has for it.
RowidsFresh == /\ \A r \in chunks : r.id < nextRow
               /\ \A r, q \in chunks : r.id = q.id => r = q

HeldRows == \A p \in Procs : op[p] # Idle =>
              /\ \A n \in op[p].rows : n < nextRow
              /\ \A r \in chunks : r.id \in op[p].rows => IsAbout(op[p], r)

HeldIsCurrent == \A p \in Procs : op[p] # Idle /\ op[p].slug \notin overlapped =>
                   op[p].rows = {m.id : m \in MetaOf(op[p])}

OverlapKnown == \A p, q \in Procs :
  op[p] # Idle /\ op[q] # Idle /\ p # q /\ op[p].slug = op[q].slug
    => op[p].slug \in overlapped

Inv == /\ TypeOK /\ LockStep /\ NoDangling /\ NoOrphans
       /\ RowidsFresh /\ HeldRows /\ HeldIsCurrent /\ OverlapKnown
-----------------------------------------------------------------------------
\* What the module's comments promise of searches, however many processes
\* there are: a chunk that chunk_meta no longer records is not returned.
NoStaleRows == chunks \subseteq meta
=============================================================================
