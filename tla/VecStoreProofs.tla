--------------------------- MODULE VecStoreProofs ---------------------------
(***************************************************************************)
(* Theorems about VecStore for every set of processes, slugs, indexes and  *)
(* checksums.  Inv is inductive; the checked properties follow from it and *)
(* from one step of Next.                                                  *)
(***************************************************************************)
EXTENDS VecStore, TLAPS

\* An idle process is in no call.
LEMMA IdleIsNoCall == \A o \in Calls : o # Idle /\ o.kind # "idle"
BY DEF Calls, Idle

\* Storing a set of rowids in a call changes nothing else of it.
LEMMA CallWithRows ==
  ASSUME NEW o \in Calls, NEW ids \in SUBSET Nat
  PROVE  LET oo == [o EXCEPT !.rows = ids]
         IN /\ oo \in Calls /\ oo.rows = ids
            /\ oo.kind = o.kind /\ oo.slug = o.slug
            /\ o.kind # "delete_page" => oo.idx = o.idx
<1>1. CASE o \in [kind : {"upsert"}, slug : Slugs, idx : Idxs, sum : Sums,
                  rows : SUBSET Nat]
  BY <1>1 DEF Calls
<1>2. CASE o \in [kind : {"delete_page"}, slug : Slugs, rows : SUBSET Nat]
  BY <1>2 DEF Calls
<1>3. CASE o \in [kind : {"delete_chunk"}, slug : Slugs, idx : Idxs,
                  rows : SUBSET Nat]
  BY <1>3 DEF Calls
<1> QED
  BY <1>1, <1>2, <1>3 DEF Calls

\* Every SELECT is about a call of the right form, and remembers exactly the
\* rowids that chunk_meta has for it.
LEMMA SelectInv ==
  ASSUME NEW p \in Procs, NEW o \in Calls, Inv, Select(p, o)
  PROVE  Inv'
<1> DEFINE held == {m.id : m \in MetaOf(o)}
<1>1. held \subseteq Nat
  BY DEF Inv, TypeOK, MetaOf, Rows
<1> DEFINE oo == [o EXCEPT !.rows = held]
<1>2. /\ oo \in Calls /\ oo.rows = held /\ oo.kind = o.kind
      /\ oo.slug = o.slug
      /\ \A r : IsAbout(oo, r) <=> IsAbout(o, r)
  BY <1>1, CallWithRows DEF IsAbout
<1>3. op' = [op EXCEPT ![p] = oo]
  BY DEF Select
<1> HIDE DEF oo
<1>0. o.slug \in Slugs
  BY DEF Calls
<1>4. TypeOK'
  BY <1>0, <1>2, <1>3 DEF Inv, TypeOK, Select
<1>5. \A q \in Procs : op'[q] = IF q = p THEN oo ELSE op[q]
  BY <1>3 DEF Inv, TypeOK
<1>6. /\ chunks' = chunks /\ fts' = fts /\ meta' = meta /\ nextRow' = nextRow
      /\ overlapped \subseteq overlapped'
  BY DEF Select
<1>7. (LockStep /\ NoDangling /\ NoOrphans /\ RowidsFresh)'
  BY <1>6 DEF Inv, LockStep, NoDangling, NoOrphans, RowidsFresh
<1>8. /\ \A n \in oo.rows : n < nextRow
      /\ \A r \in chunks : r.id \in oo.rows => IsAbout(oo, r)
  BY <1>2 DEF Inv, NoDangling, RowidsFresh, MetaOf
<1>9. HeldRows'
  BY <1>5, <1>6, <1>8 DEF Inv, HeldRows, IsAbout
<1>10. MetaOf(oo) = MetaOf(o)
  BY <1>2 DEF MetaOf
<1>11. HeldIsCurrent'
  BY <1>2, <1>5, <1>6, <1>10 DEF Inv, HeldIsCurrent, MetaOf, IsAbout
<1>12. \A q \in Procs : op[q] # Idle /\ op[q].slug = o.slug => o.slug \in overlapped'
  BY DEF Select
<1>13. OverlapKnown'
  BY <1>2, <1>5, <1>6, <1>12 DEF Inv, OverlapKnown
<1> QED
  BY <1>4, <1>7, <1>9, <1>11, <1>13 DEF Inv

\* What a transaction does to the calls of the other processes: nothing.
LEMMA ReturnCalls ==
  ASSUME NEW p \in Procs, TypeOK, Return(p)
  PROVE  /\ op' \in [Procs -> Calls \cup {Idle}]
         /\ \A q \in Procs : op'[q] = IF q = p THEN Idle ELSE op[q]
         /\ overlapped' = overlapped
BY DEF TypeOK, Return

LEMMA AbortInv ==
  ASSUME NEW p \in Procs, Inv, Abort(p)
  PROVE  Inv'
<1>1. TypeOK'
  BY ReturnCalls DEF Inv, Abort, TypeOK
<1>2. (LockStep /\ NoDangling /\ NoOrphans /\ RowidsFresh)'
  BY ReturnCalls DEF Inv, Abort, LockStep, NoDangling, NoOrphans, RowidsFresh
<1>3. \A q \in Procs : op'[q] # Idle => op'[q] = op[q]
  BY ReturnCalls DEF Inv, Abort
<1>4. (HeldRows /\ HeldIsCurrent /\ OverlapKnown)'
  BY <1>3, ReturnCalls
     DEF Inv, Abort, HeldRows, HeldIsCurrent, OverlapKnown, IsAbout, MetaOf
<1> QED
  BY <1>1, <1>2, <1>4 DEF Inv

\* Deleting by the held rowids removes no row that chunk_meta keeps: a row with
\* a held rowid is one the call is about, and those leave chunk_meta too.
LEMMA DeleteKeepsRecorded ==
  ASSUME NEW p \in Procs, Inv, op[p] # Idle,
         NEW r \in meta \ MetaOf(op[p])
  PROVE  r \in WithoutIds(chunks, op[p].rows)
BY DEF Inv, NoDangling, HeldRows, MetaOf, WithoutIds

\* Where no calls overlapped, the held rowids are those of every chunk the call
\* is about, so what the delete leaves is what chunk_meta keeps.
LEMMA DeleteLeavesRecorded ==
  ASSUME NEW p \in Procs, Inv, op[p] # Idle,
         NEW r \in WithoutIds(chunks, op[p].rows), r.slug \notin overlapped
  PROVE  r \in meta \ MetaOf(op[p])
<1>1. r \in chunks /\ r.id \notin op[p].rows /\ r \in meta
  BY DEF WithoutIds, Inv, NoOrphans
<1>2. r \notin MetaOf(op[p])
  BY <1>1 DEF Inv, HeldIsCurrent, MetaOf, IsAbout
<1> QED
  BY <1>1, <1>2

LEMMA DeleteInv ==
  ASSUME NEW p \in Procs, Inv, DeleteCommit(p)
  PROVE  Inv'
<1> DEFINE o == op[p]
<1>1. o # Idle
  BY DEF DeleteCommit, Idle
<1>2. /\ chunks' = WithoutIds(chunks, o.rows)
      /\ fts' = WithoutIds(fts, o.rows)
      /\ meta' = meta \ MetaOf(o)
      /\ nextRow' = nextRow
  BY DEF DeleteCommit
<1>3. chunks' \subseteq chunks /\ fts' \subseteq fts /\ meta' \subseteq meta
  BY <1>2 DEF WithoutIds
<1>4. TypeOK'
  BY <1>2, <1>3, ReturnCalls DEF Inv, TypeOK, DeleteCommit
<1>5. LockStep'
  BY <1>2 DEF Inv, LockStep
<1>6. NoDangling'
  BY <1>1, <1>2, <1>3, DeleteKeepsRecorded DEF Inv, NoDangling
<1>7. NoOrphans'
  BY <1>1, <1>2, DeleteLeavesRecorded, ReturnCalls DEF Inv, NoOrphans, DeleteCommit
<1>8. RowidsFresh'
  BY <1>2, <1>3 DEF Inv, RowidsFresh
<1>9. /\ \A q \in Procs : op'[q] # Idle => q # p /\ op'[q] = op[q]
      /\ overlapped' = overlapped
  BY ReturnCalls DEF Inv, DeleteCommit
<1>10. HeldRows'
  BY <1>2, <1>3, <1>9 DEF Inv, HeldRows, IsAbout
<1>11. HeldIsCurrent'
  <2>1. SUFFICES ASSUME NEW q \in Procs, op'[q] # Idle,
                        op[q].slug \notin overlapped
                 PROVE  op[q].rows = {m.id : m \in {n \in meta' : IsAbout(op[q], n)}}
    BY <1>9 DEF HeldIsCurrent, MetaOf, IsAbout
  <2>2. q # p /\ op[q] # Idle
    BY <1>9, <2>1
  <2>3. {n \in meta' : IsAbout(op[q], n)} = MetaOf(op[q])
    BY <1>1, <1>2, <2>1, <2>2 DEF Inv, OverlapKnown, MetaOf, IsAbout
  <2> QED
    BY <2>1, <2>2, <2>3 DEF Inv, HeldIsCurrent
<1>12. OverlapKnown'
  BY <1>9 DEF Inv, OverlapKnown
<1> QED
  BY <1>4, <1>5, <1>6, <1>7, <1>8, <1>10, <1>11, <1>12 DEF Inv

\* What upsert's transaction does, its IF resolved: no row found means none to
\* delete.
LEMMA UpsertEffect ==
  ASSUME NEW p \in Procs, Inv, UpsertCommit(p)
  PROVE  /\ op[p] \in Calls /\ op[p] # Idle /\ op[p].kind = "upsert"
         /\ NewRow(op[p]) \in Rows
         /\ NewRow(op[p]).id = nextRow
         /\ IsAbout(op[p], NewRow(op[p]))
         /\ chunks' = WithoutIds(chunks, op[p].rows) \cup {NewRow(op[p])}
         /\ fts' = WithoutIds(fts, op[p].rows) \cup {NewRow(op[p])}
         /\ meta' = (meta \ MetaOf(op[p])) \cup {NewRow(op[p])}
         /\ nextRow' = nextRow + 1
<1>1. op[p] \in Calls /\ op[p] # Idle /\ op[p].kind = "upsert"
  BY DEF UpsertCommit, Inv, TypeOK, Idle
<1>2. /\ op[p].slug \in Slugs /\ op[p].idx \in Idxs /\ op[p].sum \in Sums
  BY <1>1 DEF Calls
<1>3. /\ NewRow(op[p]) \in Rows
      /\ NewRow(op[p]).id = nextRow
      /\ IsAbout(op[p], NewRow(op[p]))
  BY <1>2 DEF NewRow, NewRowid, Rows, IsAbout, Inv, TypeOK
<1>4. op[p].rows = {} => meta = meta \ MetaOf(op[p])
  BY DEF UpsertCommit, KeyTaken
<1> QED
  BY <1>1, <1>3, <1>4 DEF UpsertCommit

LEMMA UpsertInv ==
  ASSUME NEW p \in Procs, Inv, UpsertCommit(p)
  PROVE  Inv'
<1> DEFINE o == op[p]
           new == NewRow(op[p])
           left == WithoutIds(chunks, op[p].rows)
<1>1. /\ o \in Calls /\ o # Idle /\ o.kind = "upsert"
      /\ new \in Rows /\ new.id = nextRow /\ IsAbout(o, new)
      /\ chunks' = left \cup {new}
      /\ fts' = WithoutIds(fts, o.rows) \cup {new}
      /\ meta' = (meta \ MetaOf(o)) \cup {new}
      /\ nextRow' = nextRow + 1
  BY UpsertEffect
<1>2. left \subseteq chunks /\ WithoutIds(fts, o.rows) \subseteq fts
  BY DEF WithoutIds
<1> HIDE DEF o, new, left
<1>3. /\ op' \in [Procs -> Calls \cup {Idle}]
      /\ overlapped' = overlapped
      /\ \A q \in Procs : op'[q] # Idle => q # p /\ op'[q] = op[q]
  BY ReturnCalls DEF Inv, UpsertCommit
<1>4. TypeOK'
  BY <1>1, <1>2, <1>3 DEF Inv, TypeOK
<1>5. LockStep'
  BY <1>1 DEF Inv, LockStep, left, o
<1>6. \A r \in meta \ MetaOf(o) : r \in left
  BY <1>1, DeleteKeepsRecorded DEF o, left
<1>7. \A r \in meta \ MetaOf(o) : ~ (r.slug = new.slug /\ r.idx = new.idx)
  BY <1>1 DEF MetaOf, IsAbout
<1>8. NoDangling'
  BY <1>1, <1>6, <1>7 DEF Inv, NoDangling
<1>9. NoOrphans'
  <2>1. \A r \in left : r.slug \notin overlapped => r \in meta \ MetaOf(o)
    BY <1>1, DeleteLeavesRecorded DEF o, left
  <2> QED
    BY <1>1, <1>3, <2>1 DEF NoOrphans
<1>10. RowidsFresh'
  BY <1>1, <1>2 DEF Inv, TypeOK, RowidsFresh, Rows
<1>11. HeldRows'
  <2>1. SUFFICES ASSUME NEW q \in Procs, op'[q] # Idle
                 PROVE  /\ \A n \in op[q].rows : n < nextRow + 1
                        /\ \A r \in left \cup {new} :
                             r.id \in op[q].rows => IsAbout(op[q], r)
    BY <1>1, <1>3 DEF HeldRows, IsAbout
  <2>2. op[q] # Idle /\ op[q] \in Calls
    BY <1>3, <2>1 DEF Inv, TypeOK
  <2>3. op[q].rows \subseteq Nat
    BY <2>2 DEF Calls
  <2>4. /\ \A n \in op[q].rows : n < nextRow
        /\ \A r \in chunks : r.id \in op[q].rows => IsAbout(op[q], r)
    BY <2>2 DEF Inv, HeldRows
  <2>5. nextRow \notin op[q].rows
    BY <2>3, <2>4 DEF Inv, TypeOK
  <2> QED
    BY <1>1, <1>2, <2>3, <2>4, <2>5 DEF Inv, TypeOK
<1>12. HeldIsCurrent'
  <2>1. SUFFICES ASSUME NEW q \in Procs, op'[q] # Idle,
                        op[q].slug \notin overlapped
                 PROVE  op[q].rows = {m.id : m \in {n \in meta' : IsAbout(op[q], n)}}
    BY <1>3 DEF HeldIsCurrent, MetaOf, IsAbout
  <2>2. q # p /\ op[q] # Idle
    BY <1>3, <2>1
  <2>3. o.slug # op[q].slug
    BY <1>1, <2>1, <2>2 DEF Inv, OverlapKnown, o
  <2>4. {n \in meta' : IsAbout(op[q], n)} = MetaOf(op[q])
    BY <1>1, <2>3 DEF MetaOf, IsAbout
  <2> QED
    BY <2>1, <2>2, <2>4 DEF Inv, HeldIsCurrent
<1>13. OverlapKnown'
  BY <1>3 DEF Inv, OverlapKnown
<1> QED
  BY <1>4, <1>5, <1>8, <1>9, <1>10, <1>11, <1>12, <1>13 DEF Inv

LEMMA InitInv == Init => Inv
BY DEF Init, Inv, TypeOK, LockStep, NoDangling, NoOrphans, RowidsFresh,
       HeldRows, HeldIsCurrent, OverlapKnown

\* A step is the SELECT of some call, or ends one.
LEMMA StepOfCall ==
  ASSUME Next
  PROVE  \E p \in Procs : \/ \E o \in Calls : Select(p, o)
                          \/ UpsertCommit(p)
                          \/ DeleteCommit(p)
                          \/ Abort(p)
<1>1. ASSUME NEW p \in Procs, NEW s \in Slugs, NEW i \in Idxs,
             NEW c \in Sums, UpsertSelect(p, s, i, c)
      PROVE  \E o \in Calls : Select(p, o)
  <2>1. [kind |-> "upsert", slug |-> s, idx |-> i, sum |-> c, rows |-> {}]
          \in Calls
    BY DEF Calls
  <2> QED
    BY <1>1, <2>1 DEF UpsertSelect
<1>2. ASSUME NEW p \in Procs, NEW s \in Slugs, DeletePageSelect(p, s)
      PROVE  \E o \in Calls : Select(p, o)
  <2>1. [kind |-> "delete_page", slug |-> s, rows |-> {}] \in Calls
    BY DEF Calls
  <2> QED
    BY <1>2, <2>1 DEF DeletePageSelect
<1>3. ASSUME NEW p \in Procs, NEW s \in Slugs, NEW i \in Idxs,
             DeleteChunkSelect(p, s, i)
      PROVE  \E o \in Calls : Select(p, o)
  <2>1. [kind |-> "delete_chunk", slug |-> s, idx |-> i, rows |-> {}] \in Calls
    BY DEF Calls
  <2> QED
    BY <1>3, <2>1 DEF DeleteChunkSelect
<1> QED
  BY <1>1, <1>2, <1>3 DEF Next

LEMMA NextInv == Inv /\ [Next]_vars => Inv'
<1>1. SUFFICES ASSUME Inv, [Next]_vars PROVE Inv'
  OBVIOUS
<1>2. CASE UNCHANGED vars
  BY <1>1, <1>2 DEF vars, Inv, TypeOK, LockStep, NoDangling, NoOrphans,
     RowidsFresh, HeldRows, HeldIsCurrent, OverlapKnown, MetaOf, IsAbout
<1>3. CASE Next
  BY <1>1, <1>3, StepOfCall, SelectInv, UpsertInv, DeleteInv, AbortInv
<1> QED
  BY <1>1, <1>2, <1>3

THEOREM Invariance == Spec => []Inv
BY InitInv, NextInv, PTL DEF Spec

\* The state has its type.
THEOREM TypeCorrect == Spec => []TypeOK
BY Invariance, PTL DEF Inv

\* Whatever the processes do, the two search indexes hold the same chunks.
THEOREM IndexesInLockStep == Spec => []LockStep
BY Invariance, PTL DEF Inv

\* Whatever the processes do, every recorded chunk can be searched.
THEOREM RecordedIsSearchable == Spec => []NoDangling
BY Invariance, PTL DEF Inv

\* Calls that do not overlap leave no chunk of their page in the search indexes
\* that is not recorded, whatever happens to other pages meanwhile.
THEOREM DisjointCallsNoOrphans == Spec => []NoOrphans
BY Invariance, PTL DEF Inv

\* One process alone leaves none at all: searches return recorded chunks only.
THEOREM OneProcessNoStaleRows ==
  (\A p, q \in Procs : p = q) /\ Spec => []NoStaleRows
<1>1. SUFFICES ASSUME \A p, q \in Procs : p = q
               PROVE  Spec => []NoStaleRows
  OBVIOUS
<1> DEFINE Calm == overlapped = {}
<1>2. Init => Calm
  BY DEF Init
<1>3. Calm /\ Inv /\ [Next]_vars => Calm'
  <2> SUFFICES ASSUME Calm, Inv, [Next]_vars PROVE overlapped' = {}
    OBVIOUS
  <2>1. CASE UNCHANGED vars
    BY <2>1 DEF vars
  <2>2. ASSUME NEW p \in Procs, NEW o \in Calls, Select(p, o)
        PROVE  overlapped' = {}
    BY <1>1, <2>2 DEF Select
  <2>3. ASSUME NEW p \in Procs, UpsertCommit(p) \/ DeleteCommit(p) \/ Abort(p)
        PROVE  overlapped' = {}
    BY <2>3, ReturnCalls DEF Inv, UpsertCommit, DeleteCommit, Abort
  <2>4. CASE Next
    BY <2>2, <2>3, <2>4, StepOfCall
  <2> QED
    BY <2>1, <2>4
<1>4. Calm /\ Inv => NoStaleRows
  BY DEF Inv, NoOrphans, NoStaleRows
<1> HIDE DEF Calm
<1> QED
  BY <1>2, <1>3, <1>4, Invariance, PTL DEF Spec
-----------------------------------------------------------------------------
\* A row leaves the chunks table only in the transaction of a call about it:
\* the rowids a call holds name no chunk of another page, however old they are.
THEOREM RemovesOwnPageOnly == Spec => OwnPageOnly
<1> DEFINE Own(r) == r \in chunks' \/ \E p \in Procs : /\ op[p] # Idle
                                                     /\ op'[p] = Idle
                                                     /\ IsAbout(op[p], r)
<1>1. ASSUME Inv, [Next]_vars, NEW r \in chunks
      PROVE  UNCHANGED vars \/ Own(r)
  <2>1. CASE UNCHANGED vars
    BY <2>1
  <2>2. CASE Next
    <3>1. PICK p \in Procs : \/ \E o \in Calls : Select(p, o)
                             \/ UpsertCommit(p)
                             \/ DeleteCommit(p)
                             \/ Abort(p)
      BY <2>2, StepOfCall
    <3>2. CASE UNCHANGED chunks
      BY <3>2
    <3>3. CASE UpsertCommit(p) \/ DeleteCommit(p)
      <4>1. op[p] # Idle /\ WithoutIds(chunks, op[p].rows) \subseteq chunks'
        BY <1>1, <3>3 DEF UpsertCommit, DeleteCommit, Idle
      <4>2. op'[p] = Idle
        BY <1>1, <3>3, ReturnCalls DEF UpsertCommit, DeleteCommit, Inv
      <4>3. r.id \in op[p].rows => IsAbout(op[p], r)
        BY <1>1, <4>1 DEF Inv, HeldRows
      <4> QED
        BY <1>1, <4>1, <4>2, <4>3 DEF WithoutIds
    <3> QED
      BY <3>1, <3>2, <3>3 DEF Select, Abort
  <2> QED
    BY <1>1, <2>1, <2>2
<1>2. Inv /\ [Next]_vars => [\A r \in chunks : Own(r)]_vars
  BY <1>1
<1> QED
  BY <1>2, Invariance, PTL DEF Spec, OwnPageOnly
-----------------------------------------------------------------------------
\* The keys a call is about, as the abstract table names them.
LEMMA MetaAtKey ==
  ASSUME Inv, NEW o \in Calls
  PROVE  {Entry(m) : m \in meta \ MetaOf(o)}
           = IF o.kind = "delete_page" THEN MetaTable!DropSlug(Recorded, o.slug)
                                       ELSE MetaTable!DropKey(Recorded, o.slug, o.idx)
BY DEF Inv, TypeOK, Rows, Entry, Recorded, MetaOf, IsAbout, Calls,
       MetaTable!DropSlug, MetaTable!DropKey, MetaTable!At

\* A step of the store is a step of the abstract table, or leaves it alone.
LEMMA StepOfTable ==
  ASSUME Inv, [Next]_vars
  PROVE  [MetaTable!Next]_Recorded
<1>1. CASE UNCHANGED meta
  BY <1>1 DEF Recorded, Entry
<1>2. ASSUME NEW p \in Procs, UpsertCommit(p)
      PROVE  MetaTable!Next
  <2> DEFINE o == op[p]
             new == NewRow(op[p])
  <2>1. /\ o \in Calls /\ o.kind = "upsert"
        /\ meta' = (meta \ MetaOf(o)) \cup {new}
    BY <1>2, UpsertEffect
  <2>2. o.slug \in Slugs /\ o.idx \in Idxs /\ o.sum \in Sums
    BY <2>1 DEF Calls
  <2>3. Entry(new) = [slug |-> o.slug, idx |-> o.idx, sum |-> o.sum]
    BY DEF Entry, NewRow
  <2> HIDE DEF o, new
  <2>4. Recorded' = {Entry(m) : m \in meta \ MetaOf(o)} \cup {Entry(new)}
    BY <2>1 DEF Recorded, Entry
  <2>5. Recorded' = MetaTable!PutIn(Recorded, o.slug, o.idx, o.sum)
    BY <2>1, <2>3, <2>4, MetaAtKey DEF MetaTable!PutIn, MetaTable!DropKey
  <2> QED
    BY <2>2, <2>5 DEF MetaTable!Next, MetaTable!Put
<1>3. ASSUME NEW p \in Procs, DeleteCommit(p)
      PROVE  MetaTable!Next
  <2> DEFINE o == op[p]
  <2>1. /\ o \in Calls /\ o.kind \in {"delete_page", "delete_chunk"}
        /\ meta' = meta \ MetaOf(o)
    BY <1>3 DEF DeleteCommit, Inv, TypeOK, Idle
  <2>2. o.slug \in Slugs /\ (o.kind = "delete_chunk" => o.idx \in Idxs)
    BY <2>1 DEF Calls
  <2> HIDE DEF o
  <2>3. Recorded' = {Entry(m) : m \in meta \ MetaOf(o)}
    BY <2>1 DEF Recorded, Entry
  <2> QED
    BY <2>1, <2>2, <2>3, MetaAtKey
       DEF MetaTable!Next, MetaTable!DropPage, MetaTable!DropChunk
<1> QED
  BY <1>1, <1>2, <1>3, StepOfCall DEF vars, Select, Abort

\* Through get_checksums the store is the abstract table, for any number of
\* processes.
THEOREM StoreImplementsTable == Spec => RecordedIsTable
<1>1. Init => MetaTable!Init
  BY DEF Init, MetaTable!Init, Recorded
<1> QED
  BY <1>1, StepOfTable, Invariance, PTL
     DEF Spec, RecordedIsTable, MetaTable!Spec

\* Through search it is too, page by page, until calls about a page overlap.
THEOREM SearchImplementsTable == Spec => SearchableIsTable
<1>1. Init => SearchTable!Init
  BY DEF Init, SearchTable!Init, Undisturbed, Searchable
<1>2. ASSUME Inv, Inv', [Next]_vars
      PROVE  [SearchTable!Next]_Undisturbed
  <2> DEFINE Shown(t, o) == {e \in t : e.slug \notin o}
  <2>1. /\ Undisturbed = Shown(Recorded, overlapped)
        /\ Undisturbed' = Shown(Recorded', overlapped')
    <3>1. /\ meta \subseteq chunks /\ meta' \subseteq chunks'
          /\ \A r \in chunks : r.slug \notin overlapped => r \in meta
          /\ \A r \in chunks' : r.slug \notin overlapped' => r \in meta'
      BY <1>2 DEF Inv, NoDangling, NoOrphans
    <3>2. /\ Undisturbed = Shown({Entry(r) : r \in chunks}, overlapped)
          /\ Recorded = {Entry(r) : r \in meta}
          /\ Undisturbed' = Shown({Entry(r) : r \in chunks'}, overlapped')
          /\ Recorded' = {Entry(r) : r \in meta'}
      BY Zenon DEF Undisturbed, Searchable, Recorded, Entry
    <3>3. Shown({Entry(r) : r \in chunks}, overlapped)
            = Shown({Entry(r) : r \in meta}, overlapped)
      BY <3>1 DEF Entry
    <3>4. Shown({Entry(r) : r \in chunks'}, overlapped')
            = Shown({Entry(r) : r \in meta'}, overlapped')
      BY <3>1 DEF Entry
    <3> HIDE DEF Shown
    <3> QED
      BY Zenon, <3>2, <3>3, <3>4
  <2>2. CASE UNCHANGED overlapped
    BY <1>2, <2>1, <2>2, StepOfTable
       DEF MetaTable!Next, MetaTable!Put, MetaTable!DropPage,
           MetaTable!DropChunk, MetaTable!PutIn, MetaTable!DropSlug,
           MetaTable!DropKey, MetaTable!At,
           SearchTable!Next, SearchTable!Put, SearchTable!DropPage,
           SearchTable!DropChunk, SearchTable!PutIn, SearchTable!DropSlug,
           SearchTable!DropKey, SearchTable!At
  <2>3. ASSUME NEW p \in Procs, NEW o \in Calls, Select(p, o),
               overlapped' # overlapped
        PROVE  SearchTable!Next
    <3>1. overlapped' = overlapped \cup {o.slug} /\ o.slug \in Slugs
      BY <2>3 DEF Select, Calls
    <3>2. Recorded' = Recorded
      BY <2>3 DEF Select, Recorded, Entry
    <3>3. Undisturbed' = SearchTable!DropSlug(Undisturbed, o.slug)
      BY <2>1, <3>1, <3>2 DEF SearchTable!DropSlug
    <3> QED
      BY <3>1, <3>3 DEF SearchTable!Next, SearchTable!DropPage
  <2>4. ASSUME NEW p \in Procs, UpsertCommit(p) \/ DeleteCommit(p) \/ Abort(p)
        PROVE  UNCHANGED overlapped
    BY <1>2, <2>4, ReturnCalls DEF Inv, UpsertCommit, DeleteCommit, Abort
  <2> QED
    BY <1>2, <2>2, <2>3, <2>4, StepOfCall DEF vars
<1> QED
  BY <1>1, <1>2, Invariance, PTL
     DEF Spec, SearchableIsTable, SearchTable!Spec
=============================================================================
