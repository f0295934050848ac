---------------------------- MODULE IndexerProofs ----------------------------
(***************************************************************************)
(* What Indexer promises, for any files, stems, bodies and folders that    *)
(* are walked and watched.  JobInv is inductive; the rest of Inv is, next  *)
(* to it, when every file has a stem of its own.                           *)
(***************************************************************************)
EXTENDS Indexer, WellFoundedInduction, TLAPS

LEMMA Distinct ==
  /\ Absent \notin Bodies /\ Oversize \notin Bodies /\ Absent # Oversize
  /\ None \notin Bodies /\ None \notin Slugs /\ {} \in Bodies
BY BodiesAssumption

\* Files have an order, so a set of them has a first.
LEMMA LeastNumber ==
  ASSUME NEW T \in SUBSET Nat, T # {}
  PROVE  \E n \in T : \A m \in T : n <= m
<1>1. PICK x \in T : \A y \in T : ~ (<<y, x>> \in OpToRel(<, Nat))
  BY NatLessThanWellFounded, WFMin
<1>2. \A y \in T : ~ (y < x)
  BY <1>1 DEF OpToRel
<1>3. \A y \in T : y \in Nat /\ x \in Nat
  OBVIOUS
<1> QED
  BY <1>2, <1>3

LEMMA PageRecord ==
  ASSUME NEW p \in Paths, NEW b \in Bodies
  PROVE  /\ PageAt(p, b) \in Pages
         /\ PageAt(p, b).path = p /\ PageAt(p, b).slug = SlugOf[p] /\ PageAt(p, b).body = b
BY PathsAssumption DEF PageAt, Pages

LEMMA NoJobFields ==
  /\ NoJob \in [pc : Phases, path : Paths \cup {None}, page : Pages \cup {None},
                todo : SUBSET Walked, seen : SUBSET Pages, left : SUBSET Pages]
  /\ NoJob.pc = "idle" /\ NoJob.path = None /\ NoJob.page = None
  /\ NoJob.todo = {} /\ NoJob.seen = {} /\ NoJob.left = {}
BY DEF NoJob, Phases

\* The store remains a table, whatever is written through ChunkTable.
LEMMA TableStays ==
  ASSUME Table!IsTable(store), NEW s \in Slugs, NEW i \in Idxs, NEW c \in Sums
  PROVE  /\ Table!IsTable(Table!DropSlug(store, s))
         /\ Table!IsTable(Table!DropKey(store, s, i))
         /\ Table!IsTable(Table!PutIn(store, s, i, c))
<1>1. Table!IsTable(Table!DropSlug(store, s))
  BY DEF Table!IsTable, Table!DropSlug
<1>2. Table!IsTable(Table!DropKey(store, s, i))
  BY DEF Table!IsTable, Table!DropKey
<1>3. [slug |-> s, idx |-> i, sum |-> c] \in Table!Entries
  BY DEF Table!Entries
<1>4. Table!IsTable(Table!PutIn(store, s, i, c))
  BY <1>3 DEF Table!IsTable, Table!PutIn, Table!At
<1> QED
  BY <1>1, <1>2, <1>4

\* Every chunk of a page is a record, one per index.
LEMMA ChunkRecords ==
  ASSUME Table!IsTable(store), NEW s \in Slugs
  PROVE  /\ ChunksOf(s) \subseteq [idx : Idxs, sum : Sums]
         /\ \A x, y \in ChunksOf(s) : x.idx = y.idx => x = y
BY DEF Table!IsTable, Table!Entries, ChunksOf

\* What the writes make of the chunks of each page.
LEMMA ChunksDropSlug ==
  ASSUME NEW s, store' = Table!DropSlug(store, s)
  PROVE  /\ ChunksOf(s)' = {}
         /\ \A t : t # s => ChunksOf(t)' = ChunksOf(t)
BY DEF Table!DropSlug, ChunksOf

LEMMA ChunksDropKey ==
  ASSUME NEW s, NEW i, store' = Table!DropKey(store, s, i)
  PROVE  \A t : t # s => ChunksOf(t)' = ChunksOf(t)
BY DEF Table!DropKey, Table!At, ChunksOf

LEMMA ChunksPutIn ==
  ASSUME NEW s, NEW i, NEW c, store' = Table!PutIn(store, s, i, c)
  PROVE  \A t : t # s => ChunksOf(t)' = ChunksOf(t)
BY DEF Table!PutIn, Table!At, ChunksOf

\* A page that has the chunks of a body, and no index besides, has no others.
LEMMA SyncedIsBody ==
  ASSUME Table!IsTable(store), NEW g \in Pages,
         Gone(g) = {}, g.body \subseteq ChunksOf(g.slug)
  PROVE  ChunksOf(g.slug) = g.body
<1>1. ASSUME NEW x \in ChunksOf(g.slug)
      PROVE  x \in g.body
  <2>1. PICK y \in g.body : y.idx = x.idx
    BY DEF Gone
  <2>2. g.slug \in Slugs
    BY DEF Pages
  <2> QED
    BY <2>1, <2>2, ChunkRecords
<1> QED
  BY <1>1

LEMMA VectorTyped ==
  ASSUME Table!IsTable(store), NEW s \in Slugs
  PROVE  VectorOf(s) \in (SUBSET [idx : Idxs, sum : Sums]) \cup {None}
BY ChunkRecords DEF VectorOf
-----------------------------------------------------------------------------
(* JobInv. *)

LEMMA InitJob == Init => JobInv
<1> SUFFICES ASSUME Init PROVE JobInv
  OBVIOUS
<1>1. /\ cache \in [Slugs -> (SUBSET [idx : Idxs, sum : Sums]) \cup {None}]
      /\ graph \in [Slugs -> Bodies \cup {None}] /\ edits \in 0..MaxEdits
      /\ Table!IsTable(store)
  BY EditsAssumption DEF Init, Table!IsTable
<1>2. TypeOK
  BY <1>1, NoJobFields DEF Init, TypeOK
<1>3. JobOK /\ WalkOK
  BY NoJobFields DEF Init, JobOK, WalkOK, OfWalk
<1> QED
  BY <1>2, <1>3 DEF JobInv

\* A change of the vault is none of the job's business.
LEMMA NoticeJob ==
  ASSUME JobInv, NEW ps \in SUBSET Paths, Notice(ps),
         disk' \in [Paths -> Bodies \cup {Absent, Oversize}]
  PROVE  JobInv'
<1>1. /\ edits' \in 0..MaxEdits
      /\ UNCHANGED <<up, job, store, graph, cache, failed>>
      /\ pending' \subseteq Watched /\ unseen' \subseteq Paths
      /\ up # "up" => pending' = pending
  BY EditsAssumption DEF Notice, JobInv, TypeOK
<1>2. TypeOK'
  BY <1>1 DEF JobInv, TypeOK
<1>3. JobOK' /\ WalkOK'
  BY <1>1 DEF JobInv, JobOK, WalkOK, OfWalk
<1> QED
  BY <1>2, <1>3 DEF JobInv

\* The process goes down, or comes up without a job.
LEMMA GoDownJob ==
  ASSUME JobInv, GoDown
  PROVE  JobInv'
<1>1. /\ up' = "down" /\ job' = NoJob /\ pending' = {} /\ failed' = {}
      /\ UNCHANGED <<disk, edits, store>>
      /\ graph' \in [Slugs -> Bodies \cup {None}]
      /\ cache' \in [Slugs -> (SUBSET [idx : Idxs, sum : Sums]) \cup {None}]
      /\ unseen' \subseteq Paths
  BY WalkAssumption DEF GoDown, JobInv, TypeOK
<1>2. TypeOK'
  BY <1>1, NoJobFields DEF JobInv, TypeOK
<1>3. JobOK' /\ WalkOK'
  BY <1>1, NoJobFields DEF JobOK, WalkOK, OfWalk
<1> QED
  BY <1>2, <1>3 DEF JobInv

LEMMA StartJob ==
  ASSUME JobInv, Start \/ StartWatcher
  PROVE  JobInv'
<1>1. UNCHANGED <<disk, edits, pending, store, graph, cache, failed, unseen>>
  BY DEF Start, StartWatcher
<1>2. CASE Start
  <2> DEFINE j == [NoJob EXCEPT !.pc = "list"]
  <2>1. /\ j \in [pc : Phases, path : Paths \cup {None}, page : Pages \cup {None},
                  todo : SUBSET Walked, seen : SUBSET Pages, left : SUBSET Pages]
        /\ j.pc = "list" /\ j.path = None /\ j.page = None
        /\ j.todo = {} /\ j.seen = {} /\ j.left = {}
    BY DEF NoJob, Phases
  <2>2. job' = j /\ up = "down" /\ up' = "starting"
    BY <1>2 DEF Start
  <2> HIDE DEF j
  <2>3. TypeOK'
    BY <1>1, <2>1, <2>2 DEF JobInv, TypeOK
  <2>4. JobOK' /\ WalkOK'
    BY <1>1, <2>1, <2>2 DEF JobInv, JobOK, WalkOK, OfWalk
  <2> QED
    BY <2>3, <2>4 DEF JobInv
<1>3. CASE StartWatcher
  <2>1. up = "rebuilt" /\ up' = "up" /\ job' = job /\ job = NoJob
    BY <1>3 DEF StartWatcher, JobInv, JobOK
  <2>2. TypeOK'
    BY <1>1, <2>1 DEF JobInv, TypeOK
  <2>3. JobOK' /\ WalkOK'
    BY <1>1, <2>1, NoJobFields DEF JobInv, JobOK, WalkOK, OfWalk
  <2> QED
    BY <2>2, <2>3 DEF JobInv
<1> QED
  BY <1>2, <1>3

\* A job under way while the service is up is about a file that is watched.
LEMMA UpJob ==
  ASSUME JobInv, up = "up", job.pc # "idle"
  PROVE  job # NoJob /\ job.path \in Watched /\ job.path \in Paths
BY WalkAssumption, NoJobFields DEF JobInv, JobOK

LEMMA JobRaisesJob ==
  ASSUME JobInv, job.pc # "idle", JobRaises
  PROVE  JobInv'
<1>1. up \in {"starting", "up"}
  BY NoJobFields DEF JobInv, JobOK, TypeOK
<1>2. CASE up = "starting"
  BY <1>2, GoDownJob DEF JobRaises
<1>3. CASE up = "up"
  <2>1. /\ failed' = failed \cup {job.path} /\ job' = NoJob /\ job.path \in Paths
        /\ UNCHANGED <<disk, edits, up, pending, store, graph, cache, unseen>>
    BY <1>3, UpJob DEF JobRaises
  <2>2. TypeOK'
    BY <2>1, NoJobFields DEF JobInv, TypeOK
  <2>3. JobOK' /\ WalkOK'
    BY <1>3, <2>1, NoJobFields DEF JobOK, WalkOK, OfWalk
  <2> QED
    BY <2>2, <2>3 DEF JobInv
<1> QED
  BY <1>1, <1>2, <1>3

LEMMA DeliverJob ==
  ASSUME JobInv, NEW p \in Paths, Deliver(p)
  PROVE  JobInv'
<1> DEFINE j == [NoJob EXCEPT !.pc = "changed", !.path = p]
<1>1. /\ j \in [pc : Phases, path : Paths \cup {None}, page : Pages \cup {None},
                todo : SUBSET Walked, seen : SUBSET Pages, left : SUBSET Pages]
      /\ j.pc = "changed" /\ j.path = p /\ j.page = None
      /\ j.todo = {} /\ j.seen = {} /\ j.left = {}
  BY DEF NoJob, Phases
<1>2. /\ up = "up" /\ job' = j /\ p \in Watched /\ pending' \subseteq Watched
      /\ UNCHANGED <<disk, edits, up, store, graph, cache, failed, unseen>>
  BY DEF Deliver, JobInv, TypeOK
<1> HIDE DEF j
<1>3. TypeOK'
  BY <1>1, <1>2 DEF JobInv, TypeOK
<1>4. JobOK' /\ WalkOK'
  BY <1>1, <1>2 DEF JobInv, JobOK, WalkOK, OfWalk
<1> QED
  BY <1>3, <1>4 DEF JobInv

LEMMA ReadChangedJob ==
  ASSUME JobInv, ReadChanged
  PROVE  JobInv'
<1>1. /\ job.pc = "changed" /\ up = "up" /\ job.path \in Paths /\ job.path \in Watched
      /\ job.seen = {} /\ job.todo = {} /\ SlugOf[job.path] \in Slugs
  BY UpJob, NoJobFields, PathsAssumption
     DEF ReadChanged, JobInv, JobOK, WalkOK, OfWalk, TypeOK
<1>2. /\ UNCHANGED <<disk, edits, up, pending, graph, cache, failed>>
      /\ unseen' \subseteq Paths
  BY DEF ReadChanged, JobInv, TypeOK
<1>3. CASE disk[job.path] \in {Absent, Oversize, {}}
  <2>1. store' = Table!DropSlug(store, SlugOf[job.path]) /\ job' = [job EXCEPT !.pc = "list"]
    BY <1>3 DEF ReadChanged
  <2>2. Table!IsTable(store)'
    BY <1>1, <2>1, TableStays DEF JobInv, TypeOK, Table!IsTable, Table!DropSlug
  <2>3. TypeOK'
    BY <1>2, <2>1, <2>2 DEF JobInv, TypeOK, Phases
  <2>4. JobOK' /\ WalkOK'
    BY <1>1, <1>2, <2>1, NoJobFields DEF JobInv, TypeOK, JobOK, WalkOK, OfWalk
  <2> QED
    BY <2>3, <2>4 DEF JobInv
<1>4. CASE disk[job.path] \notin {Absent, Oversize, {}}
  <2> DEFINE g == PageAt(job.path, disk[job.path])
  <2>1. store' = store /\ job' = [job EXCEPT !.pc = "sync", !.page = g]
    BY <1>4 DEF ReadChanged
  <2>2. disk[job.path] \in Bodies
    BY <1>1, <1>4 DEF JobInv, TypeOK
  <2>3. g \in Pages /\ g.body = disk[job.path]
    BY <1>1, <2>2, PageRecord
  <2>4. TypeOK'
    BY <1>2, <2>1, <2>3 DEF JobInv, TypeOK, Phases
  <2>5. JobOK'
    BY <1>1, <1>2, <2>1, <2>3, NoJobFields DEF JobInv, TypeOK, JobOK
  <2>6. WalkOK'
    BY <1>1, <1>2, <2>1 DEF JobInv, TypeOK, WalkOK, OfWalk
  <2> QED
    BY <2>4, <2>5, <2>6 DEF JobInv
<1> QED
  BY <1>3, <1>4

\* The writes on a page leave the job where it is.
LEMMA WriteJob ==
  ASSUME JobInv,
         \/ \E i \in Idxs : DropGone(i)
         \/ \E i \in Idxs, c \in Sums : UpsertChanged([idx |-> i, sum |-> c])
         \/ \E s \in Slugs : Prune(s)
  PROVE  JobInv'
<1>1. UNCHANGED <<disk, edits, up, pending, job, graph, cache, failed, unseen>>
  BY DEF DropGone, UpsertChanged, Prune
<1>2. \/ \E s \in Slugs, i \in Idxs : store' = Table!DropKey(store, s, i)
      \/ \E s \in Slugs, i \in Idxs, c \in Sums : store' = Table!PutIn(store, s, i, c)
      \/ \E s \in Slugs : store' = Table!DropSlug(store, s)
  <2>1. job.pc = "sync" => job.page.slug \in Slugs
    BY DEF JobInv, JobOK, Pages
  <2> QED
    BY <2>1 DEF DropGone, UpsertChanged, Prune
<1>3. Table!IsTable(store)'
  <2>1. Table!IsTable(store)
    BY DEF JobInv, TypeOK
  <2>2. ASSUME NEW s \in Slugs, NEW i \in Idxs, store' = Table!DropKey(store, s, i)
        PROVE  Table!IsTable(store)'
    BY <2>1, <2>2 DEF Table!IsTable, Table!DropKey
  <2>3. ASSUME NEW s \in Slugs, store' = Table!DropSlug(store, s)
        PROVE  Table!IsTable(store)'
    BY <2>1, <2>3 DEF Table!IsTable, Table!DropSlug
  <2>4. ASSUME NEW s \in Slugs, NEW i \in Idxs, NEW c \in Sums,
               store' = Table!PutIn(store, s, i, c)
        PROVE  Table!IsTable(store)'
    <3>1. Table!IsTable(Table!PutIn(store, s, i, c))
      BY <2>1, TableStays
    <3> QED
      BY <2>4, <3>1 DEF Table!IsTable
  <2> QED
    BY <1>2, <2>2, <2>3, <2>4
<1>4. TypeOK'
  BY <1>1, <1>3 DEF JobInv, TypeOK
<1>5. JobOK' /\ WalkOK'
  BY <1>1 DEF JobInv, JobOK, WalkOK, OfWalk
<1> QED
  BY <1>4, <1>5 DEF JobInv

LEMMA PageSyncedJob ==
  ASSUME JobInv, PageSynced
  PROVE  JobInv'
<1>1. /\ job.pc = "sync" /\ up \in {"starting", "up"}
      /\ job' = [job EXCEPT !.page = None,
                            !.pc = IF up = "starting" THEN "pages" ELSE "list"]
      /\ UNCHANGED <<disk, edits, up, pending, store, graph, cache, failed, unseen>>
  BY NoJobFields DEF PageSynced, JobInv, JobOK, TypeOK
<1>2. TypeOK'
  BY <1>1 DEF JobInv, TypeOK, Phases
<1>3. JobOK'
  BY <1>1, NoJobFields DEF JobInv, TypeOK, JobOK
<1>4. WalkOK'
  BY <1>1 DEF JobInv, TypeOK, WalkOK, OfWalk
<1> QED
  BY <1>2, <1>3, <1>4 DEF JobInv

LEMMA ListVaultJob ==
  ASSUME JobInv, ListVault
  PROVE  JobInv'
<1>1. /\ job.pc = "list" /\ up \in {"starting", "up"} /\ job.seen = {}
      /\ \E found \in SUBSET Walked : job' = [job EXCEPT !.pc = "walk", !.todo = found]
      /\ unseen' \subseteq Paths
      /\ UNCHANGED <<disk, edits, up, pending, store, graph, cache, failed>>
  BY NoJobFields DEF ListVault, JobInv, JobOK, WalkOK, OfWalk, TypeOK
<1>2. TypeOK'
  BY <1>1 DEF JobInv, TypeOK, Phases
<1>3. JobOK'
  BY <1>1, NoJobFields DEF JobInv, TypeOK, JobOK
<1>4. WalkOK'
  BY <1>1 DEF JobInv, TypeOK, WalkOK, OfWalk
<1> QED
  BY <1>2, <1>3, <1>4 DEF JobInv

\* A walk reads each file once, and refuses a second file of a stem.
LEMMA WalkReadJob ==
  ASSUME JobInv, NEW p \in Paths, WalkRead(p)
  PROVE  JobInv'
<1> DEFINE seen == IF disk[p] = Oversize THEN job.seen
                                         ELSE job.seen \cup {PageAt(p, disk[p])}
<1>1. /\ job.pc = "walk" /\ up \in {"starting", "up"} /\ p \in job.todo
      /\ job' = [job EXCEPT !.todo = @ \ {p}, !.seen = seen]
      /\ unseen' \subseteq Paths
      /\ UNCHANGED <<disk, edits, up, pending, store, graph, cache, failed>>
  BY NoJobFields DEF WalkRead, NextFile, JobInv, JobOK, TypeOK
<1>2. /\ disk[p] # Oversize => disk[p] \in Bodies
      /\ disk[p] \in Bodies => \A g \in job.seen : g.slug # SlugOf[p]
  BY DEF WalkRead, Collides, JobInv, TypeOK
<1>3. /\ seen \subseteq Pages /\ job.seen \subseteq seen
      /\ \A g \in seen :
           \/ g \in job.seen
           \/ /\ g.path = p /\ g.slug = SlugOf[p] /\ disk[p] \in Bodies
              /\ g = PageAt(p, disk[p])
  BY <1>2, PageRecord DEF JobInv, TypeOK
<1> HIDE DEF seen
<1>4. TypeOK'
  BY <1>1, <1>3 DEF JobInv, TypeOK
<1>5. JobOK'
  BY <1>1, NoJobFields DEF JobInv, TypeOK, JobOK
<1>6. WalkOK'
  <2>1. OfWalk'
    BY <1>1 DEF JobInv, TypeOK, OfWalk
  <2>2. /\ job'.pc = "walk" /\ job'.todo = job.todo \ {p} /\ job'.seen = seen
        /\ job'.left = job.left
    BY <1>1 DEF JobInv, TypeOK
  <2>3. p \in Walked
    BY <1>1 DEF JobInv, TypeOK
  <2>4. \A g \in seen : g.slug = SlugOf[g.path] /\ g.path \in Walked \ (job.todo \ {p})
    BY <1>3, <2>3 DEF JobInv, WalkOK
  <2>5. \A g, h \in seen : g.slug = h.slug => g = h
    BY <1>2, <1>3 DEF JobInv, WalkOK
  <2>6. \A g \in job.left : g \in seen /\ g.body # {}
    BY <1>3 DEF JobInv, WalkOK
  <2> QED
    BY <2>1, <2>2, <2>4, <2>5, <2>6 DEF WalkOK
<1> QED
  BY <1>4, <1>5, <1>6 DEF JobInv

\* rebuild goes from the walk to the pages, and from one page to the next.
LEMMA PagesJob ==
  ASSUME JobInv, RebuildWalked \/ NextPage
  PROVE  JobInv'
<1>1. /\ up = "starting" /\ job.todo = {} /\ job.pc \in {"walk", "pages"}
      /\ UNCHANGED <<disk, edits, up, pending, store, graph, cache, failed, unseen>>
  BY NoJobFields DEF RebuildWalked, NextPage, JobInv, JobOK, WalkOK, TypeOK
<1>2. CASE RebuildWalked
  <2>1. job' = [job EXCEPT !.pc = "pages", !.left = {g \in job.seen : g.body # {}}]
    BY <1>2 DEF RebuildWalked
  <2>2. TypeOK'
    BY <1>1, <2>1 DEF JobInv, TypeOK, Phases
  <2>3. JobOK'
    BY <1>1, <2>1, NoJobFields DEF JobInv, TypeOK, JobOK
  <2>4. WalkOK'
    BY <1>1, <2>1 DEF JobInv, TypeOK, WalkOK, OfWalk
  <2> QED
    BY <2>2, <2>3, <2>4 DEF JobInv
<1>3. CASE NextPage
  <2>1. PICK g \in job.left : job' = [job EXCEPT !.pc = "sync", !.page = g, !.left = @ \ {g}]
    <3>1. First(job.left) \in job.left
      <4>1. PICK n \in {h.path : h \in job.left} : \A m \in {h.path : h \in job.left} : n <= m
        <5>1. {h.path : h \in job.left} # {} /\ {h.path : h \in job.left} \subseteq Nat
          BY <1>3, PathsAssumption DEF NextPage, JobInv, TypeOK, Pages
        <5> QED
          BY <5>1, LeastNumber
      <4>2. \E g \in job.left : \A h \in job.left : g.path <= h.path
        BY <4>1
      <4> QED
        BY <4>2 DEF First
    <3> QED
      BY <1>3, <3>1 DEF NextPage
  <2>2. g \in Pages /\ g \in job.seen /\ g.body # {}
    BY DEF JobInv, TypeOK, WalkOK
  <2>3. TypeOK'
    BY <1>1, <2>1, <2>2 DEF JobInv, TypeOK, Phases
  <2>4. JobOK'
    BY <1>1, <2>1, <2>2, NoJobFields DEF JobInv, TypeOK, JobOK
  <2>5. WalkOK'
    BY <1>1, <2>1 DEF JobInv, TypeOK, WalkOK, OfWalk
  <2> QED
    BY <2>3, <2>4, <2>5 DEF JobInv
<1> QED
  BY <1>2, <1>3

\* The graph of the pages that a walk has read, and a vector for each node.
LEMMA NodesOfSeen ==
  ASSUME JobInv, NEW s \in Slugs
  PROVE  /\ Nodes(job.seen) \in [Slugs -> Bodies \cup {None}]
         /\ \A g \in job.seen : g.slug = s => Nodes(job.seen)[s] = g.body
         /\ (\A g \in job.seen : g.slug # s) => Nodes(job.seen)[s] = None
         /\ \A h : AllVectors(h)[s] = IF h[s] = None THEN None ELSE VectorOf(s)
<1>1. \A r \in Slugs, g \in job.seen : g.slug = r =>
        (CHOOSE h \in job.seen : h.slug = r) = g
  BY DEF JobInv, WalkOK
<1>2. \A g \in job.seen : g.body \in Bodies
  BY DEF JobInv, TypeOK, Pages
<1> QED
  BY <1>1, <1>2 DEF Nodes, AllVectors

LEMMA VectorsTyped ==
  ASSUME JobInv
  PROVE  \A h : AllVectors(h) \in [Slugs -> (SUBSET [idx : Idxs, sum : Sums]) \cup {None}]
BY VectorTyped DEF AllVectors, JobInv, TypeOK

LEMMA FinishJob ==
  ASSUME JobInv, FinishReindex \/ FinishRebuild
  PROVE  JobInv'
<1>1. /\ job' = NoJob /\ UNCHANGED <<disk, edits, pending, store, unseen>>
      /\ failed' \subseteq failed /\ graph' = Nodes(job.seen)
      /\ (up' = "up" /\ up = "up") \/ up' = "rebuilt"
  BY DEF FinishReindex, FinishRebuild
<1>2. graph' \in [Slugs -> Bodies \cup {None}]
  <2>1. \A g \in job.seen : g.body \in Bodies
    BY DEF JobInv, TypeOK, Pages
  <2>2. \A s \in Slugs : Nodes(job.seen)[s] \in Bodies \cup {None}
    BY <2>1 DEF Nodes
  <2> QED
    BY <1>1, <2>2 DEF Nodes
<1>3. cache' \in [Slugs -> (SUBSET [idx : Idxs, sum : Sums]) \cup {None}]
  <2>1. CASE FinishRebuild
    BY <2>1, VectorsTyped DEF FinishRebuild
  <2>2. CASE FinishReindex
    <3>1. VectorOf(SlugOf[job.path]) \in (SUBSET [idx : Idxs, sum : Sums]) \cup {None}
      BY <2>2, UpJob, PathsAssumption, VectorTyped DEF FinishReindex, JobInv, TypeOK
    <3>2. \/ cache' = [cache EXCEPT ![SlugOf[job.path]] = VectorOf(SlugOf[job.path])]
          \/ cache' = AllVectors(graph')
      BY <2>2 DEF FinishReindex
    <3> QED
      BY <3>1, <3>2, VectorsTyped DEF JobInv, TypeOK
  <2> QED
    BY <2>1, <2>2
<1>4. TypeOK'
  BY <1>1, <1>2, <1>3, NoJobFields DEF JobInv, TypeOK
<1>5. JobOK' /\ WalkOK'
  BY <1>1, NoJobFields DEF JobOK, WalkOK, OfWalk
<1> QED
  BY <1>4, <1>5 DEF JobInv

LEMMA StepJob == JobInv /\ [Next]_vars => JobInv'
<1> SUFFICES ASSUME JobInv, [Next]_vars PROVE JobInv'
  OBVIOUS
<1>1. CASE UNCHANGED vars
  BY <1>1 DEF vars, JobInv, TypeOK, JobOK, WalkOK, OfWalk
<1>2. ASSUME NEW p \in Paths, NEW c \in Bodies \cup {Absent, Oversize}, Edit(p, c)
      PROVE  JobInv'
  BY <1>2, NoticeJob DEF Edit, JobInv, TypeOK
<1>3. ASSUME NEW p \in Paths, NEW q \in Paths, Move(p, q)
      PROVE  JobInv'
  <2>1. disk' \in [Paths -> Bodies \cup {Absent, Oversize}]
    BY <1>3 DEF Move, JobInv, TypeOK
  <2>2. {p, q} \in SUBSET Paths /\ Notice({p, q})
    BY <1>3 DEF Move
  <2> QED
    BY <2>1, <2>2, NoticeJob
<1>4. CASE Start \/ StartWatcher
  BY <1>4, StartJob
<1>5. CASE Crash
  BY <1>5, GoDownJob DEF Crash
<1>6. CASE Fail \/ \E p \in Paths : WalkRaises(p)
  BY <1>6, JobRaisesJob DEF Fail, WalkRaises, NextFile
<1>7. ASSUME NEW p \in Paths, Deliver(p) \/ WalkRead(p)
      PROVE  JobInv'
  BY <1>7, DeliverJob, WalkReadJob
<1>8. CASE ReadChanged \/ PageSynced \/ ListVault
  BY <1>8, ReadChangedJob, PageSyncedJob, ListVaultJob
<1>9. CASE \/ \E i \in Idxs : DropGone(i)
           \/ \E i \in Idxs, c \in Sums : UpsertChanged([idx |-> i, sum |-> c])
           \/ \E s \in Slugs : Prune(s)
  BY <1>9, WriteJob
<1>10. CASE RebuildWalked \/ NextPage
  BY <1>10, PagesJob
<1>11. CASE FinishReindex \/ FinishRebuild
  BY <1>11, FinishJob
<1> QED
  BY <1>1, <1>2, <1>3, <1>4, <1>5, <1>6, <1>7, <1>8, <1>9, <1>10, <1>11
     DEF Next, Work
-----------------------------------------------------------------------------
(* The rest of Inv, when every file has a stem of its own. *)

\* The parts of Inv that are about the store are kept by a step that leaves it,
\* the graph and the cache alone, and settles no file.
LEMMA SameFacts ==
  ASSUME Inv, UNCHANGED <<disk, store, graph, cache>>,
         Served' => Served,
         \A p \in Paths : Unsettled(p) => Unsettled(p)',
         \A p \in Paths : p \in pending \cup failed \cup {job.path} =>
                            p \in pending' \cup failed' \cup {job'.path}
  PROVE  /\ InSync' /\ GraphOK' /\ CacheOK'
         /\ \A p \in Walked \cap Watched :
              disk'[p] = {} /\ ~ Unsettled(p)' => ChunksOf(SlugOf[p])' = {}
<1>1. \A s : ChunksOf(s)' = ChunksOf(s) /\ VectorOf(s)' = VectorOf(s)
  BY DEF ChunksOf, VectorOf
<1>2. InSync'
  BY <1>1, WalkAssumption DEF Inv, StoreOK, InSync
<1>3. GraphOK'
  BY WalkAssumption DEF Inv, GraphOK
<1>4. CacheOK'
  BY <1>1, WalkAssumption DEF Inv, CacheOK
<1> QED
  BY <1>1, <1>2, <1>3, <1>4, WalkAssumption DEF Inv, StoreOK

LEMMA InitRest == Init => SeenIsOnDisk /\ StoreOK /\ GraphOK /\ CacheOK
<1> SUFFICES ASSUME Init PROVE SeenIsOnDisk /\ StoreOK /\ GraphOK /\ CacheOK
  OBVIOUS
<1>1. /\ up = "down" /\ job.pc = "idle" /\ unseen = Paths
      /\ \A s \in Slugs : graph[s] = None
  BY NoJobFields DEF Init
<1>2. \A p \in Walked : Unsettled(p)
  BY <1>1, WalkAssumption DEF Unsettled
<1>3. SeenIsOnDisk
  BY <1>1 DEF SeenIsOnDisk, OfWalk
<1>4. StoreOK
  BY <1>1, <1>2 DEF StoreOK, InSync, Served
<1> QED
  BY <1>1, <1>3, <1>4 DEF GraphOK, CacheOK, Served

\* A change that the watcher or the next rebuild knows of spoils nothing.
LEMMA NoticeRest ==
  ASSUME Inv, NEW ps \in SUBSET Paths, Notice(ps),
         \A p \in Paths \ ps : disk'[p] = disk[p]
  PROVE  SeenIsOnDisk' /\ StoreOK' /\ GraphOK' /\ CacheOK'
<1>1. UNCHANGED <<up, job, store, graph, cache, failed>>
  BY DEF Notice
<1>2. \A p \in Watched : ~ Known(p)' => ~ Known(p) /\ disk'[p] = disk[p]
  BY WalkAssumption DEF Notice, Known
<1>3. \A p \in Watched : ~ Unsettled(p)' => ~ Unsettled(p) /\ disk'[p] = disk[p]
  BY WalkAssumption DEF Notice, Unsettled
<1>4. \A s : ChunksOf(s)' = ChunksOf(s) /\ VectorOf(s)' = VectorOf(s)
  BY <1>1 DEF ChunksOf, VectorOf
<1>5. up = "up" /\ job.pc # "idle" => job.path \in Watched /\ unseen' = unseen
  BY UpJob DEF Notice, Inv
<1>6. SeenIsOnDisk'
  BY <1>1, <1>2, <1>5 DEF Inv, SeenIsOnDisk, OfWalk
<1>7. StoreOK'
  <2>1. InSync'
    BY <1>1, <1>3, <1>4 DEF Inv, StoreOK, InSync, Served
  <2> QED
    BY <2>1, <1>1, <1>2, <1>3, <1>4, <1>5 DEF Inv, StoreOK, OnDisk
<1>8. GraphOK'
  BY <1>1, <1>3 DEF Inv, GraphOK, Served
<1>9. CacheOK'
  <2>1. pending \subseteq pending'
    BY DEF Notice
  <2> QED
    BY <1>1, <1>4, <2>1 DEF Inv, CacheOK, Served
<1> QED
  BY <1>6, <1>7, <1>8, <1>9

\* A process that goes down forgets all but the store, and remembers what it
\* had yet to do as changes that nobody saw.
LEMMA GoDownRest ==
  ASSUME Inv, GoDown
  PROVE  SeenIsOnDisk' /\ StoreOK' /\ GraphOK' /\ CacheOK'
<1>1. /\ up' = "down" /\ job' = NoJob /\ UNCHANGED <<disk, store>>
      /\ unseen' = unseen \cup pending \cup failed \cup ({job.path} \ {None})
      /\ graph' = [s \in Slugs |-> None]
  BY DEF GoDown
<1>2. \A p \in Walked \cap Watched : ~ Unsettled(p)' => ~ Unsettled(p)
  BY <1>1, PathsAssumption, WalkAssumption DEF Unsettled
<1>3. \A p \in Walked \cap Watched :
        disk'[p] = {} /\ ~ Unsettled(p)' => ChunksOf(SlugOf[p])' = {}
  BY <1>1, <1>2 DEF Inv, StoreOK, ChunksOf
<1>4. SeenIsOnDisk' /\ StoreOK'
  BY <1>1, <1>3, NoJobFields DEF SeenIsOnDisk, StoreOK, InSync, Served, OfWalk
<1> QED
  BY <1>1, <1>4 DEF GraphOK, CacheOK, Served

LEMMA StartRest ==
  ASSUME Inv, Start \/ StartWatcher
  PROVE  SeenIsOnDisk' /\ StoreOK' /\ GraphOK' /\ CacheOK'
<1>1. /\ UNCHANGED <<disk, edits, pending, store, graph, cache, failed, unseen>>
      /\ job.path = None /\ job'.path = None /\ job'.pc \in {"list", "idle"}
      /\ Served' => Served /\ job'.pc = "idle"
      /\ up' # "up" \/ job'.pc = "idle"
  BY NoJobFields DEF Start, StartWatcher, NoJob, Served, Inv, JobInv, JobOK
<1>2. /\ InSync' /\ GraphOK' /\ CacheOK'
      /\ \A p \in Walked \cap Watched :
           disk'[p] = {} /\ ~ Unsettled(p)' => ChunksOf(SlugOf[p])' = {}
  BY <1>1, SameFacts DEF Unsettled
<1>3. SeenIsOnDisk' /\ StoreOK'
  BY <1>1, <1>2 DEF SeenIsOnDisk, StoreOK, OfWalk
<1> QED
  BY <1>2, <1>3

\* A job that raises is known to have failed.
LEMMA JobRaisesRest ==
  ASSUME Inv, job.pc # "idle", JobRaises
  PROVE  SeenIsOnDisk' /\ StoreOK' /\ GraphOK' /\ CacheOK'
<1>1. CASE up = "starting"
  BY <1>1, GoDownRest DEF JobRaises
<1>2. CASE up # "starting"
  <2>1. /\ failed' = failed \cup {job.path} /\ job' = NoJob
        /\ UNCHANGED <<disk, edits, up, pending, store, graph, cache, unseen>>
    BY <1>2 DEF JobRaises
  <2>2. /\ InSync' /\ GraphOK' /\ CacheOK'
        /\ \A p \in Walked \cap Watched :
             disk'[p] = {} /\ ~ Unsettled(p)' => ChunksOf(SlugOf[p])' = {}
    BY <2>1, SameFacts DEF Unsettled, Served
  <2>3. SeenIsOnDisk' /\ StoreOK'
    BY <2>1, <2>2, NoJobFields DEF SeenIsOnDisk, StoreOK, OfWalk
  <2> QED
    BY <2>2, <2>3
<1> QED
  BY <1>1, <1>2

LEMMA DeliverRest ==
  ASSUME Inv, NEW p \in Paths, Deliver(p)
  PROVE  SeenIsOnDisk' /\ StoreOK' /\ GraphOK' /\ CacheOK'
<1>1. /\ up = "up" /\ job.path = None /\ job'.path = p /\ job'.pc = "changed"
      /\ pending' = pending \ {p}
      /\ UNCHANGED <<disk, edits, up, store, graph, cache, failed, unseen>>
  BY NoJobFields DEF Deliver, NoJob
<1>2. /\ InSync' /\ GraphOK' /\ CacheOK'
      /\ \A q \in Walked \cap Watched :
           disk'[q] = {} /\ ~ Unsettled(q)' => ChunksOf(SlugOf[q])' = {}
  BY <1>1, PathsAssumption, SameFacts DEF Unsettled, Served
<1>3. SeenIsOnDisk' /\ StoreOK'
  BY <1>1, <1>2 DEF SeenIsOnDisk, StoreOK, OfWalk
<1> QED
  BY <1>2, <1>3

\* A step of a job that writes the store spoils nothing, when it leaves alone
\* the chunks of every page but that of the changed file.
LEMMA WrittenRest ==
  ASSUME Inv, UNCHANGED <<disk, up, pending, graph, cache, failed>>,
         job'.path = job.path,
         \A q \in Paths : Unsettled(q) => Unsettled(q)',
         \A q \in Walked : Served /\ q # job.path =>
           ChunksOf(SlugOf[q])' = ChunksOf(SlugOf[q]),
         \A q \in Walked \cap Watched : disk[q] = {} /\ ~ Unsettled(q)' =>
           ChunksOf(SlugOf[q])' = ChunksOf(SlugOf[q]) \/ ChunksOf(SlugOf[q])' = {}
  PROVE  /\ InSync' /\ GraphOK' /\ CacheOK'
         /\ \A q \in Walked \cap Watched :
              disk'[q] = {} /\ ~ Unsettled(q)' => ChunksOf(SlugOf[q])' = {}
<1>1. \A q \in Walked \cap Watched : ~ Unsettled(q)' => ~ Unsettled(q) /\ q # job.path
  BY WalkAssumption DEF Unsettled
<1>2. InSync'
  BY <1>1 DEF Inv, StoreOK, InSync, Served
<1>3. GraphOK'
  BY <1>1 DEF Inv, GraphOK, Served
<1>4. CacheOK'
  BY DEF Inv, CacheOK, Served, VectorOf
<1>5. \A q \in Walked \cap Watched :
        disk'[q] = {} /\ ~ Unsettled(q)' => ChunksOf(SlugOf[q])' = {}
  BY <1>1 DEF Inv, StoreOK
<1> QED
  BY <1>2, <1>3, <1>4, <1>5

LEMMA ReadChangedRest ==
  ASSUME OwnStem, Inv, ReadChanged
  PROVE  SeenIsOnDisk' /\ StoreOK' /\ GraphOK' /\ CacheOK'
<1>a. job.pc = "changed" /\ up = "up"
  BY NoJobFields DEF ReadChanged, Inv, JobInv, JobOK, TypeOK
<1>0. PICK p \in Paths : p = job.path
  BY <1>a, UpJob DEF Inv
<1>1. /\ job.pc = "changed" /\ up = "up" /\ p \in Paths
      /\ UNCHANGED <<disk, edits, up, pending, graph, cache, failed>>
      /\ unseen' = unseen \ {p}
  BY <1>a, <1>0 DEF ReadChanged
<1>2. \/ /\ disk[p] \in {Absent, Oversize, {}}
         /\ store' = Table!DropSlug(store, SlugOf[p])
         /\ job' = [job EXCEPT !.pc = "list"]
      \/ /\ disk[p] \notin {Absent, Oversize, {}}
         /\ store' = store
         /\ job' = [job EXCEPT !.pc = "sync", !.page = PageAt(p, disk[p])]
  BY <1>0 DEF ReadChanged
<1>3. /\ job'.path = p /\ job'.pc \in {"list", "sync"}
      /\ job'.pc = "list" => disk[p] \in {Absent, Oversize, {}} /\ ChunksOf(SlugOf[p])' = {}
      /\ job'.pc = "sync" => disk[p] \in Bodies /\ job'.page = PageAt(p, disk[p])
  <2>1. job'.path = p
    BY <1>0, <1>2 DEF Inv, JobInv, TypeOK
  <2>2. store' = Table!DropSlug(store, SlugOf[p]) => ChunksOf(SlugOf[p])' = {}
    BY ChunksDropSlug
  <2>3. disk[p] \in Bodies \cup {Absent, Oversize}
    BY <1>1 DEF Inv, JobInv, TypeOK
  <2> QED
    BY <1>2, <2>1, <2>2, <2>3 DEF Inv, JobInv, TypeOK
<1>4. \A q \in Paths : q # p => ChunksOf(SlugOf[q])' = ChunksOf(SlugOf[q])
  <2>1. CASE store' = store
    BY <2>1 DEF ChunksOf
  <2>2. CASE store' = Table!DropSlug(store, SlugOf[p])
    BY <1>1, <2>2, ChunksDropSlug DEF OwnStem
  <2> QED
    BY <1>2, <2>1, <2>2
<1>5. \A q \in Paths : Unsettled(q) <=> Unsettled(q)'
  BY <1>0, <1>1, <1>3 DEF Unsettled
<1>6. ~ Unsettled(p)' => FALSE
  BY <1>3 DEF Unsettled
<1>7. /\ InSync' /\ GraphOK' /\ CacheOK'
      /\ \A q \in Walked \cap Watched :
           disk'[q] = {} /\ ~ Unsettled(q)' => ChunksOf(SlugOf[q])' = {}
  <2>1. \A q \in Walked \cap Watched : disk[q] = {} /\ ~ Unsettled(q)' =>
          ChunksOf(SlugOf[q])' = ChunksOf(SlugOf[q]) \/ ChunksOf(SlugOf[q])' = {}
    BY <1>4, <1>6, WalkAssumption
  <2> QED
    BY <1>0, <1>1, <1>3, <1>4, <1>5, <2>1, WalkAssumption, WrittenRest
<1>8. SeenIsOnDisk'
  <2>1. job'.pc = "sync" => job'.page.body = disk[p]
    BY <1>1, <1>3, PageRecord
  <2>2. ~ OfWalk'
    BY <1>1, <1>3 DEF OfWalk
  <2> QED
    BY <1>1, <1>3, <2>1, <2>2 DEF SeenIsOnDisk
<1>9. StoreOK'
  BY <1>1, <1>3, <1>7, Distinct DEF StoreOK, OnDisk
<1> QED
  BY <1>7, <1>8, <1>9

\* Only the chunks of the page being brought up to date are written.
LEMMA WriteRest ==
  ASSUME OwnStem, Inv,
         \/ \E i \in Idxs : DropGone(i)
         \/ \E i \in Idxs, c \in Sums : UpsertChanged([idx |-> i, sum |-> c])
  PROVE  SeenIsOnDisk' /\ StoreOK' /\ GraphOK' /\ CacheOK'
<1>1. /\ job.pc = "sync" /\ up \in {"starting", "up"}
      /\ UNCHANGED <<disk, edits, up, pending, job, graph, cache, failed, unseen>>
  BY NoJobFields DEF DropGone, UpsertChanged, Inv, JobInv, JobOK, TypeOK
<1>2. \A t : t # job.page.slug => ChunksOf(t)' = ChunksOf(t)
  <2>1. ASSUME NEW i \in Idxs, DropGone(i)
        PROVE  \A t : t # job.page.slug => ChunksOf(t)' = ChunksOf(t)
    BY <2>1, ChunksDropKey DEF DropGone
  <2>2. ASSUME NEW i \in Idxs, NEW c \in Sums, UpsertChanged([idx |-> i, sum |-> c])
        PROVE  \A t : t # job.page.slug => ChunksOf(t)' = ChunksOf(t)
    BY <2>2, ChunksPutIn DEF UpsertChanged
  <2> QED
    BY <2>1, <2>2
<1>3. job.page \in Pages
  BY <1>1 DEF Inv, JobInv, JobOK
<1>4. \A q \in Walked : Served /\ q # job.path =>
        ChunksOf(SlugOf[q])' = ChunksOf(SlugOf[q])
  <2>1. up = "up" => job.path \in Paths /\ job.page.slug = SlugOf[job.path]
    BY <1>1, <1>3, UpJob, PageRecord DEF Inv, JobInv, JobOK, Pages
  <2> QED
    BY <1>1, <1>2, <2>1, WalkAssumption DEF OwnStem, Served
<1>5. \A q \in Walked \cap Watched : disk[q] = {} /\ ~ Unsettled(q)' =>
        ChunksOf(SlugOf[q])' = ChunksOf(SlugOf[q])
  <2>1. CASE up = "up"
    BY <1>1, <1>4, <2>1 DEF Served, Unsettled
  <2>2. CASE up = "starting"
    <3>1. /\ job.page \in job.seen /\ job.page.body # {}
          /\ job.page.slug = SlugOf[job.page.path] /\ job.page.path \in Paths
      BY <1>1, <1>3, <2>2 DEF Inv, JobInv, JobOK, WalkOK, Pages
    <3>2. \A q \in Walked \cap Watched :
            disk[q] = {} /\ ~ Unsettled(q) => job.page.path # q
      BY <1>1, <2>2, <3>1 DEF Inv, SeenIsOnDisk, OfWalk, Known, Unsettled
    <3>3. \A q \in Walked \cap Watched :
            disk[q] = {} /\ ~ Unsettled(q) => SlugOf[q] # job.page.slug
      BY <3>1, <3>2, WalkAssumption DEF OwnStem
    <3> QED
      BY <1>1, <1>2, <3>3 DEF Unsettled
  <2> QED
    BY <1>1, <2>1, <2>2
<1>6. /\ InSync' /\ GraphOK' /\ CacheOK'
      /\ \A q \in Walked \cap Watched :
           disk'[q] = {} /\ ~ Unsettled(q)' => ChunksOf(SlugOf[q])' = {}
  BY <1>1, <1>4, <1>5, WrittenRest DEF Unsettled
<1>7. SeenIsOnDisk'
  BY <1>1 DEF Inv, SeenIsOnDisk, OfWalk, Known
<1>8. StoreOK'
  <2>1. up = "starting" =>
          \A g \in job.seen : g.body # {} =>
            g \in job.left \/ g = job.page \/ ChunksOf(g.slug)' = g.body
    BY <1>1, <1>2 DEF Inv, StoreOK, JobInv, JobOK, WalkOK
  <2> QED
    BY <1>1, <1>6, <2>1 DEF StoreOK
<1> QED
  BY <1>6, <1>7, <1>8

LEMMA PageSyncedRest ==
  ASSUME Inv, PageSynced
  PROVE  SeenIsOnDisk' /\ StoreOK' /\ GraphOK' /\ CacheOK'
<1>1. /\ job.pc = "sync" /\ up \in {"starting", "up"}
      /\ UNCHANGED <<disk, edits, up, pending, store, graph, cache, failed, unseen>>
      /\ job.page \in Pages
  BY NoJobFields DEF PageSynced, Inv, JobInv, JobOK, TypeOK
<1>2. /\ job'.path = job.path /\ job'.todo = job.todo /\ job'.seen = job.seen
      /\ job'.left = job.left
      /\ job'.pc = IF up = "starting" THEN "pages" ELSE "list"
  BY DEF PageSynced, Inv, JobInv, TypeOK
<1>3. /\ ChunksOf(job.page.slug) = job.page.body
      /\ \A s : ChunksOf(s)' = ChunksOf(s)
  BY <1>1, SyncedIsBody DEF PageSynced, Inv, JobInv, TypeOK, ChunksOf
<1>4. /\ InSync' /\ GraphOK' /\ CacheOK'
      /\ \A q \in Walked \cap Watched :
           disk'[q] = {} /\ ~ Unsettled(q)' => ChunksOf(SlugOf[q])' = {}
  BY <1>1, <1>2, SameFacts DEF Unsettled, Served
<1>5. SeenIsOnDisk'
  BY <1>1, <1>2 DEF Inv, SeenIsOnDisk, OfWalk, Known
<1>6. up = "up" /\ ~ Known(job.path) => ChunksOf(SlugOf[job.path]) = OnDisk(job.path)
  <2>1. up = "up" => /\ job.path \in Paths /\ job.page.slug = SlugOf[job.path]
                     /\ job.page.body \in Bodies
    BY <1>1, UpJob, PageRecord DEF Inv, JobInv, JobOK, Pages
  <2> QED
    BY <1>1, <1>3, <2>1 DEF Inv, SeenIsOnDisk, OnDisk
<1>7. StoreOK'
  <2>1. up = "starting" =>
          \A g \in job.seen : g.body # {} => g \in job.left \/ ChunksOf(g.slug) = g.body
    BY <1>1, <1>3 DEF Inv, StoreOK
  <2> QED
    BY <1>1, <1>2, <1>3, <1>4, <1>6, <2>1 DEF StoreOK, Known, OnDisk
<1> QED
  BY <1>4, <1>5, <1>7

LEMMA ListVaultRest ==
  ASSUME Inv, ListVault
  PROVE  SeenIsOnDisk' /\ StoreOK' /\ GraphOK' /\ CacheOK'
<1> DEFINE found == {p \in Walked : disk[p] # Absent}
<1>1. /\ job.pc = "list" /\ up \in {"starting", "up"} /\ job.seen = {}
      /\ UNCHANGED <<disk, edits, up, pending, store, graph, cache, failed>>
      /\ unseen' = IF up = "starting" THEN unseen \cap found ELSE unseen
      /\ job'.pc = "walk" /\ job'.path = job.path /\ job'.todo = found /\ job'.seen = {}
  BY NoJobFields DEF ListVault, Inv, JobInv, JobOK, WalkOK, OfWalk, TypeOK
<1>2. /\ \A p \in Walked : disk[p] \in Bodies => p \in found
      /\ \A p \in found : p \in unseen => p \in unseen'
  BY <1>1, Distinct
<1> HIDE DEF found
<1>3. /\ InSync' /\ GraphOK' /\ CacheOK'
      /\ \A q \in Walked \cap Watched :
           disk'[q] = {} /\ ~ Unsettled(q)' => ChunksOf(SlugOf[q])' = {}
  <2>1. CASE up = "up"
    BY <1>1, <2>1, SameFacts DEF Unsettled, Served
  <2>2. CASE up = "starting"
    <3>1. \A q \in Walked : disk[q] = {} /\ ~ Unsettled(q)' => ~ Unsettled(q)
      BY <1>1, <1>2, Distinct DEF Unsettled
    <3>2. \A s : ChunksOf(s)' = ChunksOf(s)
      BY <1>1 DEF ChunksOf
    <3> QED
      BY <1>1, <2>2, <3>1, <3>2 DEF Inv, StoreOK, InSync, GraphOK, CacheOK, Served
  <2> QED
    BY <1>1, <2>1, <2>2
<1>4. SeenIsOnDisk'
  BY <1>1, <1>2 DEF Inv, SeenIsOnDisk, OfWalk
<1>5. StoreOK'
  <2>1. \A s : ChunksOf(s)' = ChunksOf(s)
    BY <1>1 DEF ChunksOf
  <2> QED
    BY <1>1, <1>3, <2>1 DEF Inv, StoreOK, Known, OnDisk
<1> QED
  BY <1>3, <1>4, <1>5

\* What a walk reads of a file is what is on disk, until the file changes.
LEMMA WalkReadRest ==
  ASSUME Inv, NEW p \in Paths, WalkRead(p)
  PROVE  SeenIsOnDisk' /\ StoreOK' /\ GraphOK' /\ CacheOK'
<1>1. /\ job.pc = "walk" /\ up \in {"starting", "up"} /\ p \in job.todo /\ p \in Walked
      /\ UNCHANGED <<disk, edits, up, pending, store, graph, cache, failed>>
      /\ unseen' = IF up = "starting" /\ disk[p] # {} THEN unseen \ {p} ELSE unseen
      /\ job'.pc = "walk" /\ job'.path = job.path /\ job'.todo = job.todo \ {p}
      /\ job'.seen = IF disk[p] = Oversize THEN job.seen
                                           ELSE job.seen \cup {PageAt(p, disk[p])}
  BY NoJobFields DEF WalkRead, NextFile, Inv, JobInv, JobOK, TypeOK
<1>2. \A s : ChunksOf(s)' = ChunksOf(s)
  BY <1>1 DEF ChunksOf
<1>3. /\ InSync' /\ GraphOK' /\ CacheOK'
      /\ \A q \in Walked \cap Watched :
           disk'[q] = {} /\ ~ Unsettled(q)' => ChunksOf(SlugOf[q])' = {}
  <2>1. CASE up = "up"
    BY <1>1, <2>1, SameFacts DEF Unsettled, Served
  <2>2. CASE up = "starting"
    <3>1. \A q \in Walked : disk[q] = {} /\ ~ Unsettled(q)' => ~ Unsettled(q)
      BY <1>1 DEF Unsettled
    <3> QED
      BY <1>1, <1>2, <2>2, <3>1 DEF Inv, StoreOK, InSync, GraphOK, CacheOK, Served
  <2> QED
    BY <1>1, <2>1, <2>2
<1>4. \A q \in Walked \cap Watched : ~ Known(q)' =>
        /\ disk[q] \in Bodies => q \in job'.todo \/ PageAt(q, disk[q]) \in job'.seen
        /\ \A g \in job'.seen : g.path = q => g.body = disk[q]
  <2> SUFFICES ASSUME NEW q \in Walked \cap Watched, ~ Known(q)'
               PROVE  /\ disk[q] \in Bodies =>
                           q \in job'.todo \/ PageAt(q, disk[q]) \in job'.seen
                      /\ \A g \in job'.seen : g.path = q => g.body = disk[q]
    OBVIOUS
  <2>1. PageAt(p, disk[p]).path = p /\ PageAt(p, disk[p]).body = disk[p]
    BY DEF PageAt
  <2>2. CASE q = p
    <3>1. \A g \in job.seen : g.path # p
      BY <1>1 DEF Inv, JobInv, WalkOK
    <3> QED
      BY <1>1, <2>1, <2>2, <3>1, Distinct
  <2>3. CASE q # p
    <3>1. ~ Known(q)
      BY <1>1, <2>3 DEF Known
    <3>2. /\ disk[q] \in Bodies => q \in job.todo \/ PageAt(q, disk[q]) \in job.seen
          /\ \A g \in job.seen : g.path = q => g.body = disk[q]
      BY <1>1, <3>1 DEF Inv, SeenIsOnDisk, OfWalk
    <3> QED
      BY <1>1, <2>1, <2>3, <3>2
  <2> QED
    BY <2>2, <2>3
<1>5. SeenIsOnDisk'
  BY <1>1, <1>4 DEF Inv, SeenIsOnDisk
<1>6. StoreOK'
  BY <1>1, <1>2, <1>3 DEF Inv, StoreOK, Known, OnDisk
<1> QED
  BY <1>3, <1>5, <1>6

LEMMA PagesRest ==
  ASSUME Inv, RebuildWalked \/ NextPage
  PROVE  SeenIsOnDisk' /\ StoreOK' /\ GraphOK' /\ CacheOK'
<1>1. /\ up = "starting" /\ job.pc \in {"walk", "pages"}
      /\ UNCHANGED <<disk, edits, up, pending, store, graph, cache, failed, unseen>>
  BY NoJobFields DEF RebuildWalked, NextPage, Inv, JobInv, JobOK, TypeOK
<1>2. /\ job'.path = job.path /\ job'.todo = job.todo /\ job'.seen = job.seen
      /\ \/ job'.pc = "pages" /\ job'.left = {g \in job.seen : g.body # {}}
         \/ /\ job.pc = "pages" /\ job'.pc = "sync"
            /\ job'.left = job.left \ {job'.page}
  BY DEF RebuildWalked, NextPage, Inv, JobInv, TypeOK
<1>3. /\ InSync' /\ GraphOK' /\ CacheOK'
      /\ \A q \in Walked \cap Watched :
           disk'[q] = {} /\ ~ Unsettled(q)' => ChunksOf(SlugOf[q])' = {}
  BY <1>1, <1>2, SameFacts DEF Unsettled, Served
<1>4. SeenIsOnDisk'
  BY <1>1, <1>2 DEF Inv, SeenIsOnDisk, OfWalk, Known
<1>5. StoreOK'
  <2>1. \A s : ChunksOf(s)' = ChunksOf(s)
    BY <1>1 DEF ChunksOf
  <2>2. \A g \in job.seen : g.body # {} =>
          \/ g \in job'.left
          \/ job'.pc = "sync" /\ g = job'.page
          \/ ChunksOf(g.slug) = g.body
    BY <1>1, <1>2 DEF Inv, StoreOK
  <2> QED
    BY <1>1, <1>2, <1>3, <2>1, <2>2 DEF StoreOK
<1> QED
  BY <1>3, <1>4, <1>5

\* What rebuild prunes belongs to none of the pages it has read.
LEMMA PruneRest ==
  ASSUME Inv, NEW s \in Slugs, Prune(s)
  PROVE  SeenIsOnDisk' /\ StoreOK' /\ GraphOK' /\ CacheOK'
<1>1. /\ job.pc = "pages" /\ up = "starting" /\ s \in Stale
      /\ UNCHANGED <<disk, edits, up, pending, job, graph, cache, failed, unseen>>
      /\ store' = Table!DropSlug(store, s)
  BY NoJobFields DEF Prune, Inv, JobInv, JobOK, TypeOK
<1>2. ChunksOf(s)' = {} /\ \A t : t # s => ChunksOf(t)' = ChunksOf(t)
  BY <1>1, ChunksDropSlug
<1>3. /\ InSync' /\ GraphOK' /\ CacheOK'
      /\ \A q \in Walked \cap Watched :
           disk'[q] = {} /\ ~ Unsettled(q)' => ChunksOf(SlugOf[q])' = {}
  BY <1>1, <1>2, WrittenRest DEF Unsettled, Served
<1>4. SeenIsOnDisk'
  BY <1>1 DEF Inv, SeenIsOnDisk, OfWalk, Known
<1>5. StoreOK'
  <2>1. \A g \in job.seen : g.slug # s
    BY <1>1 DEF Stale
  <2> QED
    BY <1>1, <1>2, <1>3, <2>1 DEF Inv, StoreOK
<1> QED
  BY <1>3, <1>4, <1>5

\* A walk that has read every file has the graph of the vault as it is, but for
\* the files that are known to have changed.
LEMMA GraphOfWalk ==
  ASSUME OwnStem, Inv, OfWalk, job.todo = {}
  PROVE  /\ \A s \in Slugs : Nodes(job.seen)[s] # None => \E p \in Walked : SlugOf[p] = s
         /\ \A q \in Walked \cap Watched : ~ Known(q) =>
              Nodes(job.seen)[SlugOf[q]] = IF disk[q] \in Bodies THEN disk[q] ELSE None
<1>1. \A g \in job.seen : /\ g.slug = SlugOf[g.path] /\ g.path \in Walked
                          /\ g.slug \in Slugs /\ g.body \in Bodies
  BY DEF Inv, JobInv, TypeOK, WalkOK, Pages
<1>2. \A s \in Slugs : /\ \A g \in job.seen : g.slug = s => Nodes(job.seen)[s] = g.body
                       /\ (\A g \in job.seen : g.slug # s) => Nodes(job.seen)[s] = None
  BY NodesOfSeen DEF Inv
<1>3. ASSUME NEW s \in Slugs, Nodes(job.seen)[s] # None
      PROVE  \E p \in Walked : SlugOf[p] = s
  BY <1>1, <1>2, <1>3
<1>4. ASSUME NEW q \in Walked \cap Watched, ~ Known(q)
      PROVE  Nodes(job.seen)[SlugOf[q]] = IF disk[q] \in Bodies THEN disk[q] ELSE None
  <2>1. /\ disk[q] \in Bodies => PageAt(q, disk[q]) \in job.seen
        /\ \A g \in job.seen : g.path = q => g.body = disk[q]
    BY <1>4 DEF Inv, SeenIsOnDisk
  <2>2. q \in Paths /\ SlugOf[q] \in Slugs
    BY PathsAssumption, WalkAssumption
  <2>3. CASE disk[q] \in Bodies
    BY <1>2, <2>1, <2>2, <2>3, PageRecord
  <2>4. CASE disk[q] \notin Bodies
    <3>1. \A g \in job.seen : g.slug # SlugOf[q]
      BY <1>1, <2>1, <2>2, <2>4, WalkAssumption DEF OwnStem
    <3> QED
      BY <1>2, <2>2, <2>4, <3>1
  <2> QED
    BY <2>3, <2>4
<1> QED
  BY <1>3, <1>4

\* The end of reindex_page, whether the cache was warm or cold.
LEMMA FinishReindexRest ==
  ASSUME OwnStem, Inv, FinishReindex
  PROVE  SeenIsOnDisk' /\ StoreOK' /\ GraphOK' /\ CacheOK'
<1>a. job.pc = "walk" /\ job.todo = {} /\ up = "up" /\ OfWalk
  BY DEF FinishReindex, OfWalk
<1>b. PICK p \in Paths : p = job.path /\ p \in Watched
  BY <1>a, UpJob DEF Inv
<1>1. /\ UNCHANGED <<disk, edits, up, pending, store, unseen>>
      /\ graph' = Nodes(job.seen) /\ failed' = failed \ {p} /\ job' = NoJob
  BY <1>b DEF FinishReindex
<1>2. \A s : ChunksOf(s)' = ChunksOf(s) /\ VectorOf(s)' = VectorOf(s)
  BY <1>1 DEF ChunksOf, VectorOf
<1>3. \A q \in Walked \cap Watched : ~ Unsettled(q)' =>
        ~ Known(q) /\ (q = p \/ ~ Unsettled(q))
  BY <1>b, <1>1 DEF Unsettled, Known
<1>4. p \notin unseen /\ (~ Known(p) => ChunksOf(SlugOf[p]) = OnDisk(p))
  BY <1>a, <1>b DEF Inv, SeenIsOnDisk, StoreOK
<1>5. SeenIsOnDisk'
  BY <1>1, NoJobFields DEF SeenIsOnDisk, OfWalk
<1>6. StoreOK'
  <2>1. InSync'
    BY <1>1, <1>2, <1>3, <1>4, <1>a DEF Inv, StoreOK, InSync, Served, OnDisk
  <2>2. \A q \in Walked \cap Watched :
          disk'[q] = {} /\ ~ Unsettled(q)' => ChunksOf(SlugOf[q])' = {}
    BY <1>1, <1>2, <1>3, <1>4 DEF Inv, StoreOK, OnDisk
  <2> QED
    BY <1>1, <2>1, <2>2, NoJobFields DEF StoreOK
<1>7. GraphOK'
  BY <1>1, <1>3, <1>a, GraphOfWalk DEF GraphOK
<1>8. CacheOK'
  <2> SUFFICES ASSUME NEW q \in Walked, q \notin pending \cup (failed \ {p})
               PROVE  cache'[SlugOf[q]] = VectorOf(SlugOf[q])
    BY <1>1, <1>2 DEF CacheOK
  <2>1. q \in Paths /\ SlugOf[q] \in Slugs /\ SlugOf[p] \in Slugs
    BY PathsAssumption, WalkAssumption
  <2>2. q # p => SlugOf[q] # SlugOf[p] /\ cache[SlugOf[q]] = VectorOf(SlugOf[q])
    BY <1>a, <1>b, <2>1 DEF OwnStem, Inv, CacheOK, Served
  <2>3. CASE \E t \in Slugs : cache[t] # None
    <3>1. cache' = [cache EXCEPT ![SlugOf[p]] = VectorOf(SlugOf[p])]
      BY <1>b, <2>3 DEF FinishReindex
    <3> QED
      BY <2>1, <2>2, <3>1 DEF Inv, JobInv, TypeOK
  <2>4. CASE ~ \E t \in Slugs : cache[t] # None
    <3>1. cache'[SlugOf[q]] = IF graph'[SlugOf[q]] = None THEN None ELSE VectorOf(SlugOf[q])
      BY <2>1, <2>4 DEF FinishReindex, AllVectors
    <3>2. ASSUME graph'[SlugOf[q]] = None, q = p
          PROVE  VectorOf(SlugOf[q]) = None
      <4>1. ~ Known(q)
        BY <1>4, <3>2 DEF Known
      <4>2. disk[q] \notin Bodies
        BY <1>1, <1>a, <1>b, <3>2, <4>1, GraphOfWalk, Distinct
      <4> QED
        BY <1>4, <3>2, <4>1, <4>2 DEF OnDisk, VectorOf
    <3> QED
      BY <2>1, <2>2, <2>4, <3>1, <3>2
  <2> QED
    BY <2>3, <2>4
<1> QED
  BY <1>5, <1>6, <1>7, <1>8

\* The end of rebuild: every page read has its chunks, and no other has any.
LEMMA FinishRebuildRest ==
  ASSUME OwnStem, Inv, FinishRebuild
  PROVE  SeenIsOnDisk' /\ StoreOK' /\ GraphOK' /\ CacheOK'
<1>1. /\ job.pc = "pages" /\ job.left = {} /\ Stale = {} /\ up = "starting"
      /\ job.todo = {} /\ OfWalk /\ pending = {} /\ failed = {} /\ job.path = None
  BY NoJobFields DEF FinishRebuild, Inv, JobInv, JobOK, WalkOK, OfWalk, TypeOK
<1>2. /\ UNCHANGED <<disk, edits, pending, store, failed, unseen>>
      /\ graph' = Nodes(job.seen) /\ cache' = AllVectors(graph')
      /\ up' = "rebuilt" /\ job' = NoJob
  BY DEF FinishRebuild
<1>3. \A s : ChunksOf(s)' = ChunksOf(s) /\ VectorOf(s)' = VectorOf(s)
  BY <1>2 DEF ChunksOf, VectorOf
<1>4. \A q \in Paths : Unsettled(q)' => Unsettled(q)
  BY <1>1, <1>2, NoJobFields DEF Unsettled
<1>5. \A q \in Paths : Known(q) => Unsettled(q)'
  BY <1>2 DEF Known, Unsettled
<1>6. \A s \in Slugs : (\A g \in job.seen : g.slug # s) => ChunksOf(s) = {}
  BY <1>1 DEF Stale, ChunksOf
<1>7. \A q \in Walked \cap Watched : ~ Unsettled(q)' => ChunksOf(SlugOf[q]) = OnDisk(q)
  <2> SUFFICES ASSUME NEW q \in Walked \cap Watched, ~ Unsettled(q)'
               PROVE  ChunksOf(SlugOf[q]) = OnDisk(q)
    OBVIOUS
  <2>1. q \in Paths /\ SlugOf[q] \in Slugs /\ ~ Known(q)
    BY <1>5, PathsAssumption, WalkAssumption
  <2>2. /\ disk[q] \in Bodies => PageAt(q, disk[q]) \in job.seen
        /\ \A g \in job.seen : g.path = q => g.body = disk[q]
    BY <1>1, <2>1 DEF Inv, SeenIsOnDisk
  <2>3. CASE disk[q] = {}
    <3>1. ~ Unsettled(q)
      BY <1>1, <1>2, <2>1, PathsAssumption DEF Unsettled
    <3> QED
      BY <2>3, <3>1 DEF Inv, StoreOK, OnDisk
  <2>4. CASE disk[q] \in Bodies /\ disk[q] # {}
    BY <1>1, <2>1, <2>2, <2>4, PageRecord DEF Inv, StoreOK, OnDisk
  <2>5. CASE disk[q] \notin Bodies
    <3>1. \A g \in job.seen : g.slug # SlugOf[q]
      <4>1. \A g \in job.seen : g.slug = SlugOf[g.path] /\ g.path \in Paths /\ g.body \in Bodies
        BY WalkAssumption DEF Inv, JobInv, TypeOK, WalkOK, Pages
      <4> QED
        BY <2>1, <2>2, <2>5, <4>1 DEF OwnStem
    <3> QED
      BY <1>6, <2>1, <2>5, <3>1 DEF OnDisk
  <2> QED
    BY <2>3, <2>4, <2>5
<1>8. SeenIsOnDisk'
  BY <1>2, NoJobFields DEF SeenIsOnDisk, OfWalk
<1>9. StoreOK'
  <2>1. InSync'
    BY <1>2, <1>3, <1>7 DEF InSync, OnDisk
  <2>2. \A q \in Walked \cap Watched :
          disk'[q] = {} /\ ~ Unsettled(q)' => ChunksOf(SlugOf[q])' = {}
    BY <1>2, <1>3, <1>7 DEF OnDisk
  <2> QED
    BY <1>2, <2>1, <2>2, NoJobFields DEF StoreOK
<1>10. GraphOK'
  BY <1>1, <1>2, <1>5, GraphOfWalk, WalkAssumption DEF GraphOK
<1>11. CacheOK'
  <2>1. ASSUME NEW q \in Walked
        PROVE  cache'[SlugOf[q]] = VectorOf(SlugOf[q])
    <3>1. SlugOf[q] \in Slugs
      BY PathsAssumption, WalkAssumption
    <3>2. cache'[SlugOf[q]] = IF graph'[SlugOf[q]] = None THEN None ELSE VectorOf(SlugOf[q])
      BY <1>2, <3>1 DEF AllVectors
    <3>3. ASSUME graph'[SlugOf[q]] = None
          PROVE  VectorOf(SlugOf[q]) = None
      <4>1. \A g \in job.seen : g.slug = SlugOf[q] => graph'[SlugOf[q]] = g.body
        BY <1>2, <3>1, NodesOfSeen DEF Inv
      <4>2. \A g \in job.seen : g.body # None
        BY Distinct DEF Inv, JobInv, TypeOK, Pages
      <4> QED
        BY <1>6, <3>1, <3>3, <4>1, <4>2 DEF VectorOf
    <3> QED
      BY <3>2, <3>3
  <2> QED
    BY <1>3, <2>1 DEF CacheOK
<1> QED
  BY <1>8, <1>9, <1>10, <1>11

LEMMA StepRest ==
  ASSUME OwnStem, Inv, [Next]_vars
  PROVE  Inv'
<1>1. JobInv'
  BY StepJob DEF Inv
<1>2. SeenIsOnDisk' /\ StoreOK' /\ GraphOK' /\ CacheOK'
  <2>1. CASE UNCHANGED vars
    <3>1. \A s : ChunksOf(s)' = ChunksOf(s) /\ VectorOf(s)' = VectorOf(s)
      BY <2>1 DEF vars, ChunksOf, VectorOf
    <3>2. /\ InSync' /\ GraphOK' /\ CacheOK'
          /\ \A q \in Walked \cap Watched :
               disk'[q] = {} /\ ~ Unsettled(q)' => ChunksOf(SlugOf[q])' = {}
      BY <2>1, SameFacts DEF vars, Unsettled, Served
    <3>3. SeenIsOnDisk'
      BY <2>1 DEF vars, Inv, SeenIsOnDisk, OfWalk, Known
    <3>4. StoreOK'
      BY <2>1, <3>1, <3>2 DEF vars, Inv, StoreOK, Known, OnDisk
    <3> QED
      BY <3>2, <3>3, <3>4
  <2>2. ASSUME NEW p \in Paths, NEW c \in Bodies \cup {Absent, Oversize}, Edit(p, c)
        PROVE  SeenIsOnDisk' /\ StoreOK' /\ GraphOK' /\ CacheOK'
    <3>1. Notice({p}) /\ \A q \in Paths \ {p} : disk'[q] = disk[q]
      BY <2>2 DEF Edit, Inv, JobInv, TypeOK
    <3> QED
      BY <3>1, NoticeRest
  <2>3. ASSUME NEW p \in Paths, NEW q \in Paths, Move(p, q)
        PROVE  SeenIsOnDisk' /\ StoreOK' /\ GraphOK' /\ CacheOK'
    <3>1. Notice({p, q}) /\ \A r \in Paths \ {p, q} : disk'[r] = disk[r]
      BY <2>3 DEF Move, Inv, JobInv, TypeOK
    <3>2. {p, q} \in SUBSET Paths
      OBVIOUS
    <3> QED
      BY <3>1, <3>2, NoticeRest
  <2>4. CASE Start \/ StartWatcher
    BY <2>4, StartRest
  <2>5. CASE Crash
    BY <2>5, GoDownRest DEF Crash
  <2>6. CASE Fail \/ \E p \in Paths : WalkRaises(p)
    BY <2>6, JobRaisesRest DEF Fail, WalkRaises, NextFile
  <2>7. ASSUME NEW p \in Paths, Deliver(p) \/ WalkRead(p)
        PROVE  SeenIsOnDisk' /\ StoreOK' /\ GraphOK' /\ CacheOK'
    BY <2>7, DeliverRest, WalkReadRest
  <2>8. CASE ReadChanged \/ PageSynced \/ ListVault
    BY <2>8, ReadChangedRest, PageSyncedRest, ListVaultRest
  <2>9. CASE \/ \E i \in Idxs : DropGone(i)
             \/ \E i \in Idxs, c \in Sums : UpsertChanged([idx |-> i, sum |-> c])
    BY <2>9, WriteRest
  <2>10. CASE RebuildWalked \/ NextPage
    BY <2>10, PagesRest
  <2>11. ASSUME NEW s \in Slugs, Prune(s)
         PROVE  SeenIsOnDisk' /\ StoreOK' /\ GraphOK' /\ CacheOK'
    BY <2>11, PruneRest
  <2>12. CASE FinishReindex \/ FinishRebuild
    BY <2>12, FinishReindexRest, FinishRebuildRest
  <2> QED
    BY <2>1, <2>2, <2>3, <2>4, <2>5, <2>6, <2>7, <2>8, <2>9, <2>10, <2>11, <2>12
       DEF Next, Work
<1> QED
  BY <1>1, <1>2 DEF Inv
-----------------------------------------------------------------------------
\* Whatever the files' stems: job, store, graph and cache keep their types, and
\* a walk never holds two pages of one slug.
THEOREM JobInvariance == Spec => []JobInv
BY InitJob, StepJob, PTL DEF Spec

\* The vault, the job and what rebuild and reindex_page make of the vault keep
\* their types, also where stems collide.
THEOREM TypeCorrect == Spec => []TypeOK
<1>1. JobInv => TypeOK
  BY DEF JobInv
<1> QED
  BY <1>1, JobInvariance, PTL

\* Inv is inductive where each file has a stem of its own.
THEOREM Invariance == OwnStem /\ Spec => []Inv
<1> SUFFICES ASSUME OwnStem PROVE Spec => []Inv
  OBVIOUS
<1>1. Init => Inv
  BY InitJob, InitRest DEF Inv
<1>2. Inv /\ [Next]_vars => Inv'
  BY StepRest
<1> QED
  BY <1>1, <1>2, PTL DEF Spec

\* What has been processed is in the store chunk for chunk, through whatever
\* failures, crashes and rebuilds of rebuild, reindex_page and _index_page_chunks.
THEOREM StoreFollowsVault == OwnStem /\ Spec => []InSync
<1> SUFFICES ASSUME OwnStem PROVE Spec => []InSync
  OBVIOUS
<1>1. Inv => InSync
  BY DEF Inv, StoreOK
<1>2. Spec => []Inv
  BY Invariance
<1> QED
  BY <1>1, <1>2, PTL

\* With nothing left to process the graph is that of the vault, though each
\* walk of iter_pages read the files one after the other while they changed.
THEOREM GraphFollowsVault == OwnStem /\ Spec => []GraphInSync
<1> SUFFICES ASSUME OwnStem PROVE Spec => []GraphInSync
  OBVIOUS
<1>1. Inv => GraphInSync
  <2> SUFFICES ASSUME Inv, Served, job = NoJob, pending \cup failed \cup unseen = {},
                      NEW p \in Walked \cap Watched
               PROVE  graph[SlugOf[p]] = IF disk[p] \in Bodies THEN disk[p] ELSE None
    BY DEF GraphInSync
  <2>1. ~ Unsettled(p)
    BY NoJobFields, PathsAssumption, WalkAssumption DEF Unsettled
  <2> QED
    BY <2>1 DEF Inv, GraphOK
<1>2. Spec => []Inv
  BY Invariance
<1> QED
  BY <1>1, <1>2, PTL

\* The vector that reindex_page keeps in the cache for a page is the one that
\* compute_page_vectors would pool from the store.
THEOREM CachedVectorsAreFresh == OwnStem /\ Spec => []CacheFresh
<1> SUFFICES ASSUME OwnStem PROVE Spec => []CacheFresh
  OBVIOUS
<1>1. Inv => CacheFresh
  <2> SUFFICES ASSUME Inv, Served, job = NoJob, NEW s \in Slugs, graph[s] # None,
                      \A p \in pending \cup failed : SlugOf[p] # s
               PROVE  cache[s] = VectorOf(s)
    BY DEF CacheFresh
  <2>1. PICK p \in Walked : SlugOf[p] = s
    BY DEF Inv, GraphOK
  <2>2. p \notin pending \cup failed \cup {job.path}
    BY <2>1, NoJobFields, PathsAssumption, WalkAssumption
  <2> QED
    BY <2>1, <2>2 DEF Inv, CacheOK
<1>2. Spec => []Inv
  BY Invariance
<1> QED
  BY <1>1, <1>2, PTL
=============================================================================
