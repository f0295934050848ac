------------------------------ MODULE Indexer ------------------------------
(***************************************************************************)
(* indexer.py, with the vault it reads (vault_reader.py) and the service   *)
(* that drives it: `rebuild` when the service starts, `reindex_page(path)` *)
(* for every change the watcher reports.  One job runs at a time, under    *)
(* the service's lock; files change at any moment, also while a job reads  *)
(* them.                                                                   *)
(*                                                                         *)
(* The three tables of the store are one table here (module VecStore shows *)
(* when that is right); each call on it is one committed step.  A body is  *)
(* the set of its chunks, [idx, sum].  The vector of a page is determined  *)
(* by the chunks it is pooled from and is represented by them; the graph   *)
(* by the pages it was built from.  The watcher's timers are the set       *)
(* `pending` (module Watcher has them one by one).                         *)
(***************************************************************************)
EXTENDS Integers, FiniteSets

CONSTANTS Paths,    \* markdown files; numbers, in the order of sorted()
          SlugOf,   \* file stem of each
          Walked,   \* files that iter_pages does not exclude
          Watched,  \* files under wiki/ or raw/
          Slugs, Idxs, Sums,
          Bodies,   \* what a file may hold: sets of chunks
          Absent, Oversize, None,
          MaxEdits  \* bound: file changes in a behaviour

ASSUME PathsAssumption ==
  Paths \subseteq Nat /\ None \notin Paths /\ SlugOf \in [Paths -> Slugs]
ASSUME WalkAssumption == Walked \subseteq Paths /\ Watched \subseteq Paths
ASSUME BodiesAssumption ==
  /\ Bodies \subseteq SUBSET [idx : Idxs, sum : Sums]
  /\ \A b \in Bodies : \A x, y \in b : x.idx = y.idx => x = y
  /\ {} \in Bodies /\ Absent \notin Bodies /\ Oversize \notin Bodies
  /\ Absent # Oversize /\ None \notin Bodies /\ None \notin Slugs
ASSUME EditsAssumption == MaxEdits \in Nat

VARIABLES disk,     \* the file at each path
          edits,    \* how many changes there were
          up,       \* "down", "starting" (rebuild), "rebuilt", "up" (watching)
          pending,  \* files whose change the watcher has yet to deliver
          job,      \* the rebuild or reindex in progress
          store,    \* the vector store
          graph,    \* slug -> the body its node was built from, or None
          cache,    \* slug -> page vector, or None
          failed,   \* files whose last reindex_page raised (logged, dropped)
          unseen    \* files changed with no watcher running, since last indexed

vars == <<disk, edits, up, pending, job, store, graph, cache, failed, unseen>>

Table == INSTANCE ChunkTable WITH table <- store

Pages == [path : Paths, slug : Slugs, body : Bodies]
PageAt(p, b) == [path |-> p, slug |-> SlugOf[p], body |-> b]

\* pc: where the job is; path: the file reindex_page was called for; page: the
\* page whose chunks are being brought up to date; todo: files the walk has
\* yet to read; seen: pages it has read; left: pages rebuild has yet to index.
NoJob == [pc |-> "idle", path |-> None, page |-> None,
          todo |-> {}, seen |-> {}, left |-> {}]
Phases == {"idle", "changed", "sync", "list", "walk", "pages"}

TypeOK ==
  /\ disk \in [Paths -> Bodies \cup {Absent, Oversize}]
  /\ edits \in 0..MaxEdits
  /\ up \in {"down", "starting", "rebuilt", "up"}
  /\ pending \subseteq Watched
  /\ job \in [pc : Phases, path : Paths \cup {None}, page : Pages \cup {None},
              todo : SUBSET Walked, seen : SUBSET Pages, left : SUBSET Pages]
  /\ Table!IsTable(store)
  /\ graph \in [Slugs -> Bodies \cup {None}]
  /\ cache \in [Slugs -> (SUBSET [idx : Idxs, sum : Sums]) \cup {None}]
  /\ failed \subseteq Paths
  /\ unseen \subseteq Paths
-----------------------------------------------------------------------------
\* What the store holds for a slug: get_checksums, iter_chunks_for_page.
ChunksOf(s) == {[idx |-> e.idx, sum |-> e.sum] : e \in {f \in store : f.slug = s}}

\* page_vector_from_chunks: no vector without chunks.
VectorOf(s) == IF ChunksOf(s) = {} THEN None ELSE ChunksOf(s)

First(pages) == CHOOSE g \in pages : \A h \in pages : g.path <= h.path

Nodes(pages) == [s \in Slugs |->
  IF \E g \in pages : g.slug = s
    THEN (CHOOSE g \in pages : g.slug = s).body
    ELSE None]

\* compute_page_vectors reads the vectors of the nodes of the graph.
AllVectors(g) == [s \in Slugs |-> IF g[s] = None THEN None ELSE VectorOf(s)]

Init == /\ disk \in [Paths -> Bodies \cup {Absent, Oversize}]
        /\ edits = 0
        /\ up = "down"
        /\ pending = {} /\ failed = {} /\ unseen = Paths
        /\ job = NoJob
        /\ store = {}
        /\ graph = [s \in Slugs |-> None]
        /\ cache = [s \in Slugs |-> None]
-----------------------------------------------------------------------------
(* The vault changes. *)

\* What watchdog and the watcher's filter make of a change at the paths ps.
Notice(ps) ==
  /\ edits < MaxEdits
  /\ edits' = edits + 1
  /\ IF up = "up" THEN pending' = pending \cup (ps \cap Watched) /\ UNCHANGED unseen
                  ELSE unseen' = unseen \cup ps /\ UNCHANGED pending
  /\ UNCHANGED <<up, job, store, graph, cache, failed>>

\* A file is written or deleted.
Edit(p, c) == /\ disk[p] # c
              /\ disk' = [disk EXCEPT ![p] = c]
              /\ Notice({p})

\* A file is renamed: on_moved emits the source and the destination.
Move(p, q) == /\ p # q /\ disk[p] # Absent
              /\ disk' = [disk EXCEPT ![p] = Absent, ![q] = disk[p]]
              /\ Notice({p, q})
-----------------------------------------------------------------------------
(* The service around the indexer. *)

Start == /\ up = "down"
         /\ up' = "starting"
         /\ job' = [NoJob EXCEPT !.pc = "list"]
         /\ UNCHANGED <<disk, edits, pending, store, graph, cache, failed, unseen>>

\* watcher.start, after the rebuild has returned.
StartWatcher == /\ up = "rebuilt"
                /\ up' = "up"
                /\ UNCHANGED <<disk, edits, pending, job, store, graph, cache,
                               failed, unseen>>

\* The process stops or dies: only the store is on disk.
GoDown == /\ up' = "down"
          /\ job' = NoJob
          /\ pending' = {} /\ failed' = {}
          /\ unseen' = unseen \cup pending \cup failed \cup ({job.path} \ {None})
          /\ graph' = [s \in Slugs |-> None]
          /\ cache' = [s \in Slugs |-> None]
          /\ UNCHANGED <<disk, edits, store>>

Crash == up # "down" /\ GoDown

\* A job raises.  _on_change logs it and drops the change; start lets it out.
JobRaises ==
  IF up = "starting" THEN GoDown
  ELSE /\ failed' = failed \cup {job.path}
       /\ job' = NoJob
       /\ UNCHANGED <<disk, edits, up, pending, store, graph, cache, unseen>>

\* Not the code: a timer record that is never popped.
DeliverKeepsTimer(p) == /\ up = "up" /\ job = NoJob
                        /\ p \in pending
                        /\ job' = [NoJob EXCEPT !.pc = "changed", !.path = p]
                        /\ UNCHANGED <<disk, edits, up, pending, store, graph,
                                       cache, failed, unseen>>

\* _fire, then _on_change: the record of the change goes before the job starts.
Deliver(p) == /\ up = "up" /\ job = NoJob
              /\ p \in pending
              /\ pending' = pending \ {p}
              /\ job' = [NoJob EXCEPT !.pc = "changed", !.path = p]
              /\ UNCHANGED <<disk, edits, up, store, graph, cache, failed, unseen>>
-----------------------------------------------------------------------------
(* Bringing one page up to date. *)

\* Not the code: returning once a deleted page has left the store.
ReadChangedNoWalk ==
  /\ job.pc = "changed"
  /\ LET c == disk[job.path]
     IN IF c \in {Absent, Oversize, {}}
          THEN /\ store' = Table!DropSlug(store, SlugOf[job.path])
               /\ job' = NoJob
          ELSE /\ job' = [job EXCEPT !.pc = "sync", !.page = PageAt(job.path, c)]
               /\ UNCHANGED store
  /\ unseen' = unseen \ {job.path}
  /\ UNCHANGED <<disk, edits, up, pending, graph, cache, failed>>

\* reindex_page, first half: a file that is gone, oversize or without chunks
\* loses what its slug had in the store.
ReadChanged ==
  /\ job.pc = "changed"
  /\ LET c == disk[job.path]
         dropped == c \in {Absent, Oversize, {}}
     IN IF dropped
          THEN /\ store' = Table!DropSlug(store, SlugOf[job.path])
               /\ job' = [job EXCEPT !.pc = "list"]
          ELSE /\ job' = [job EXCEPT !.pc = "sync", !.page = PageAt(job.path, c)]
               /\ UNCHANGED store
  /\ unseen' = unseen \ {job.path}
  /\ UNCHANGED <<disk, edits, up, pending, graph, cache, failed>>

GoneNone(g) == {}  \* Not the code: only changed chunks are looked at.

\* Indexes the store has and the page has no more.
Gone(g) == {x.idx : x \in ChunksOf(g.slug)} \ {x.idx : x \in g.body}

\* _index_page_chunks, first loop.
DropGone(i) ==
  /\ job.pc = "sync"
  /\ i \in Gone(job.page)
  /\ store' = Table!DropKey(store, job.page.slug, i)
  /\ UNCHANGED <<disk, edits, up, pending, job, graph, cache, failed, unseen>>

\* _index_page_chunks, second loop: the changed chunks in order, each its own
\* transaction, after all of them have been encoded.
UpsertChanged(x) ==
  /\ job.pc = "sync"
  /\ Gone(job.page) = {}
  /\ LET changed == job.page.body \ ChunksOf(job.page.slug)
     IN x \in changed /\ \A y \in changed : x.idx <= y.idx
  /\ store' = Table!PutIn(store, job.page.slug, x.idx, x.sum)
  /\ UNCHANGED <<disk, edits, up, pending, job, graph, cache, failed, unseen>>

\* The page is done: reindex_page goes on to the walk, rebuild to the next page.
PageSynced ==
  /\ job.pc = "sync"
  /\ Gone(job.page) = {} /\ job.page.body \subseteq ChunksOf(job.page.slug)
  /\ job' = [job EXCEPT !.page = None,
                        !.pc = IF up = "starting" THEN "pages" ELSE "list"]
  /\ UNCHANGED <<disk, edits, up, pending, store, graph, cache, failed, unseen>>

\* The disk, the embedder or the database fails a job under way.
Fail == /\ job.pc \in {"changed", "sync", "walk", "pages"}
        /\ JobRaises
-----------------------------------------------------------------------------
(* iter_pages. *)

\* sorted(vault_path.rglob("*.md")), less the excluded directories.
ListVault ==
  LET found == {p \in Walked : disk[p] # Absent}
  IN /\ job.pc = "list"
     /\ job' = [job EXCEPT !.pc = "walk", !.todo = found]
     /\ unseen' = IF up = "starting" THEN unseen \cap found ELSE unseen
     /\ UNCHANGED <<disk, edits, up, pending, store, graph, cache, failed>>

NextFile(p) == /\ job.pc = "walk"
               /\ p \in job.todo /\ \A q \in job.todo : p <= q

Collides(p) == \E g \in job.seen : g.slug = SlugOf[p]

\* The file has gone since it was listed (FileNotFoundError is not the
\* ValueError that iter_pages expects), or its stem was seen already.
WalkRaises(p) ==
  /\ NextFile(p)
  /\ disk[p] = Absent \/ (disk[p] \in Bodies /\ Collides(p))
  /\ JobRaises

WalkRead(p) ==
  /\ NextFile(p)
  /\ disk[p] # Absent
  /\ disk[p] \in Bodies => ~ Collides(p)
  /\ job' = [job EXCEPT
               !.todo = @ \ {p},
               !.seen = IF disk[p] = Oversize THEN @ ELSE @ \cup {PageAt(p, disk[p])}]
  \* rebuild indexes what it reads here, unless the page has no chunks
  /\ unseen' = IF up = "starting" /\ disk[p] # {} THEN unseen \ {p} ELSE unseen
  /\ UNCHANGED <<disk, edits, up, pending, store, graph, cache, failed>>

\* rebuild: `if chunks:` leaves the pages without chunks out.
RebuildWalked ==
  /\ job.pc = "walk" /\ job.todo = {} /\ up = "starting"
  /\ job' = [job EXCEPT !.pc = "pages", !.left = {g \in job.seen : g.body # {}}]
  /\ UNCHANGED <<disk, edits, up, pending, store, graph, cache, failed, unseen>>

\* Not the code: a warm cache is used as it is.
FinishReindexCached ==
  /\ job.pc = "walk" /\ job.todo = {} /\ up = "up"
  /\ graph' = Nodes(job.seen)
  /\ cache' = IF \E t \in Slugs : cache[t] # None THEN cache
                                                 ELSE AllVectors(graph')
  /\ failed' = failed \ {job.path}
  /\ job' = NoJob
  /\ UNCHANGED <<disk, edits, up, pending, store, unseen>>

\* The end of reindex_page: the graph of the walk, and a vector for the slug of
\* the changed file only, unless there are no vectors yet.  (One step: a job that
\* raises between the two has a change that failed, as one that raises before.)
FinishReindex ==
  /\ job.pc = "walk" /\ job.todo = {} /\ up = "up"
  /\ LET s == SlugOf[job.path]
     IN /\ graph' = Nodes(job.seen)
        /\ cache' = IF \E t \in Slugs : cache[t] # None
                      THEN [cache EXCEPT ![s] = VectorOf(s)]
                      ELSE AllVectors(graph')
        /\ failed' = failed \ {job.path}
  /\ job' = NoJob
  /\ UNCHANGED <<disk, edits, up, pending, store, unseen>>
-----------------------------------------------------------------------------
(* rebuild, after its walk. *)

NextPage ==
  /\ job.pc = "pages" /\ job.left # {}
  /\ LET g == First(job.left)
     IN job' = [job EXCEPT !.pc = "sync", !.page = g, !.left = @ \ {g}]
  /\ UNCHANGED <<disk, edits, up, pending, store, graph, cache, failed, unseen>>

\* all_slugs() - {p.slug for p in pages}
Stale == {e.slug : e \in store} \ {g.slug : g \in job.seen}

Prune(s) ==
  /\ job.pc = "pages" /\ job.left = {}
  /\ s \in Stale
  /\ store' = Table!DropSlug(store, s)
  /\ UNCHANGED <<disk, edits, up, pending, job, graph, cache, failed, unseen>>

FinishRebuild ==
  /\ job.pc = "pages" /\ job.left = {} /\ Stale = {}
  /\ graph' = Nodes(job.seen)
  /\ cache' = AllVectors(graph')
  /\ up' = "rebuilt"
  /\ job' = NoJob
  /\ UNCHANGED <<disk, edits, pending, store, failed, unseen>>
-----------------------------------------------------------------------------
\* What runs by itself once the service has been started.
Work == \/ StartWatcher
        \/ \E p \in Paths : Deliver(p) \/ WalkRead(p) \/ WalkRaises(p)
        \/ ReadChanged
        \/ \E i \in Idxs : DropGone(i)
        \/ \E i \in Idxs, c \in Sums : UpsertChanged([idx |-> i, sum |-> c])
        \/ PageSynced
        \/ ListVault
        \/ RebuildWalked
        \/ FinishReindex
        \/ NextPage
        \/ \E s \in Slugs : Prune(s)
        \/ FinishRebuild

Next == \/ \E p \in Paths, c \in Bodies \cup {Absent, Oversize} : Edit(p, c)
        \/ \E p, q \in Paths : Move(p, q)
        \/ Start
        \/ Crash
        \/ Fail
        \/ Work

Spec == Init /\ [][Next]_vars

\* Timer threads and the thread that starts the service run on; they are only
\* serialised by the lock, which each holder releases.
FairSpec == Spec /\ WF_vars(Work)
-----------------------------------------------------------------------------
Served == up \in {"rebuilt", "up"}

\* Changes that the store need not show yet: being delivered or processed,
\* raised and logged, or made while nobody watched.
Unsettled(p) == p \in pending \cup failed \cup unseen \cup {job.path}

\* A page of the vault whose change has been processed is in the store as it is
\* on disk, chunk for chunk, whatever jobs on other pages, failures, crashes
\* and rebuilds there were since.  (Each file has its own stem.)
InSync == Served => \A p \in Walked \cap Watched : ~ Unsettled(p) =>
            ChunksOf(SlugOf[p]) = IF disk[p] \in Bodies THEN disk[p] ELSE {}

\* When nothing is left to process, the graph was built from the vault as it is,
\* though every job reads the files one after the other while they change.
GraphInSync ==
  (Served /\ job = NoJob /\ pending \cup failed \cup unseen = {}) =>
    \A p \in Walked \cap Watched :
      graph[SlugOf[p]] = IF disk[p] \in Bodies THEN disk[p] ELSE None

\* Between jobs the cached vector of a page in the graph is the one that a cold
\* rebuild would compute, unless a change of the page itself is still to be
\* delivered or has raised: the fast path changes no result.
CacheFresh ==
  (Served /\ job = NoJob) =>
    \A s \in Slugs :
      (graph[s] # None /\ \A p \in pending \cup failed : SlugOf[p] # s)
        => cache[s] = VectorOf(s)

\* If the service stays up, it gets to the end of its work and stays there.
Settles == <>[](up = "up") => <>[](pending = {} /\ job = NoJob)
-----------------------------------------------------------------------------
\* The inductive invariant, in three parts.  The first is about the job alone:
\* which phases there are when, and what a walk has read.
OfWalk == job.pc = "walk" \/ (up = "starting" /\ job.pc \in {"pages", "sync"})

JobOK ==
  /\ job.pc = "idle" => job = NoJob
  /\ up \in {"down", "rebuilt"} => job = NoJob
  /\ up \in {"down", "starting"} => pending = {} /\ failed = {}
  /\ up = "starting" => job.pc \in {"list", "walk", "pages", "sync"} /\ job.path = None
  /\ up = "up" => job.pc # "pages" /\ (job # NoJob => job.path \in Watched)
  /\ job.pc = "sync" => /\ job.page \in Pages
                        /\ up = "starting" => job.page \in job.seen /\ job.page.body # {}
                        /\ up = "up" => job.page = PageAt(job.path, job.page.body)

WalkOK ==
  /\ ~ OfWalk => job.seen = {}
  /\ job.pc # "walk" => job.todo = {}
  /\ \A g \in job.seen : g.slug = SlugOf[g.path] /\ g.path \in Walked \ job.todo
  /\ \A g, h \in job.seen : g.slug = h.slug => g = h
  /\ \A g \in job.left : g \in job.seen /\ g.body # {}

\* The second, when every file has a stem of its own, is about what was read:
\* the bodies that a walk or a sync works with are those on disk, unless the file
\* has changed since, and is then known to have.
OwnStem == \A p, q \in Paths : SlugOf[p] = SlugOf[q] => p = q

Known(p) == p \in pending \cup unseen

SeenIsOnDisk ==
  /\ OfWalk => \A p \in Walked \cap Watched : ~ Known(p) =>
       /\ disk[p] \in Bodies => p \in job.todo \/ PageAt(p, disk[p]) \in job.seen
       /\ \A g \in job.seen : g.path = p => g.body = disk[p]
  /\ up = "up" /\ job.pc \in {"sync", "list", "walk"} => job.path \notin unseen
  /\ up = "up" /\ job.pc = "sync" /\ ~ Known(job.path) => job.page.body = disk[job.path]

\* And the third is about what was made of it: the store, the graph, the cache.
OnDisk(p) == IF disk[p] \in Bodies THEN disk[p] ELSE {}

StoreOK ==
  /\ InSync
  /\ \A p \in Walked \cap Watched :
       disk[p] = {} /\ ~ Unsettled(p) => ChunksOf(SlugOf[p]) = {}
  /\ up = "up" /\ job.pc \in {"list", "walk"} /\ ~ Known(job.path) =>
       ChunksOf(SlugOf[job.path]) = OnDisk(job.path)
  /\ up = "starting" /\ job.pc \in {"pages", "sync"} =>
       \A g \in job.seen : g.body # {} =>
         \/ g \in job.left
         \/ job.pc = "sync" /\ g = job.page
         \/ ChunksOf(g.slug) = g.body

GraphOK ==
  /\ \A s \in Slugs : graph[s] # None => \E p \in Walked : SlugOf[p] = s
  /\ Served => \A p \in Walked \cap Watched : ~ Unsettled(p) =>
       graph[SlugOf[p]] = IF disk[p] \in Bodies THEN disk[p] ELSE None

CacheOK ==
  Served => \A p \in Walked : p \notin pending \cup failed \cup {job.path} =>
    cache[SlugOf[p]] = VectorOf(SlugOf[p])

JobInv == TypeOK /\ JobOK /\ WalkOK
Inv == JobInv /\ SeenIsOnDisk /\ StoreOK /\ GraphOK /\ CacheOK
-----------------------------------------------------------------------------
\* What the watcher's comment on renames takes for granted ("dest so it indexes
\* the new location"): with all changes processed, a page that is the only one
\* of its stem in the vault is in the store.
MovedPageIndexed ==
  (Served /\ job = NoJob /\ pending \cup failed \cup unseen = {}) =>
    \A p \in Walked \cap Watched :
      (disk[p] \in Bodies
        /\ \A q \in Paths \ {p} : SlugOf[q] = SlugOf[p] => disk[q] = Absent)
      => ChunksOf(SlugOf[p]) = disk[p]

\* What the comment on _index_page_chunks says of chunks that disappeared from a
\* page ("dropped explicitly so search doesn't surface stale rows"), for the
\* pages that rebuild has just read.
RebuildDropsGoneChunks ==
  up = "rebuilt" => \A s \in Slugs : graph[s] # None => ChunksOf(s) = graph[s]
=============================================================================
