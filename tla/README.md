# A TLA+ model of vault-engine

vault-engine keeps a searchable copy of a vault of markdown files: their chunks
in an SQLite file, and a graph of the pages in memory. The files stay the
source of truth. Almost everything that can go wrong is a way for the copy to
disagree with the files, or for two parts of the copy to disagree with each
other, after some order of edits, timers, failures and other processes that no
test has. These modules state what must hold, check it with TLC on small
instances, and prove all of it but liveness with TLAPS, for all instances.

All source paths below are relative to `src/vault_engine/` in the repository.

## 1. The system

| Component | State | Operations | Used by |
|---|---|---|---|
| Vector store, `stores/vec_store.py` | three tables of one SQLite file: `chunks` (vectors), `chunks_fts` (keywords), `chunk_meta` (keys, checksums, rowids); a row for the model and one for the vault | `open`, `close`, `upsert`, `delete_page`, `delete_chunk`, `search`, `search_lexical`, `get_checksums`, `iter_chunks_for_page`, `all_slugs` | indexer, router |
| Graph store, `stores/graph_store.py` | a directed graph, the alias map | `rebuild`, `walk`, `resolve`, decision traces | indexer, retrieval, transports |
| Citations, `citations.py` | none | `assemble`, `build_citation_chain` | evaluation, transports |
| Vault reader, `vault_reader.py` | none | `iter_pages`, `read_page`, link and alias parsing | indexer |
| Chunker, `chunker.py` | none | `chunk_page` | indexer |
| Indexer, `indexer.py` | the stores, a cache of page vectors | `rebuild`, `reindex_page` | service, command line |
| Similarity edges, `inference.py` | none | page vectors, `add_similarity_edges` | indexer |
| Watcher, `watcher.py` | an observer thread, one debounce timer per path | event handlers, `_fire`, `cancel_pending`, `start`, `stop` | service |
| Service, `service.py` | one re-entrant lock, `_running`, the indexer and the watcher | `start`, `stop`, `query`, `graph_lock`, `_on_change` | HTTP and MCP transports |
| Query, `router.py`, `reranker.py`, `retrieval.py` | none | `dispatch`, `topology_walk`, `reciprocal_rank_fusion`, `multi_hop`, `source` | service, transports |
| Ingestion, `url_ingester.py`, `pdf_ingester.py` | files in `raw/` and `raw/_originals/` | `add_url`, `add_pdf` | command line |
| Transports, configuration, evaluation, scripts | none of their own that matters here | | |

How they interact:

- The **watcher** calls the **service** on timer threads; the service takes its
  lock and calls `reindex_page`. Transports take the same lock to query.
  `stop()` waits for the observer thread *without* the lock.
- The **indexer** reads the vault, which the user edits at any time, and writes
  the **vector store** call by call. Each call is a transaction of its own, so
  a job that fails half-way leaves what it has written.
- Several **processes** share one database file: `serve` or `mcp`, and the
  `vault-engine reindex` that the post-commit hook starts. Only SQLite's locks
  are between them.
- **Ingestion** writes files into the vault, which the watcher then reports.

What is hard, and where it is dealt with:

| Behaviour | Module |
|---|---|
| Rowids read before a transaction and used inside it, by two processes | VecStore |
| Two processes opening one path for different models or vaults; `--force` under an open store; kills between autocommitted statements | StoreOpen |
| Files that change while a job reads them; jobs that fail half-way; crashes; the cache of page vectors | Indexer |
| Timers that expire before they are cancelled, callbacks after `stop`, the lock | Watcher, Service |
| Sizes at their limits, slivers, hard splits | Chunker |
| Checks apart from the writes they guard, clean-up after failures, kills | Ingest |
| Names that several pages claim; links, similarities and decision traces that compete for one edge; traces in circles | GraphStore |
| Sources that name each other in circles, hits that lead to one page | Citations |
| Fusion and walks against their definitions, caps and depth limits | Query |

`PROJECT.json` lists the hazards one by one at their lines, with the property
that watches each, or the reason why none does.

## 2. The modules

### ChunkTable and VecStore

`ChunkTable` is the abstract promise: a table with at most one chunk per
`(page_slug, chunk_idx)`, and three atomic operations. `VecStore` is the code:
three tables, rowids, and calls by several processes, each of them in two
steps, the SELECT and the transaction. `UpsertSelect`, `DeletePageSelect` and
`DeleteChunkSelect` are the reads; `UpsertCommit` and `DeleteCommit` the
transactions; `Abort` is a rollback for any reason, the death of the process
included. `op[p]` remembers the call of process `p` with the rowids that it
read. `overlapped` is a history variable: pages that two calls at a time were
ever about. The text and the vector of a chunk are represented by its checksum.

A transaction is one action because sqlite3 makes it one. Nothing is lost by
one call at a time per process: the service's lock serialises them.

### StoreOpen

`VecStore.open`, statement by statement. Each CREATE TABLE is a transaction of
its own; the first INSERT takes the write lock and keeps it until the commit at
the end. Files have identities apart from the path, so that a process keeps its
file when another unlinks it with `force_reset`. `rows` are the chunks that were
ever written to a file, told by the model and the vault they were written for. A
path may begin with a store that predates `store_meta` (`OldFile`): it has the
model it records, and chunks of any vaults, marked `old`; `open` stamps it for
whoever comes first, as `tests/test_vec_store.py:284` has it. `disturbed` is a
history variable: files whose opening was cut short, or raced with one for
another model, between the CREATE of the vector table, which fixes the
dimension, and the commit.

Left out: a store opened without a vault path (only tests do), and the journal
of an unlinked database file.

### Indexer

`rebuild` and `reindex_page` step by step, over a vault that changes between
any two steps. `ReadChanged` is the first half of `reindex_page`; `DropGone`,
`UpsertChanged` and `PageSynced` are `_index_page_chunks`; `ListVault`,
`WalkRead` and `WalkRaises` are `iter_pages`; `FinishReindex` is the graph and
the cache; `RebuildWalked`, `NextPage`, `Prune` and `FinishRebuild` are the rest
of `rebuild`. `Deliver` is the service's callback, `JobRaises` its `except`,
`Crash` the end of the process: the store alone survives. The store is a
`ChunkTable`, which the modules above justify for one process.

A page body is its set of chunks, a page vector the chunks that it is pooled
from, a graph node the body that it was built from. Three history variables
record what the code has been told and has not done: `pending`, `failed`,
`unseen`.

### Watcher and Service

`Watcher` has the debounce timers one by one, because a timer that has expired
cannot be cancelled and later pops a record that may be its successor's.
`Service` extends it with the lock, `start` (which may raise in the rebuild and
in `watcher.start`), `stop`, `_on_change` and the readers. A reindex is two
steps here (the file is read; the graph is rebuilt), which is what readers and
`stop` can tell apart. The lock is re-entrant; an inner acquisition changes
nothing and is not shown.

The owner calls `start`, and `stop` after that; it may start again when `stop`
has returned. A `start` by another thread inside the window of `stop` is left
out, and listed among the hazards. The observer is taken to end within the five
seconds that `VaultWatcher.stop` allows it: its handlers only arm timers. The
circular wait that `service.py:82-85` speaks of, the observer waiting for the
lock to deliver a callback, is that of the synchronous mode, which the service
does not use; with timers the observer never wants the lock, and `StopReturns`
says nothing of it.

### Chunker

One action per turn of the loops of `chunk_page` and `_split_section`. A
section is the set of word positions at which its paragraphs end, a chunk a
range of words. Where the two regular expressions find headings and paragraphs
is the input. A section within the cap is one chunk (`Whole`); otherwise pieces
are packed (`Pack`), the buffer is emitted first (`Flush`), and the remainder
is folded back (`Fold`) or emitted (`Rest`).

### Ingest

The file system's steps of `add_url` and `add_pdf` by two commands at a time:
the test for the original, its write, the test for the page, its write, and
`unlink` in the handler. A write may raise or be killed in the middle
(`Torn`, or a page that is not `whole`). `Integrity` is the verdict of
`vault-engine source`. `abandoned` and `overlapped` are history variables: the
originals that a page lost by its removal or replacement, that were torn, or
that a killed command held, and the slugs that two commands at a time were
about. Fetching and text extraction change no file; they are the arguments of
`Fetched`.

### GraphStore and Citations

`Build` is `GraphStore.rebuild` with `add_similarity_edges`: names are resolved
by a map in which the last page of the walk wins (`AliasMap`, whose loop body is
`Claim`), links come first, and a similarity gets an edge only where no link is.
`AddDecisionTrace` may replace either, and makes nodes on demand. What the walk
of the vault and the cached vectors give is the input, the record `vault`; a
cached vector may belong to a page that is gone. `DecisionTraceWalk` follows the
traces back, one `Onward` per turn of its loop.

`Citations` extends it with `CitationAssembler.assemble`. The recursion is a
stack in `cites`: `CiteHit` is a turn of the loop over the hits, `VisitNext` one
call of `_walk`.

### Hops and Query

`Hops` is `Retrieval.multi_hop` with `GraphStore.walk`: `bfs` has the number of
the seed under way, the queue and the paths so far, `NextSeed` and `WalkOn` are
the turns of the two loops, `Hopped` the return, at the end or at the cap.

`Query` extends Citations and Hops: graphs are built from a vault (`Reindex`),
grow by decision traces (`Trace`), and are then asked. `dispatch` goes from the
stores' answers to the fused list: `Dispatch` chooses the anchor, `Round` is a
turn of `topology_walk` over its frontier (`near`), `FuseHit` and `NextRanking`
are the turns of `reciprocal_rank_fusion` over its accumulator (`fusion`), and
`Fused` sorts and cuts. `StartHops`, `HopOn`, `EndHops` and `StartCiting`, `CiteOn`,
`EndCiting` are the calls of the other two. The service's lock is held
throughout a call, so that one is under way at a time; its loops are steps so
that what holds between two turns can be stated and proved.

The properties compare the loops with definitions over all paths and all
contributions. Scores are integers: `1 / (K + rank)` times a common multiple.
Which words make a query structural is the Boolean `structural`. In what order
neighbours, and the reasons behind a trace, are met is not specified (`CHOOSE`,
`SetToSeq`): the code's order is that of the graph's edges, and the proofs hold
for any.

## 3. What TLC checks

`tlc -config X.cfg M`; every run ends within two minutes or so.

| Run | Instance | Distinct states | Question |
|---|---|---|---|
| `vecstore` | 2 processes, 2 pages, 2 indexes, 2 texts, 3 inserts | 1.6 million | Do the three tables stay in step, and is the store a `ChunkTable`, whatever interleaves and aborts? |
| `vecstore_orphan` | 1 page, 1 index | violation | Does search return recorded chunks only? |
| `store_open` | 2 processes, 2 models of different dimension, 2 vaults, 2 files | 2.3 million | Can chunks of two models or vaults end up in one file, but for those that a store had before the vault stamp? Can a recorded model be one that the table rejects? |
| `indexer` | 2 files, 3 bodies, 3 edits or renames | 1.1 million | With changes processed, do store, graph and cache agree with the vault? Does the work end? |
| `indexer_moved` | one rename between folders | violation | Does a page survive being moved? |
| `indexer_emptied` | 2 files, 2 bodies, 2 edits | violation | Does a rebuild drop the chunks that a page lost? |
| `service` | 2 files of 2 edits each, 3 timers, 1 reader | 0.8 million | Use after close, lost changes, torn reads, termination of `stop`, catching up |
| `chunker` | every page of up to 9 words, cap 3, lower size 2, and pairs of sections | 4,823 | Are words lost, repeated or moved? How long and how short is a chunk? |
| `ingest` | 2 commands, 1 slug, 2 types, 2 documents | 0.4 million | Orphaned originals, pages whose original no longer verifies |
| `ingest_overwrite` | same | violation | Does the handler unlink orphans only? |
| `query` | vaults and queries of six families (below) | 265,450 | Are graph, citations, fusion and walks what their definitions say? |
| `query_one_channel` | same | violation | One hit per page? |

### The properties

- **VecStore.** `LockStep`: keywords and vectors never differ. `NoDangling`:
  what the checksums report is searchable, so the indexer never skips a chunk
  that search has lost. `OwnPageOnly`: a stale rowid never hits another page.
  `NoOrphans`: a page whose calls never overlapped has no chunk that only
  search knows. `RecordedIsTable`, `SearchableIsTable`: the refinement of
  `ChunkTable`, once through `get_checksums`, once through search.
- **StoreOpen.** `OneCorpus`: the chunks of a file are of the model and vault
  recorded in it, and so is whoever has it open. The exception is what a store
  held before the vault stamp existed: `open` adopts it for whoever comes first
  without looking, so that those chunks may be another vault's, and stay.
  `KNOWN_ISSUES.md:170-181` documents this. They are in no file created since,
  after a `--force` for instance. `TableFits`: the table's
  dimension is the recorded model's, unless the opening was `disturbed`. That
  exception is real: a kill after the CREATE and before the commit leaves a
  store that the next `open` may claim for another model, and that rejects
  every vector from then on (`--force` repairs it).
- **Indexer.** `InSync`: a page whose change has been processed is in the store
  chunk for chunk. `GraphInSync`, `CacheFresh`: the same for the graph once
  nothing is pending, and for the cached vectors between jobs. `Settles`: work
  ends when edits do.
- **Service.** `NoUseAfterClose`, `LastChangeNoticed`, `StableReads`,
  `StopReturns`, `CatchesUp`; each is stated above its definition.
- **Chunker.** `Covers` (no word lost, repeated or put under another heading),
  `SizeBand`, `NoSlivers`, `WholeParagraphs`.
- **Ingest.** `NoOrphans`: what an original without a page must be due to.
  `StaysVerified`: who may make a page fail its verification, namely a command
  with `--overwrite`, one that takes back the original it has written, and one
  that tested for the files while another command was about the same slug. The
  last is a race the code has: two commands that both pass the test at
  `url_ingester.py:402` replace each other's files, and one that fails unlinks
  the other's original (`ingest_overwrite` is about such unlinks). A command
  that is alone with its slug replaces nothing that it found without
  `--overwrite`. `WrittenVerified`: what it completes, verifies.
- **GraphStore.** `EdgesJustified`: between two pages there is an edge exactly
  when one links to the other by a name that stands for it, or they are similar,
  or a decision trace says so, and its type says which. `TraceIsReasoning`: the
  walk back along traces gives reasons only, none twice, and stops only where it
  must.
- **Citations.** `CitedFully`: every page that a hit leads to is cited once and
  no other, in the order of the hits, with an excerpt when the hit was first.
- **Query.** `FusedIsRRF`, `Representative`, `WalkIsShortest`, `HopsComplete`,
  `CapKeepsNearest`: fusion and walks against definitions over the set of all
  contributions and of all paths.

Each property of a passing run has a mutant in `PROJECT.json`: a plausible bug,
given as an operator marked "Not the code", under which TLC finds the property
violated.

### Bounds

- `MaxRows = 3` in VecStore: an orphan takes two inserts, and a third shows
  what follows. Rowids are never reused (vec0 gives AUTOINCREMENT-like ids),
  so more of them are more of the same; the proofs have no use for the bound.
- `MaxFiles = 2` in StoreOpen: one file unlinked while open and its successor.
- `MaxEdits = 3` in Indexer: a rename that races with a job takes one, an edit
  before it and one after it the others. Two files are enough for a walk that
  mixes two moments.
- Three timers in Service: one inside the callback, one that has expired, one
  that is armed, so that a record can name the wrong one.
- A cap of 3 and a lower size of 2 words in Chunker: pages of 9 words reach the
  longest chunk (a sliver, a full piece, a sliver), and hard splits next to
  whole paragraphs. The proofs have no bound.
- `Depth = 2` in Query (3 in the code): with 4 pages some are out of reach, and
  some are reached in two ways. `MaxPaths = 8`, so that the cap is met.
- `MCQuery` unites six families, since all combinations at once would be too
  many. `Walked` and `TwoSeeds` have every graph of links on the pages, walked
  from one and from two seeds; `Ranked` every pair of rankings of up to three and
  two chunks; `Named` every way for three pages to share names, with links by
  them and similar pairs, one of a page that is gone; `Reasoned` up to two traces
  (`MaxTraces`) about two pages and a slug that is none; `Sourced` every
  frontmatter of three pages with up to two sources each. The graphs of `Walked`
  have no link to page 1, the anchor, which a walk has found already; the
  theorem about walks has no such bound.
- `TraceDepth = 2` (10 in the code), so that the limit is met. The loops have
  no bound of their own: each ends by what the code does, and the properties
  speak of what it has returned.

### Fairness

Liveness is checked under weak fairness of what runs by itself once begun:
`Work` in Indexer, `Steps` in Service. Threads are scheduled; every holder of
the lock releases it, since no code waits for anything while holding it; and a
free lock goes to one of those who wait, without any order among them. Nothing
is assumed of edits, calls of `start` and `stop`, readers, failures or crashes.
`Settles` and `CatchesUp` need no strong fairness because edits are bounded:
they say that the work ends when the edits do.

Deadlock is checked in every run but `indexer_moved`, whose specification ends
when the one rename has been processed.

## 4. What is proved

For any processes, pages, models, vaults, sizes and lengths, by an inductive
invariant `Inv` that the module itself states (for Query, one per loop, in the
modules of the proofs):

| Module | Theorems | The invariant, and why it is needed |
|---|---|---|
| `VecStoreProofs` | `TypeOK`, `LockStep`, `NoDangling`, `NoOrphans`, `OwnPageOnly`, `RecordedIsTable`, `SearchableIsTable`; with one process also `NoStaleRows` | The properties say nothing of calls in progress. `RowidsFresh`: rowids are unique and below the next one. `HeldRows`: a rowid that a call holds was given to a chunk of the key that it is about, and can name no other later. `HeldIsCurrent`: until another call about the page overlaps, the held rowids are exactly the page's. `OverlapKnown`: the history variable misses no overlap. |
| `StoreOpenProofs` | `TypeOK`, `OneCorpus`, `TableFits` | `Pending`: a row inserted and not yet committed is covered by the file's write lock and absent from the file. `Checked`: a process past a check has found its own setting there, or has put it there. Together they make the commit agree with what is in the file. `OneCorpus` makes its exception for chunks from before the vault stamp, and only for them, in the theorem too. `Fits` adds for `TableFits` that a table without a recorded model is the work of a process that is still opening it. |
| `IndexerProofs` | `TypeOK`; with `OwnStem` also `InSync`, `GraphInSync`, `CacheFresh` | `JobOK`, `WalkOK`: which phases there are when, and a walk that reads each file once. `SeenIsOnDisk`: what a walk or a sync holds in memory is what is on disk, unless the file has changed since *and is known to have*. `StoreOK`: the store agrees with the disk for the page just synced, and during a rebuild for all pages that are no longer on its list. `GraphOK`, `CacheOK`: the same for what is built at a job's end; a page without a node has no vector, also in the cold branch of the cache. |
| `ServiceProofs` | `TypeOK`, `NoUseAfterClose`, `LastChangeNoticed`, `StableReads` | `LockHeld`: who is at work holds the lock, and the service runs then. `RecordNames`: a record names a timer of its path that has not begun to call back. `AllNoticed`: each file is indexed as it is, or there is an event or a timer that will still read it. |
| `IngestProofs` | `TypeOK`, `NoOrphans`, `StaysVerified`, `WrittenVerified` | `OwnOriginal`: a page's original goes by the page's slug. `OverlapKnown`: the history variable misses no overlap. `Justified`: a call accounts for an original only from the moment it has written it. `StillSo`: while no other command is about the slug, what a command found or wrote is still so. |
| `ChunkerProofs` | `TypeOK`, `Covers`, `SizeBand`, `NoSlivers`, `WholeParagraphs` | `Buffer`: the buffer stays below the cap plus a sliver, ends on a boundary, and the last chunk of a section that has one is no shorter than the lower size and no longer than the cap plus a sliver. That is what folding a remainder relies on. |
| `QueryProofs`, on `GraphStoreProofs` | `TypeOK`, `EdgesJustified`, `TraceIsReasoning`, `CitedFully`, `WalkIsShortest`, `FusedIsRRF`, `Representative`, `HopsComplete`, `CapKeepsNearest` | The properties speak of the end of a loop; the invariants say what each loop has done between two turns (below). |

The loops of Query have an invariant each:

- `CitesSoFar` (assemble): the sources of a cited page are cited or on the stack;
  what is on the stack is led to by the hit under way, and earlier hits have all
  that they lead to. So the cited pages are closed under sources whenever the
  stack is empty, and a page that is cited already hides nothing that only it
  leads to. The rest says which hit a page is cited for, and in which order.
- `Reached` (`topology_walk`): the pages found are those within as many links as
  rounds, in order of distance; the frontier has those at exactly that distance.
  A page that no round has found is farther than every one found.
- `FuseSoFar` (`reciprocal_rank_fusion`): each entry has the sum of the
  contributions met so far and the best of the chunks met so far; there is one
  entry for each page met. The sort is any stable one; that there is one, so
  that these theorems are about something, is `FusionAnswers`.
- `WalkSoFar` (the walk of `multi_hop`): queue and paths hold ways that visit no
  page twice. The queue is in order of length, its last no more than one link
  longer than its first (`QueueOrder`): that is why the cap keeps the nearest. No
  way in the queue begins another of the queue or a listed one (`QueueApart`):
  that is why none is listed twice. Every way from a seed so far is listed, or
  grows from one in the queue (`NoneLost`): that is why the result is complete.

The prover has no induction over data: the library's induction theorems take an
operator as a parameter, which no installed back end can instantiate. These
proofs go around that. `GraphStoreProofs` states induction with a *set* of
numbers in place of a predicate, and recursion with a *set* of functions: a
function defined by recursion on `0..N` satisfies its equation because one that
does can be built step by step (`RecursionExists`, `RecursionSolved`). All folds of
these modules (`AliasesAfter`, `Kept`, `DecisionTraceWalk`, `Total`, `Multiple`)
are recursive functions on an interval, and are reasoned about by these lemmas.

Each proof has the same plan: a lemma per action, split by conjunct; the initial
states; and a temporal step. The assumptions are those of the modules
(`MaxRowsAssumption`, `NoneAssumption`, `SizesAssumption`, ...), which TLC
evaluates in the runs. The chunker's do not ask that the lower size be below
the cap: `EngineConfig` does not either. The three theorems about what
Indexer serves have an assumption of their own, `OwnStem`: files that share a stem
share their place in the store, and `indexer_moved` shows what comes of it.

Every invariant and every action property of a passing run is proved. Only
model-checked is liveness (`Settles`, `StopReturns`, `CatchesUp`), which is outside
the prover's reach.

## 5. Where code and text disagree

The five violation runs each check one sentence of the repository. In short
(`PROJECT.json` has the quotations):

1. `vecstore_orphan`: two processes that reindex one page at once leave a chunk
   in search that no later call can find.
2. `indexer_moved`: a file renamed into another folder keeps its stem, and the
   timer of the old path, when it comes last, drops the chunks just indexed.
3. `indexer_emptied`: a page emptied while the service was down keeps its
   chunks through the rebuild.
4. `ingest_overwrite`: a failed `--overwrite` unlinks the original of the page
   that is still there.
5. `query_one_channel`: with only the vector channel answering, a page is
   listed once per chunk.

Smaller ones, and one that the repository documents itself, have no run of
their own:

- `vec_store.py:43` and `:166` say that one cache directory holds one vault; a
  store from before the vault stamp may hold several, and is adopted by the
  first vault that opens it (`KNOWN_ISSUES.md:170-181`; `OneCorpus` names the
  exception).

- `chunker.py:67-69` and `KNOWN_ISSUES.md:87-88` say that a fold exceeds the cap
  by at most `min_tokens - 1` words; a chunk that begins with a sliver that was
  not flushed exceeds it by twice that (`SizeBand` is the true bound, and is
  reached).
- The formula at `reranker.py:3` reads as one rank of a page per channel; a page
  that a channel ranks several times is given every one of them.
  `tests/test_reranker.py:41-50` fixes that sum, and so does `FusedIsRRF`.
- The docstring at `chunker.py:129` says that a heading without a body is dropped;
  its heading line is text of the section, which is therefore not empty.
- `stores/graph_store.py:220` speaks of "no inbound wikilinks" and
  `mcp_server.py:135` of "inbound wikilinks"; both look at all edges, so that a
  page that is merely similar to another is no orphan, and is listed as a link.
- A page that an earlier hit's sources lead to is cited there, without the
  excerpt that its own hit would give it (`CitedFully` says so).
- Decision traces live in the graph only, and are gone after every change that
  the watcher delivers (`Build`).
- Of two pages that claim one name, links go to the last of the walk
  (`vault_reader.build_alias_map`), while `consolidation_candidates` speaks of
  the first (`retrieval.py:173`).

## 6. Not modelled

- Finding headings, links and frontmatter in the text: what is found is the
  input of Chunker, GraphStore and Citations.
- `build_citation_chain` and the communities: one call of a library each, whose
  result is passed on.
- `consolidation_candidates`: a regular expression run over the text of the
  pages.
- The embedder: a library model, of which the rest needs only that a text has
  one vector.
- HTTP, tokens and the tools of the MCP server: handlers without state, each of
  which is a reader in Service. Parsing of settings and command lines; the
  commands are callers of Indexer, StoreOpen and Ingest.
- Evaluation and the scripts for installing: they score files of results and
  copy files.
- The watcher's synchronous mode (`debounce <= 0`), for tests only.
- A second process in Indexer: VecStore has what two processes do to the store,
  and what it shows (`NoStaleRows` fails) would fail `InSync` for that reason.
- `start` called by another thread inside the window of `stop`: the transports
  call both from one thread.
- Readers after `stop`: `query` does not look at `_running`, and raises on a
  closed store; `NoUseAfterClose` is about reindexes only.
- `FinishReindex` of Indexer makes graph and cache one step: a job that raises
  between them has a change that failed, like one that raises before.

## 7. How it was built, and what is left

In this order: ChunkTable and VecStore with their proofs; Indexer; Watcher and
Service; Chunker with its proofs; Ingest; Query; StoreOpen with its proofs;
GraphStore and Citations below Query; the proofs of Ingest, Service and Indexer
and of `TableFits`; Hops, the loops of Query as steps, and the proofs about them.

What could follow:

1. The **loops end**: a measure for each loop of Query that every turn lowers, as
   an action property (the queue of `walk` is bounded by the ways of `Depth`
   links, the stack of `assemble` by the sources of pages not yet cited).
2. **VecStore and StoreOpen composed**: a writing call whose connection was
   opened for another corpus is refused by `StoreOpen` for whole files; rows
   and connections in one model would show it chunk by chunk.
3. **Indexer** with a second process that reindexes, once `VecStore` reads its
   rowids inside the transaction.
4. **Service** with `start` called inside the window of `stop`, if a transport
   ever does that.
