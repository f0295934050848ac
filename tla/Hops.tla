-------------------------------- MODULE Hops --------------------------------
(***************************************************************************)
(* Retrieval.multi_hop: the pages that a search names are seeds, and       *)
(* GraphStore.walk lists the ways from each of them to other pages, up to  *)
(* a number of links and a number of ways.  One action is one turn of the  *)
(* `while` loop or of the loop over the seeds.                             *)
(***************************************************************************)
EXTENDS GraphStore

CONSTANTS Depth,    \* 3: graph_max_depth's default
          MaxPaths  \* 10000 in walk

ASSUME WalkAssumption == Depth \in Nat /\ MaxPaths \in Nat

VARIABLES bfs,  \* None, or walk's loop: the number of the seed, its queue, `paths`
          hops  \* None, or what multi_hop returns, and the walk it filters

HopsTypeOK ==
  /\ bfs # None => /\ bfs.seed \in Nat /\ Len(bfs.paths) <= MaxPaths
                   /\ bfs.queue \in Seq(Seq(Pages)) /\ bfs.paths \in Seq(Seq(Pages))
  /\ hops # None => /\ hops.seeds \in Seq(Pages) /\ hops.paths \in Seq(Seq(Pages))
                    /\ hops.walked \in Seq(Seq(Pages))
-----------------------------------------------------------------------------
\* The elements of s at the positions in I, in their order.
Kept(s, I) ==
  LET upto[n \in 0..Len(s)] == IF n = 0 THEN << >>
                               ELSE IF n \in I THEN Append(upto[n - 1], s[n])
                                               ELSE upto[n - 1]
  IN upto[Len(s)]

\* The first hit of each page, in the order of the hits.
FirstOfPage(hits) ==
  Kept(hits, {i \in 1..Len(hits) : \A j \in 1..i - 1 : hits[j].page # hits[i].page})

\* multi_hop: `if h.page_slug not in seed_slugs`.
Seeds(hits) == [i \in 1..Len(FirstOfPage(hits)) |-> FirstOfPage(hits)[i].page]

Touching(paths, seeds) ==
  Kept(paths, {i \in 1..Len(paths) : Cardinality(Range(seeds) \cap Range(paths[i])) >= 2})

Neighbors(S) == {n \in Pages : \E m \in S : HasEdge(m, n)}

\* The ways on from the end of a path to a page that is not on it; the order
\* of the graph's successors is not specified.
Extensions(path) ==
  LET next == SetToSeq(Neighbors({Last(path)}) \ Range(path))
  IN [i \in 1..Len(next) |-> Append(path, next[i])]

\* Not the code: `len(path) >= max_depth`, counting pages instead of links.
TurnShort(w) ==
  LET path == Head(w.queue)
  IN [w EXCEPT !.queue = Tail(@) \o IF Len(path) >= Depth THEN << >> ELSE Extensions(path),
               !.paths = IF Len(path) > 1 THEN Append(@, path) ELSE @]

\* Not the code: the newest path first, which is a depth-first walk.
TurnPop(w) ==
  LET path == Last(w.queue)
  IN [w EXCEPT !.queue = Front(@) \o IF Len(path) > Depth THEN << >> ELSE Extensions(path),
               !.paths = IF Len(path) > 1 THEN Append(@, path) ELSE @]

\* The body of the `while` loop.
Turn(w) ==
  LET path == Head(w.queue)
  IN [w EXCEPT !.queue = Tail(@) \o IF Len(path) > Depth THEN << >> ELSE Extensions(path),
               !.paths = IF Len(path) > 1 THEN Append(@, path) ELSE @]

MultiHop == bfs = None /\ bfs' = [seed |-> 0, queue |-> << >>, paths |-> << >>]

\* The next seed; one that the graph lacks is skipped.
NextSeed(hits) ==
  /\ bfs # None /\ hops = None /\ bfs.queue = << >> /\ bfs.seed < Len(Seeds(hits))
  /\ LET seed == Seeds(hits)[bfs.seed + 1]
     IN bfs' = [bfs EXCEPT !.seed = @ + 1,
                           !.queue = IF seed \in graph.nodes THEN <<<<seed>>>> ELSE << >>]
  /\ UNCHANGED hops

WalkOn == /\ bfs # None /\ bfs.queue # << >> /\ Len(bfs.paths) < MaxPaths
          /\ bfs' = Turn(bfs) /\ UNCHANGED hops

\* walk returns at the cap, or behind its last seed, and multi_hop keeps the
\* paths that touch two of the seeds.
Hopped(hits) ==
  /\ bfs # None /\ hops = None
  /\ IF bfs.queue = << >> THEN bfs.seed = Len(Seeds(hits)) ELSE Len(bfs.paths) >= MaxPaths
  /\ hops' = [seeds |-> Seeds(hits), walked |-> bfs.paths,
              paths |-> Touching(bfs.paths, Seeds(hits))]
  /\ UNCHANGED bfs
-----------------------------------------------------------------------------
\* The ways of at most Depth links that visit no page twice, from a seed.
SimplePaths(seed) ==
  {p \in UNION {[1..n -> Pages] : n \in 2..Depth + 1} :
     /\ seed \in graph.nodes /\ p[1] = seed /\ IsInjective(p)
     /\ \A i \in 1..Len(p) - 1 : HasEdge(p[i], p[i + 1])}

\* Every way from one seed to another is found unless the cap is reached.  What
\* is found is a way from a seed that touches another, there or on its way to a
\* page that is none; nothing is found twice.
HopsComplete ==
  hops # None =>
    LET all == UNION {SimplePaths(s) : s \in Range(hops.seeds)}
    IN /\ IsInjective(hops.paths)
       /\ Range(hops.paths)
            \subseteq {p \in all : \E i, j \in 1..Len(p) :
                                 i # j /\ {p[i], p[j]} \subseteq Range(hops.seeds)}
       /\ Cardinality(all) <= MaxPaths =>
            \A p \in all : Last(p) \in Range(hops.seeds) => p \in Range(hops.paths)

\* What the cap leaves out is of the last seeds walked from, and of one seed
\* the longer ways: the walk never returns more than MaxPaths, and fewer only
\* when there are no more.
CapKeepsNearest ==
  hops # None =>
    LET all  == UNION {SimplePaths(s) : s \in Range(hops.seeds)}
        kept == Range(hops.walked)
    IN /\ Len(hops.walked) = Min({MaxPaths, Cardinality(all)})
       /\ \A p \in kept, q \in all \ kept :
            /\ p[1] = q[1] => Len(p) <= Len(q)
            /\ \A i, j \in 1..Len(hops.seeds) :
                 hops.seeds[i] = p[1] /\ hops.seeds[j] = q[1] => i <= j
=============================================================================
