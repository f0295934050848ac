------------------------------- MODULE Query -------------------------------
(***************************************************************************)
(* Router.dispatch: the vector channel and the keyword channel rank the    *)
(* chunks that match a query, topology_walk ranks the pages near an anchor *)
(* page, and reciprocal rank fusion merges what the channels returned.     *)
(* Retrieval.multi_hop and CitationAssembler.assemble are called on the    *)
(* same answers of the vector store.  The service's lock is held           *)
(* throughout, so one call is under way, and its loops are walked turn by  *)
(* turn.  The graph is what module GraphStore builds of a vault; what the  *)
(* vector store answers is the input: two rankings of chunks, best first   *)
(* and no longer than what dispatch asks for.                              *)
(***************************************************************************)
EXTENDS Citations, Hops

CONSTANTS Queries,  \* the inputs considered: vaults and queries
          K,        \* the RRF constant, 60 in the code
          TopK,     \* how many results are asked for
          MaxRank   \* bound: no ranking is longer

VARIABLES query,  \* what is asked: a call, and what the vector store answers
          pc,     \* the call under way, or the part of dispatch that is
          near,   \* topology_walk: the rounds made, the frontier, `distances`
          fusion, \* the loops over the rankings: channel, rank, `accum`
          result  \* None, or what dispatch returns

vars == <<graphVars, cites, bfs, hops, query, pc, near, fusion, result>>

Calls == {"dispatch", "multi_hop", "assemble"}

IsQuery(q) == /\ q.call \in Calls /\ q.structural \in BOOLEAN
              /\ q.seed \in Pages \cup {None}
              /\ q.vector \in Seq(Hits) /\ q.lexical \in Seq(Hits)
              /\ Len(q.vector) <= MaxRank /\ Len(q.lexical) <= MaxRank

ASSUME QueriesAssumption ==
  /\ \A input \in Queries : IsVault(input.vault) /\ IsQuery(input.query)
  /\ {K, TopK, MaxRank} \subseteq Nat /\ None \notin Nat
  /\ Cardinality(Pages) <= MaxRank
-----------------------------------------------------------------------------
(* the channels *)

\* _vector_search: one hit per chunk.
VectorHits == query.vector

\* hits[:n]
FirstOf(hits, n) == SubSeq(hits, 1, IF Len(hits) < n THEN Len(hits) ELSE n)

\* _lexical_search: the best chunk of each page, which is its first, of no more
\* pages than dispatch asks for, twice top_k.  (It looks at twice as many chunks.)
LexicalHits == FirstOf(FirstOfPage(query.lexical), 2 * TopK)

\* The pages that topology_walk reached, the seed left out.
TopologyHits ==
  IF near.found = << >> THEN << >>
  ELSE [i \in 1..Len(near.found) - 1 |-> [page |-> near.found[i + 1], chunk |-> None]]

\* `seed_node or self._infer_seed(vector_hits)`
Anchor == IF query.seed # None THEN query.seed
          ELSE IF Len(VectorHits) > 0 /\ VectorHits[1].page \in graph.nodes
               THEN VectorHits[1].page ELSE None

\* MULTI_HOP and HYBRID queries, and any with a seed, walk the graph.
Walks == (query.seed # None \/ query.structural) /\ Anchor # None

Channels == LET all == <<VectorHits, LexicalHits, TopologyHits>>
            IN Kept(all, {i \in 1..3 : all[i] # << >>})
-----------------------------------------------------------------------------
(* topology_walk *)

\* Not the code: `nbr not in frontier` instead of `nbr not in distances`.
UnseenForget(w) == Neighbors(w.frontier) \ w.frontier

\* The next frontier: pages that no earlier round has seen.
Unseen(w) == Neighbors(w.frontier) \ Range(w.found)

\* A seed that the graph lacks has no neighbourhood.
Dispatch == /\ pc = "idle" /\ query.call = "dispatch" /\ graph # None
            /\ IF Walks /\ Anchor \in graph.nodes
               THEN /\ pc' = "topology"
                    /\ near' = [near EXCEPT !.frontier = {Anchor}, !.found = <<Anchor>>]
               ELSE pc' = "fusion" /\ UNCHANGED near
            /\ UNCHANGED <<graphVars, cites, bfs, hops, query, fusion, result>>

\* One round, in which the pages of the frontier are met in no given order.
\* The hits are sorted by distance, which is the order they are found in.
Round == /\ pc = "topology" /\ near.round < Depth /\ near.frontier # {}
         /\ near' = [round |-> near.round + 1, frontier |-> Unseen(near),
                     found |-> near.found \o SetToSeq(Unseen(near))]
         /\ UNCHANGED <<graphVars, cites, bfs, hops, query, pc, fusion, result>>

Near == /\ pc = "topology" /\ (near.round = Depth \/ near.frontier = {})
        /\ pc' = "fusion"
        /\ UNCHANGED <<graphVars, cites, bfs, hops, query, near, fusion, result>>
-----------------------------------------------------------------------------
(* reciprocal_rank_fusion *)

\* 1 / (K + rank) times a common multiple of the denominators, so that sums
\* of contributions are compared exactly.
Multiple[r \in 0..MaxRank] == IF r = 0 THEN 1 ELSE (K + r) * Multiple[r - 1]
Contribution(rank) == Multiple[MaxRank] \div (K + rank)

NewEntry(page) == [page |-> page, score |-> 0, chunk |-> None, best |-> 0]

\* Not the code: `<=`, which gives a tie to the later channel.
BestSoFarLax(e, rank) == e.best = 0 \/ rank <= e.best

\* `prev is None or rank_idx < prev`; `best_rank` is kept in the entry.
BestSoFar(e, rank) == e.best = 0 \/ rank < e.best

\* Not the code: the first channel to name a page decides its score.
AddHitOnce(e, hit, rank) ==
  IF e.score > 0 THEN e
  ELSE [e EXCEPT !.score = Contribution(rank), !.chunk = hit.chunk, !.best = rank]

\* The body of the loop over one ranking, for the entry of the hit's page.
AddHit(e, hit, rank) ==
  LET scored == [e EXCEPT !.score = @ + Contribution(rank)]
  IN IF hit.chunk # None /\ BestSoFar(e, rank)
     THEN [scored EXCEPT !.chunk = hit.chunk, !.best = rank]
     ELSE scored

\* The entry is made when the accumulator has none.
Accumulate(accum, hit, rank) ==
  IF \E i \in 1..Len(accum) : accum[i].page = hit.page
  THEN [i \in 1..Len(accum) |-> IF accum[i].page = hit.page THEN AddHit(accum[i], hit, rank)
                                                             ELSE accum[i]]
  ELSE Append(accum, AddHit(NewEntry(hit.page), hit, rank))

\* sorted(accum.values(), key=rrf_score, reverse=True) is stable: the orders
\* that put the higher score first, and of equal ones the earlier.
StableOrders(accum) ==
  {o \in [1..Len(accum) -> 1..Len(accum)] :
     \A i, j \in 1..Len(accum) : i < j =>
        \/ accum[o[i]].score > accum[o[j]].score
        \/ accum[o[i]].score = accum[o[j]].score /\ o[i] < o[j]}

\* Not the code: the whole fused list.
CutNever(hits) == hits

\* [:top_k]
Cut(hits) == FirstOf(hits, TopK)

\* One channel is passed on as it is: its hits are not accumulated by page.
\* (Their score is the channel's own, of which the order is what matters.)
Only(ranking) ==
  [i \in 1..Len(ranking) |->
     [page |-> ranking[i].page, score |-> Contribution(i),
      chunk |-> ranking[i].chunk, best |-> i]]

FuseHit ==
  /\ pc = "fusion" /\ Len(Channels) > 1 /\ fusion.channel <= Len(Channels)
  /\ fusion.rank < Len(Channels[fusion.channel])
  /\ LET rank == fusion.rank + 1
     IN fusion' = [fusion EXCEPT !.rank = rank,
                     !.accum = Accumulate(@, Channels[fusion.channel][rank], rank)]
  /\ UNCHANGED <<graphVars, cites, bfs, hops, query, pc, near, result>>

NextRanking ==
  /\ pc = "fusion" /\ Len(Channels) > 1 /\ fusion.channel <= Len(Channels)
  /\ fusion.rank = Len(Channels[fusion.channel])
  /\ fusion' = [fusion EXCEPT !.channel = @ + 1, !.rank = 0]
  /\ UNCHANGED <<graphVars, cites, bfs, hops, query, pc, near, result>>

\* What dispatch fuses: one of the lists of hits that a stable sort may return.
FusedLists ==
  CASE Len(Channels) = 0 -> {<< >>}
    [] Len(Channels) = 1 -> {Only(Channels[1])}
    [] OTHER -> {[n \in 1..Len(fusion.accum) |-> fusion.accum[o[n]]] :
                   o \in StableOrders(fusion.accum)}

Fused ==
  /\ pc = "fusion" /\ (Len(Channels) > 1 => fusion.channel > Len(Channels))
  /\ \E fused \in FusedLists :
       result' = [vector |-> Cut(VectorHits), lexical |-> Cut(LexicalHits),
                  topology |-> Cut(TopologyHits), fused |-> Cut(fused)]
  /\ pc' = "answered"
  /\ UNCHANGED <<graphVars, cites, bfs, hops, query, near, fusion>>
-----------------------------------------------------------------------------
Init == /\ \E input \in Queries : vault = input.vault /\ query = input.query
        /\ graph = None /\ traced = 0 /\ pc = "idle"
        /\ near = [round |-> 0, frontier |-> {}, found |-> << >>]
        /\ fusion = [channel |-> 1, rank |-> 0, accum |-> << >>]
        /\ cites = None /\ bfs = None /\ hops = None /\ result = None

\* The graph is built, and added to, between calls.
Reindex == /\ pc = "idle" /\ Build
           /\ UNCHANGED <<cites, bfs, hops, query, pc, near, fusion, result>>

Trace == /\ pc = "idle"
         /\ \E slug \in vault.traces, because \in SUBSET vault.traces :
              AddDecisionTrace(slug, because)
         /\ UNCHANGED <<cites, bfs, hops, query, pc, near, fusion, result>>

\* Every other variable is left alone by a step of multi_hop, or of assemble.
Hop(step) == step /\ UNCHANGED <<graphVars, cites, query, near, fusion, result>>
Cite(step) == step /\ UNCHANGED <<graphVars, bfs, hops, query, near, fusion, result>>

StartHops == /\ pc = "idle" /\ query.call = "multi_hop" /\ graph # None /\ pc' = "multi_hop"
             /\ Hop(MultiHop /\ UNCHANGED hops)
HopOn     == pc = "multi_hop" /\ pc' = pc /\ Hop(NextSeed(query.vector) \/ WalkOn)
EndHops   == pc = "multi_hop" /\ pc' = "answered" /\ Hop(Hopped(query.vector))

StartCiting == /\ pc = "idle" /\ query.call = "assemble" /\ pc' = "assemble"
               /\ Cite(Assemble)
CiteOn      == pc = "assemble" /\ pc' = pc /\ Cite(CiteHit(query.vector) \/ VisitNext)
EndCiting   == /\ pc = "assemble" /\ Assembled(query.vector) /\ pc' = "answered"
               /\ Cite(UNCHANGED cites)

\* The answer is returned; another call starts from its own initial state.
Answered == pc = "answered" /\ UNCHANGED vars

Next == \/ Reindex \/ Trace
        \/ Dispatch \/ Round \/ Near \/ FuseHit \/ NextRanking \/ Fused
        \/ StartHops \/ HopOn \/ EndHops \/ StartCiting \/ CiteOn \/ EndCiting
        \/ Answered

Spec == Init /\ [][Next]_vars
-----------------------------------------------------------------------------
Entries == [page : Pages, score : Nat, chunk : Nat \cup {None}, best : Nat]

\* Never more than TopK hits of a kind, and every fused hit names a page.
TypeOK ==
  /\ GraphTypeOK /\ CitesTypeOK /\ HopsTypeOK /\ IsQuery(query)
  /\ pc \in {"idle", "topology", "fusion", "multi_hop", "assemble", "answered"}
  /\ near.round \in 0..Depth /\ near.frontier \subseteq Pages /\ near.found \in Seq(Pages)
  /\ fusion.channel \in Nat /\ fusion.rank \in Nat /\ fusion.accum \in Seq(Entries)
  /\ result # None => /\ result.fused \in Seq(Entries)
                      /\ \A kind \in DOMAIN result : Len(result[kind]) <= TopK

\* The sum of a sequence of numbers.
Total(s) == LET upto[n \in 0..Len(s)] == IF n = 0 THEN 0 ELSE upto[n - 1] + s[n]
            IN upto[Len(s)]

\* What the rankings give to a page: the sum, over every place in every
\* ranking that names the page, of what the place is worth.
GivenBy(ranking, page) ==
  Total([r \in 1..Len(ranking) |-> IF ranking[r].page = page THEN Contribution(r) ELSE 0])
ScoreOf(page) == Total([c \in 1..Len(Channels) |-> GivenBy(Channels[c], page)])

\* Where the channels rank a page: pairs of a channel and a rank.
RanksOf(page) == {x \in (1..Len(Channels)) \X (1..MaxRank) :
                    x[2] <= Len(Channels[x[1]]) /\ Channels[x[1]][x[2]].page = page}

\* When several channels answer, the result is what the formula at the head of
\* reranker.py defines over the set of all contributions, whatever the order
\* in which the loop meets them: one hit per page, the right score, best
\* first, and no page left out that scores more than one that is in.  (The
\* formula reads as one rank per channel; a page that a channel ranks several
\* times is given every one of them, as the fusion's tests have it.)
FusedIsRRF ==
  result # None /\ Len(Channels) > 1 =>
    LET f == result.fused
        shown == {f[i].page : i \in 1..Len(f)}
    IN /\ \A i \in 1..Len(f) : f[i].score = ScoreOf(f[i].page)
       /\ \A i, j \in 1..Len(f) : i < j => /\ f[i].page # f[j].page
                                           /\ f[i].score >= f[j].score
       /\ \A p \in Pages \ shown : RanksOf(p) # {} =>
            Len(f) = TopK /\ \A i \in 1..Len(f) : ScoreOf(p) <= f[i].score

\* "The representative chunk: the one from the single best-ranked channel
\* contribution to this page", the earlier channel on a tie; none when only
\* the graph walk found the page.
ChunkAt(x) == Channels[x[1]][x[2]].chunk
IsBestRank(x, S) == /\ x \in S
                    /\ \A y \in S : \/ x[2] < y[2]
                                    \/ x[2] = y[2] /\ x[1] <= y[1]
Representative ==
  result # None /\ Len(Channels) > 1 =>
    \A i \in 1..Len(result.fused) :
      LET hit == result.fused[i]
          S == {x \in RanksOf(hit.page) : ChunkAt(x) # None}
      IN IF S = {} THEN hit.chunk = None
                   ELSE \E x \in S : IsBestRank(x, S) /\ hit.chunk = ChunkAt(x)

\* The walk finds exactly the pages that at most Depth links lead to, nearest
\* first, by the length of the shortest way.
Leads(a, b, d) == \E p \in [0..d -> Pages] :
  p[0] = a /\ p[d] = b /\ \A i \in 0..d - 1 : HasEdge(p[i], p[i + 1])
Distance(a, b) == {d \in 0..Depth : Leads(a, b, d)}
WalkIsShortest ==
  result # None /\ Walks /\ Anchor \in graph.nodes =>
    LET hits == TopologyHits
        D(b) == Min(Distance(Anchor, b))
    IN /\ {hits[i].page : i \in 1..Len(hits)}
            = {b \in Pages \ {Anchor} : Distance(Anchor, b) # {}}
       /\ \A i, j \in 1..Len(hits) : i < j =>
            hits[i].page # hits[j].page /\ D(hits[i].page) <= D(hits[j].page)

\* What Citations says of the hits of a search, for those of the vector channel.
CitedFully == CitesFully(query.vector)
-----------------------------------------------------------------------------
\* "Fusion is page-level and stays that way", reranker.py says of a fused hit,
\* and a test, where two channels answer, that "a page matching in several
\* chunks still yields one multi-channel fused hit".  Of every answer:
OneHitPerPage ==
  result # None => \A i, j \in 1..Len(result.fused) :
                     result.fused[i].page = result.fused[j].page => i = j
=============================================================================
