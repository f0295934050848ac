----------------------------- MODULE GraphStore -----------------------------
(***************************************************************************)
(* stores/graph_store.py and inference.py: the graph of the pages.         *)
(* rebuild resolves wikilinks through the map of names; similarity edges   *)
(* are added where no link is; decision traces are added to what is there. *)
(* There is at most one edge from a page to another, and it has one type.  *)
(*                                                                         *)
(* What iter_pages and the cached page vectors give is the input: `vault`, *)
(* a record of                                                             *)
(*   pages                the pages of the walk                            *)
(*   names                what each goes by: its title, slug and aliases   *)
(*   links                the names in its wikilinks                       *)
(*   inferred, ambiguous  the pairs whose vectors are at least as close as *)
(*                        AMBIGUOUS_CEILING, and those between it and the  *)
(*                        threshold; the cache may still have the vector   *)
(*                        of a page that is gone                           *)
(*   sources              the slugs in its frontmatter (module Citations)  *)
(*   traces               the slugs that decision traces are about         *)
(* Names are lowercased; a page's number is also the name that its slug is.*)
(***************************************************************************)
EXTENDS Integers, Sequences, FiniteSets, SequencesExt, FiniteSetsExt

CONSTANTS Pages,      \* page slugs, numbered in the order of the walk
          MaxTraces,  \* bound: decision traces added
          TraceDepth, \* 10 in decision_trace_walk
          None

ASSUME PagesAssumption == IsFiniteSet(Pages) /\ Pages = 1..Cardinality(Pages)
ASSUME TracesAssumption == MaxTraces \in Nat /\ TraceDepth \in Nat

VARIABLES vault,
          graph,  \* None before the first build, or its nodes and the type of each edge
          traced  \* how many decision traces were added

graphVars == <<vault, graph, traced>>

EdgeTypes == {"EXTRACTED", "INFERRED", "AMBIGUOUS", "DECISION_TRACE"}

\* What a vault may hold: slugs of pages in all its fields, and any names.
IsVault(v) == /\ v.pages \subseteq Pages /\ v.traces \subseteq Pages
              /\ v.sources \in [Pages -> Seq(Pages)]

\* No edge leads from or to a page that is not a node.
GraphTypeOK ==
  /\ IsVault(vault) /\ traced \in 0..MaxTraces
  /\ graph # None => /\ graph.nodes \subseteq Pages
                     /\ DOMAIN graph.type \subseteq graph.nodes \X graph.nodes
                     /\ graph.type \in [DOMAIN graph.type -> EdgeTypes]

HasEdge(a, b) == <<a, b>> \in DOMAIN graph.type
-----------------------------------------------------------------------------
\* Not the code: the first page keeps a name that a later one claims as well.
ClaimFree(names, p) ==
  [n \in DOMAIN names \cup vault.names[p] |-> IF n \in DOMAIN names THEN names[n] ELSE p]

\* The body of build_alias_map's loop: the last write wins.
Claim(names, p) ==
  [n \in DOMAIN names \cup vault.names[p] |-> IF n \in vault.names[p] THEN p ELSE names[n]]

\* The map after the first n pages of the walk.
AliasesAfter[n \in 0..Cardinality(Pages)] ==
  IF n = 0 THEN << >>
  ELSE IF n \in vault.pages THEN Claim(AliasesAfter[n - 1], n) ELSE AliasesAfter[n - 1]

AliasMap == AliasesAfter[Cardinality(Pages)]

\* The loop over the links of each page: names that no page has and links to
\* the page itself are passed over.
LinkEdges ==
  {e \in vault.pages \X vault.pages :
     e[1] # e[2] /\ \E n \in vault.links[e[1]] \cap DOMAIN AliasMap : AliasMap[n] = e[2]}

\* Not the code: an edge for a similar pair replaces whatever was there.
SimilarEdgesOver ==
  {e \in vault.pages \X vault.pages : {e[1], e[2]} \in vault.inferred \cup vault.ambiguous}

\* add_similarity_edges: each similar pair that the graph has, in both
\* directions, but no edge where there is one.
SimilarEdges ==
  {e \in vault.pages \X vault.pages :
     {e[1], e[2]} \in vault.inferred \cup vault.ambiguous /\ e \notin LinkEdges}

EdgeTypeForSimilarity(a, b) ==
  IF {a, b} \in vault.inferred THEN "INFERRED" ELSE "AMBIGUOUS"

\* What rebuild and reindex_page end with: a new graph, the similarity edges,
\* and the community labels, which change neither nodes nor edges.  Decision
\* traces are gone.
Build ==
  /\ graph' = [nodes |-> vault.pages,
               type |-> [e \in LinkEdges \cup SimilarEdges |->
                           IF e \in SimilarEdges THEN EdgeTypeForSimilarity(e[1], e[2])
                                                 ELSE "EXTRACTED"]]
  /\ traced' = 0
  /\ UNCHANGED vault

\* add_decision_trace: nodes are made on demand; an edge that exists becomes a
\* DECISION_TRACE.
AddDecisionTrace(slug, because) ==
  /\ graph # None /\ traced < MaxTraces
  /\ LET new == because \X {slug}
     IN graph' = [nodes |-> graph.nodes \cup {slug} \cup because,
                  type |-> [e \in DOMAIN graph.type \cup new |->
                              IF e \in new THEN "DECISION_TRACE" ELSE graph.type[e]]]
  /\ traced' = traced + 1
  /\ UNCHANGED vault
-----------------------------------------------------------------------------
\* Not the code: `src not in seen` is left out.
ReasonsSeen(path) ==
  {p \in graph.nodes : /\ HasEdge(p, Last(path))
                       /\ graph.type[<<p, Last(path)>>] = "DECISION_TRACE"}

\* The pages that decision_trace_walk may go on to.
Reasons(path) ==
  {p \in graph.nodes : /\ HasEdge(p, Last(path))
                       /\ graph.type[<<p, Last(path)>>] = "DECISION_TRACE"
                       /\ p \notin Range(path)}

\* It takes the first of them, whichever that is.
Onward(path) == IF Reasons(path) = {} THEN path
                ELSE Append(path, CHOOSE p \in Reasons(path) : TRUE)

DecisionTraceWalk(seed) ==
  LET path[turn \in 0..TraceDepth] == IF turn = 0 THEN <<seed>> ELSE Onward(path[turn - 1])
  IN IF seed \in graph.nodes THEN path[TraceDepth] ELSE << >>
-----------------------------------------------------------------------------
\* The page that a name stands for is the last one in the walk that goes by it.
StandsFor(n, p) == /\ p \in vault.pages /\ n \in vault.names[p]
                   /\ \A q \in vault.pages : n \in vault.names[q] => q <= p
Links(a, b) == a # b /\ \E n \in vault.links[a] : StandsFor(n, b)
Similar(a, b) == {a, b} \in vault.inferred \cup vault.ambiguous

Traced(a, b) == HasEdge(a, b) /\ graph.type[<<a, b>>] = "DECISION_TRACE"

Justified(a, b) ==
  /\ HasEdge(a, b) <=> Links(a, b) \/ Similar(a, b) \/ Traced(a, b)
  /\ HasEdge(a, b) => \/ Traced(a, b) /\ traced > 0
                      \/ graph.type[<<a, b>>] = "EXTRACTED" /\ Links(a, b)
                      \/ /\ graph.type[<<a, b>>] = EdgeTypeForSimilarity(a, b)
                         /\ Similar(a, b) /\ ~ Links(a, b)

\* "EXTRACTED wikilink edges are never overwritten", and "edges are emitted
\* symmetrically": between two pages of the vault there is an edge exactly when
\* one links to the other or they are similar; a link is never shown as an
\* inference, nor an inference as a link; similar pages lead to each other.
\* Only a decision trace takes the place of either.
EdgesJustified == graph # None => \A a, b \in vault.pages : Justified(a, b)

\* decision_trace_walk answers with reasons only, one behind the other, none
\* twice however the traces run in circles or share pages with links, and stops
\* only at a page without a reason that it has not given, or at its depth.
TraceIsReasoning ==
  graph # None => \A seed \in graph.nodes :
    LET path == DecisionTraceWalk(seed)
    IN /\ path[1] = seed /\ IsInjective(path)
       /\ \A i \in 1..Len(path) - 1 : /\ HasEdge(path[i + 1], path[i])
                                      /\ graph.type[<<path[i + 1], path[i]>>] = "DECISION_TRACE"
       /\ Len(path) <= TraceDepth =>
            \A p \in graph.nodes : /\ HasEdge(p, Last(path))
                                   /\ graph.type[<<p, Last(path)>>] = "DECISION_TRACE"
                                   => p \in Range(path)
=============================================================================
