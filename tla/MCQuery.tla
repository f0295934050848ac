------------------------------ MODULE MCQuery ------------------------------
\* Families of vaults and queries.  Walks: every graph on Pages, walked from
\* page 1, and every graph on Pages, walked from pages 2 and 1.  Fusion: every
\* pair of short rankings of the chunks of three pages over one graph.  Names:
\* pages with a name of their own, a shared name or the slug of another.
\* Traces: decision traces about two pages and a slug that is none.  Sources:
\* every frontmatter of three pages with up to two sources each.
EXTENDS Query

CONSTANT x \* a name that is no slug

Chunks(n) == [page : 1..n, chunk : {0, 1}]

Rankings(S, n) == {r \in SeqOf(S, n) : IsInjective(r)}

Graphs == {g \in SUBSET (Pages \X Pages) : \A e \in g : e[1] # e[2] /\ e[2] # 1}

AllGraphs(nodes) == SUBSET {e \in nodes \X nodes : e[1] # e[2]}

Plain == [pages |-> Pages, names |-> [p \in Pages |-> {p}],
          links |-> [p \in Pages |-> {}], sources |-> [p \in Pages |-> << >>],
          inferred |-> {}, ambiguous |-> {}, traces |-> {}]

\* Links by slug, those of g.
OnGraph(nodes, g) ==
  [Plain EXCEPT !.pages = nodes, !.links = [p \in Pages |-> {q \in Pages : <<p, q>> \in g}]]

Asked == [call |-> "dispatch", structural |-> FALSE, seed |-> None, vector |-> << >>, lexical |-> << >>]
At(page, chunk) == [page |-> page, chunk |-> chunk]

\* Two pages are named, and one of them, when it is 1, may be gone.
TwoSeeds(nodes) ==
  [vault : {OnGraph(nodes, g) : g \in AllGraphs(nodes)},
   query : {[Asked EXCEPT !.call = "multi_hop", !.vector = <<At(2, 1), At(2, 0), At(1, 0)>>]}]

Walked == [vault : {OnGraph(Pages, g) : g \in Graphs},
           query : {[Asked EXCEPT !.seed = 1, !.vector = <<At(3, 0)>>]}]

Ranked == [vault : {OnGraph({1, 2}, {<<1, 2>>, <<2, 1>>})},
          query : [call : {"dispatch"}, structural : BOOLEAN, seed : {None, 2},
                   vector : Rankings(Chunks(3), 3), lexical : Rankings(Chunks(2), 2)]]

Triples(S) == {<<a, b, c, {}>> : a \in S, b \in S, c \in S}

\* Page 3 may be gone, and its vector still cached.
Named ==
  [vault : {[Plain EXCEPT !.pages = pages,
                          !.names = [p \in Pages |-> {p} \cup names[p]],
                          !.links = <<links, {x}, {x, 1}, {}>>,
                          !.inferred = inferred, !.ambiguous = {{1, 2}} \ inferred] :
              pages \in {{1, 2}, {1, 2, 3}}, names \in Triples({{}, {x}, {1}}),
              links \in SUBSET {x, 1, 2, 3}, inferred \in {{}, {{2, 3}}, {{1, 2}}}},
   query : {Asked}]

Reasoned == [vault : {[OnGraph({1, 2}, g) EXCEPT !.traces = {1, 2, 3}] : g \in AllGraphs({1, 2})},
           query : {[Asked EXCEPT !.seed = 1]}]

Sourced == [vault : {[Plain EXCEPT !.pages = pages, !.sources = sources] :
                       pages \in {{1, 2}, {1, 2, 3}},
                       sources \in {<<a, b, c, << >>>> : a \in Rankings(1..3, 2),
                                      b \in Rankings(1..3, 2), c \in Rankings(1..3, 2)}},
            query : {[Asked EXCEPT !.call = "assemble",
                                   !.vector = <<At(1, 0), At(1, 1), At(2, 0)>>]}]

MCQueries == Walked \cup TwoSeeds(Pages) \cup TwoSeeds(Pages \ {1}) \cup Ranked
               \cup Named \cup Reasoned \cup Sourced
=============================================================================
