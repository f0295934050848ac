-------------------------- MODULE GraphStoreProofs --------------------------
(***************************************************************************)
(* Proofs about GraphStore and Hops, for every set of pages and every      *)
(* vault: what the graph holds is justified by the vault or by a decision  *)
(* trace, decision_trace_walk answers with reasons, and the walk of        *)
(* multi_hop lists every way from its seeds, nearest first, up to its cap. *)
(*                                                                         *)
(* The first lemmas are what these proofs, and those of QueryProofs, need  *)
(* of recursion: a function that is defined by recursion on 0..N is what   *)
(* its equation says, provided that the equation has a solution, which     *)
(* RecursionExists gives.  Induction is stated with a set in place of a    *)
(* predicate.                                                              *)
(***************************************************************************)
EXTENDS Hops, FiniteSetTheorems, SequenceTheorems, TLAPS

\* Every non-empty set of natural numbers has a least element.
LEMMA LeastNumber ==
  ASSUME NEW T \in SUBSET Nat, T # {}
  PROVE  \E n \in T : \A m \in T : n <= m
<1>1. PICK x \in T : \A y \in T : ~ (<<y, x>> \in OpToRel(<, Nat))
  BY NatLessThanWellFounded, WFMin
<1>2. \A y \in T : ~ (y < x)
  BY <1>1 DEF OpToRel
<1>3. \A y \in T : y \in Nat /\ x \in Nat
  OBVIOUS
<1> QED
  BY <1>2, <1>3

\* Induction, stated with a set in place of a predicate.
LEMMA SetInduction ==
  ASSUME NEW N \in Nat, NEW P, 0 \in P, \A n \in 0..N - 1 : n \in P => n + 1 \in P
  PROVE  \A n \in 0..N : n \in P
<1> SUFFICES ASSUME NEW l \in 0..N, l \notin P PROVE FALSE
  OBVIOUS
<1> DEFINE T == {k \in 0..N : k \notin P}
<1>a. T \in SUBSET Nat /\ T # {}
  OBVIOUS
<1>1. PICK n \in T : \A m \in T : n <= m
  <2> HIDE DEF T
  <2> QED
    BY <1>a, LeastNumber
<1>2. n # 0 /\ n - 1 \in 0..N - 1 /\ n - 1 \in 0..N /\ ~ n <= n - 1
  BY <1>1
<1>3. n - 1 \in P /\ n - 1 + 1 = n
  BY <1>1, <1>2
<1> QED
  BY <1>1, <1>2, <1>3

\* The equation of a recursive definition over 0..N, and what is known of a
\* function that satisfies it before its values are known to be in S.
Solves(f, N, base, G) == f[0] = base /\ \A n \in 1..N : f[n] = G[n][f[n - 1]]
SolvesIn(f, N, S, base, G) ==
  f[0] = base /\ \A n \in 1..N : f[n - 1] \in S => f[n] = G[n][f[n - 1]]

\* A recursive definition over 0..N has a solution: the step from one value to
\* the next is the function G.
LEMMA RecursionExists ==
  ASSUME NEW N \in Nat, NEW S, NEW base \in S, NEW G \in [1..N -> [S -> S]]
  PROVE  \E f \in [0..N -> S] : Solves(f, N, base, G)
<1> DEFINE Upto(n, f) == /\ f \in [0..n -> S] /\ f[0] = base
                         /\ \A m \in 1..n : f[m] = G[m][f[m - 1]]
           P == {n \in 0..N : \E f : Upto(n, f)}
<1>1. 0 \in P
  <2>1. Upto(0, [m \in 0..0 |-> base])
    <3>1. 0 \in 0..0 /\ 1..0 = {}
      OBVIOUS
    <3> QED
      BY <3>1
  <2>2. 0 \in 0..N
    OBVIOUS
  <2> HIDE DEF Upto
  <2> QED
    BY <2>1, <2>2
<1>2. ASSUME NEW n \in 0..N - 1, n \in P PROVE n + 1 \in P
  <2>1. PICK f : Upto(n, f)
    BY <1>2
  <2> DEFINE g == [m \in 0..n + 1 |-> IF m = n + 1 THEN G[n + 1][f[n]] ELSE f[m]]
  <2>2. n + 1 \in 1..N /\ n \in 0..n /\ n \in 0..N /\ n \in Nat
    OBVIOUS
  <2>3. g \in [0..n + 1 -> S]
    BY <2>1, <2>2
  <2>4. g[0] = base
    BY <2>1, <2>2
  <2>5. ASSUME NEW m \in 1..n + 1 PROVE g[m] = G[m][g[m - 1]]
    <3>1. CASE m = n + 1
      BY <2>2, <3>1
    <3>2. CASE m # n + 1
      <4>1. m \in 1..n /\ m - 1 \in 0..n /\ m - 1 # n + 1
        BY <2>2, <3>2
      <4> QED
        BY <2>1, <2>2, <4>1
    <3> QED
      BY <3>1, <3>2
  <2>6. Upto(n + 1, g)
    BY <2>3, <2>4, <2>5
  <2>7. n + 1 \in 0..N
    OBVIOUS
  <2> HIDE DEF g, Upto
  <2> QED
    BY <2>6, <2>7
<1> HIDE DEF P
<1>3. \A n \in 0..N - 1 : n \in P => n + 1 \in P
  BY <1>2
<1>4. \A n \in 0..N : n \in P
  BY <1>1, <1>3, SetInduction
<1>5. N \in P
  BY <1>4
<1> QED
  BY <1>5 DEF P, Solves
\* Whatever satisfies the equation has values in S, and is what G makes of it.
LEMMA RecursionSolved ==
  ASSUME NEW N \in Nat, NEW S, NEW base \in S, NEW G \in [1..N -> [S -> S]], NEW h,
         SolvesIn(h, N, S, base, G)
  PROVE  \A n \in 0..N : h[n] \in S
<1> DEFINE P == {n \in 0..N : h[n] \in S}
<1>1. 0 \in P
  BY DEF SolvesIn
<1>2. \A n \in 0..N - 1 : n \in P => n + 1 \in P
  <2> SUFFICES ASSUME NEW n \in 0..N - 1, n \in P PROVE n + 1 \in P
    OBVIOUS
  <2>1. n + 1 \in 1..N /\ n + 1 \in 0..N /\ n + 1 - 1 = n
    OBVIOUS
  <2>2. h[n + 1] = G[n + 1][h[n]]
    BY <2>1 DEF SolvesIn
  <2> QED
    BY <2>1, <2>2
<1> HIDE DEF P
<1>3. \A n \in 0..N : n \in P
  BY <1>1, <1>2, SetInduction
<1> QED
  BY <1>3 DEF P
-----------------------------------------------------------------------------
(* decision_trace_walk *)

\* A sequence of one element.
LEMMA OneElement ==
  ASSUME NEW S, NEW e \in S
  PROVE  <<e>> \in Seq(S) /\ Len(<<e>>) = 1 /\ <<e>>[1] = e /\ <<e>> # << >>
OBVIOUS

\* One turn of the walk leaves the path or puts a reason behind it.
LEMMA OnwardType ==
  ASSUME NEW path \in Seq(graph.nodes) \ {<< >>}
  PROVE  /\ Onward(path) \in Seq(graph.nodes) \ {<< >>}
         /\ Reasons(path) = {} => Onward(path) = path
         /\ Reasons(path) # {} => \E p \in Reasons(path) : Onward(path) = Append(path, p)
<1>1. CASE Reasons(path) = {}
  BY <1>1 DEF Onward
<1>2. CASE Reasons(path) # {}
  <2> DEFINE p == CHOOSE q \in Reasons(path) : TRUE
  <2>1. p \in Reasons(path) /\ Onward(path) = Append(path, p)
    BY <1>2 DEF Onward
  <2>2. p \in graph.nodes
    BY <2>1 DEF Reasons
  <2> HIDE DEF p
  <2>3. Append(path, p) \in Seq(graph.nodes) \ {<< >>}
    BY <2>2, AppendProperties
  <2> QED
    BY <1>2, <2>1, <2>3
<1> QED
  BY <1>1, <1>2

\* The path after each turn: its recursive definition means what it says.
LEMMA TraceTurns ==
  ASSUME NEW seed \in graph.nodes
  PROVE  \E path \in [0..TraceDepth -> Seq(graph.nodes) \ {<< >>}] :
           /\ path[0] = <<seed>>
           /\ \A turn \in 1..TraceDepth : path[turn] = Onward(path[turn - 1])
           /\ DecisionTraceWalk(seed) = path[TraceDepth]
<1> DEFINE S == Seq(graph.nodes) \ {<< >>}
           base == <<seed>>
           G == [turn \in 1..TraceDepth |-> [p \in S |-> Onward(p)]]
           path[turn \in 0..TraceDepth] == IF turn = 0 THEN <<seed>> ELSE Onward(path[turn - 1])
<1>1. base \in S
  BY OneElement
<1>2. G \in [1..TraceDepth -> [S -> S]]
  BY OnwardType
<1>3. TraceDepth \in Nat
  BY TracesAssumption
<1>4. \A n \in 1..TraceDepth, p \in S : G[n][p] = Onward(p)
  OBVIOUS
<1> HIDE DEF S, G, path, base
<1>5. PICK f \in [0..TraceDepth -> S] : Solves(f, TraceDepth, base, G)
  BY <1>1, <1>2, <1>3, RecursionExists, Zenon
<1>6. ASSUME NEW n \in 1..TraceDepth PROVE f[n] = Onward(f[n - 1])
  <2>1. n - 1 \in 0..TraceDepth
    BY <1>3
  <2>2. f[n - 1] \in S
    BY <2>1
  <2> QED
    BY <1>4, <1>5, <2>2 DEF Solves
<1>7. f = [turn \in 0..TraceDepth |-> IF turn = 0 THEN <<seed>> ELSE Onward(f[turn - 1])]
  <2>1. f[0] = <<seed>>
    BY <1>5 DEF Solves, base
  <2>2. \A turn \in 0..TraceDepth : turn # 0 => turn \in 1..TraceDepth
    BY <1>3
  <2>3. \A turn \in 0..TraceDepth :
          f[turn] = IF turn = 0 THEN <<seed>> ELSE Onward(f[turn - 1])
    BY <1>6, <2>1, <2>2
  <2> QED
    BY <2>3
<1>8. path = [turn \in 0..TraceDepth |-> IF turn = 0 THEN <<seed>> ELSE Onward(path[turn - 1])]
  BY <1>7 DEF path
<1>9. path[0] = base /\ \A n \in 1..TraceDepth : path[n] = Onward(path[n - 1])
  <2>1. \A turn \in 0..TraceDepth :
          path[turn] = IF turn = 0 THEN <<seed>> ELSE Onward(path[turn - 1])
    BY <1>8
  <2> QED
    BY <1>3, <2>1 DEF base
<1>10. SolvesIn(path, TraceDepth, S, base, G)
  BY <1>4, <1>9 DEF SolvesIn
<1>11. \A n \in 0..TraceDepth : path[n] \in S
  BY <1>1, <1>2, <1>3, <1>10, RecursionSolved, Zenon
<1>12. path \in [0..TraceDepth -> S]
  BY <1>8, <1>11
<1>13. DecisionTraceWalk(seed) = path[TraceDepth]
  BY DEF DecisionTraceWalk, path
<1> QED
  BY <1>9, <1>12, <1>13 DEF S, base

\* A path with no page twice stays one when a new page is put behind it.
LEMMA AppendDistinct ==
  ASSUME NEW S, NEW s \in Seq(S), NEW e \in S, IsInjective(s), e \notin Range(s)
  PROVE  IsInjective(Append(s, e))
<1>1. /\ Append(s, e) \in Seq(S) /\ Len(Append(s, e)) = Len(s) + 1
      /\ \A i \in 1..Len(s) : Append(s, e)[i] = s[i]
      /\ Append(s, e)[Len(s) + 1] = e
  BY AppendProperties
<1>2. \A i \in 1..Len(s) : s[i] # e
  BY DEF Range
<1>3. \A i, j \in 1..Len(s) : s[i] = s[j] => i = j
  BY DEF IsInjective
<1>4. DOMAIN Append(s, e) = 1..Len(s) + 1 /\ Len(s) \in Nat
  BY <1>1
<1>5. ASSUME NEW i \in 1..Len(s) + 1, NEW j \in 1..Len(s) + 1,
             Append(s, e)[i] = Append(s, e)[j]
      PROVE  i = j
  <2>1. CASE i = Len(s) + 1 /\ j = Len(s) + 1
    BY <2>1
  <2>2. CASE i = Len(s) + 1 /\ j # Len(s) + 1
    BY <1>1, <1>2, <1>4, <1>5, <2>2
  <2>3. CASE i # Len(s) + 1 /\ j = Len(s) + 1
    BY <1>1, <1>2, <1>4, <1>5, <2>3
  <2>4. CASE i # Len(s) + 1 /\ j # Len(s) + 1
    BY <1>1, <1>3, <1>4, <1>5, <2>4
  <2> QED
    BY <2>1, <2>2, <2>3, <2>4
<1> QED
  BY <1>4, <1>5 DEF IsInjective

\* What is true of the path after n turns: reasons one behind the other, none
\* twice, and either one for every turn or no reason is left.
Reasoning(path, seed, n) ==
  /\ path[1] = seed /\ IsInjective(path) /\ Len(path) <= n + 1
  /\ \A i \in 1..Len(path) - 1 : /\ HasEdge(path[i + 1], path[i])
                                 /\ graph.type[<<path[i + 1], path[i]>>] = "DECISION_TRACE"
  /\ Len(path) = n + 1 \/ Reasons(path) = {}

LEMMA OnwardReasons ==
  ASSUME NEW path \in Seq(graph.nodes) \ {<< >>}, NEW seed, NEW n \in Nat,
         Reasoning(path, seed, n)
  PROVE  Reasoning(Onward(path), seed, n + 1)
<1>1. path \in Seq(graph.nodes) /\ Len(path) \in Nat \ {0}
  BY EmptySeq
<1>2. CASE Reasons(path) = {}
  BY <1>1, <1>2, OnwardType DEF Reasoning
<1>3. CASE Reasons(path) # {}
  <2>1. PICK p \in Reasons(path) : Onward(path) = Append(path, p)
    BY <1>3, OnwardType
  <2>2. /\ p \in graph.nodes /\ HasEdge(p, path[Len(path)]) /\ p \notin Range(path)
        /\ graph.type[<<p, path[Len(path)]>>] = "DECISION_TRACE"
    BY DEF Reasons, Last
  <2>3. /\ Len(Append(path, p)) = Len(path) + 1
        /\ \A i \in 1..Len(path) : Append(path, p)[i] = path[i]
        /\ Append(path, p)[Len(path) + 1] = p
    BY <1>1, <2>2, AppendProperties
  <2>4. IsInjective(Append(path, p))
    BY <1>1, <2>2, AppendDistinct DEF Reasoning
  <2>5. Append(path, p)[1] = seed /\ Len(path) = n + 1
    BY <1>1, <1>3, <2>3 DEF Reasoning
  <2>6. ASSUME NEW i \in 1..Len(path)
        PROVE  /\ HasEdge(Append(path, p)[i + 1], Append(path, p)[i])
               /\ graph.type[<<Append(path, p)[i + 1], Append(path, p)[i]>>] = "DECISION_TRACE"
    <3>1. CASE i = Len(path)
      BY <1>1, <2>2, <2>3, <3>1
    <3>2. CASE i # Len(path)
      <4>1. i \in 1..Len(path) - 1 /\ i + 1 \in 1..Len(path)
        BY <1>1, <3>2
      <4> QED
        BY <2>3, <4>1 DEF Reasoning
    <3> QED
      BY <3>1, <3>2
  <2> QED
    BY <1>1, <2>1, <2>3, <2>4, <2>5, <2>6 DEF Reasoning
<1> QED
  BY <1>2, <1>3

\* decision_trace_walk gives reasons on every graph, whatever was done to it.
THEOREM TraceOnEveryGraph == TraceIsReasoning
<1> SUFFICES ASSUME graph # None, NEW seed \in graph.nodes
             PROVE  LET path == DecisionTraceWalk(seed)
                    IN /\ path[1] = seed /\ IsInjective(path)
                       /\ \A i \in 1..Len(path) - 1 :
                            /\ HasEdge(path[i + 1], path[i])
                            /\ graph.type[<<path[i + 1], path[i]>>] = "DECISION_TRACE"
                       /\ Len(path) <= TraceDepth =>
                            \A p \in graph.nodes :
                              /\ HasEdge(p, Last(path))
                              /\ graph.type[<<p, Last(path)>>] = "DECISION_TRACE"
                              => p \in Range(path)
  BY DEF TraceIsReasoning
<1>1. PICK path \in [0..TraceDepth -> Seq(graph.nodes) \ {<< >>}] :
         /\ path[0] = <<seed>>
         /\ \A turn \in 1..TraceDepth : path[turn] = Onward(path[turn - 1])
         /\ DecisionTraceWalk(seed) = path[TraceDepth]
  BY TraceTurns
<1>2. TraceDepth \in Nat
  BY TracesAssumption
<1> DEFINE P == {n \in 0..TraceDepth : Reasoning(path[n], seed, n)}
<1>3. 0 \in P
  <2>1. Reasoning(<<seed>>, seed, 0)
    BY OneElement DEF Reasoning, IsInjective
  <2>2. Reasoning(path[0], seed, 0)
    BY <1>1, <2>1
  <2> QED
    BY <1>2, <2>2
<1>4. \A n \in 0..TraceDepth - 1 : n \in P => n + 1 \in P
  <2> SUFFICES ASSUME NEW n \in 0..TraceDepth - 1, n \in P PROVE n + 1 \in P
    OBVIOUS
  <2>1. n + 1 \in 1..TraceDepth /\ n + 1 - 1 = n /\ n \in Nat /\ n \in 0..TraceDepth
    BY <1>2
  <2>2. path[n + 1] = Onward(path[n]) /\ path[n] \in Seq(graph.nodes) \ {<< >>}
    BY <1>1, <2>1
  <2>3. Reasoning(Onward(path[n]), seed, n + 1)
    BY <2>1, <2>2, OnwardReasons
  <2> QED
    BY <1>2, <2>1, <2>2, <2>3
<1>5. Reasoning(path[TraceDepth], seed, TraceDepth)
  <2> HIDE DEF P
  <2>1. \A n \in 0..TraceDepth : n \in P
    BY <1>2, <1>3, <1>4, SetInduction
  <2>2. TraceDepth \in P
    BY <1>2, <2>1
  <2> QED
    BY <2>2 DEF P
<1> QED
  BY <1>1, <1>2, <1>5 DEF Reasoning, Reasons
-----------------------------------------------------------------------------
(* build_alias_map *)

LEMMA PagesAreNumbers ==
  Cardinality(Pages) \in Nat /\ Pages = 1..Cardinality(Pages) /\ IsFiniteSet(Pages)
BY PagesAssumption, FS_CardinalityType

AllNames == UNION {vault.names[p] : p \in vault.pages}
NameMaps == UNION {[D -> Pages] : D \in SUBSET AllNames}

\* One page's turn, whether or not the walk has the page.
ClaimIfWalked(names, n) == IF n \in vault.pages THEN Claim(names, n) ELSE names

LEMMA ClaimType ==
  ASSUME IsVault(vault), NEW names \in NameMaps, NEW n \in Pages
  PROVE  ClaimIfWalked(names, n) \in NameMaps
<1>1. PICK D \in SUBSET AllNames : names \in [D -> Pages]
  BY DEF NameMaps
<1>2. CASE n \in vault.pages
  <2>1. vault.names[n] \subseteq AllNames
    BY <1>2 DEF AllNames
  <2>2. Claim(names, n) \in [D \cup vault.names[n] -> Pages]
    BY <1>1 DEF Claim
  <2>3. D \cup vault.names[n] \in SUBSET AllNames
    BY <1>1, <2>1
  <2> QED
    BY <1>2, <2>2, <2>3 DEF ClaimIfWalked, NameMaps
<1>3. CASE n \notin vault.pages
  BY <1>3 DEF ClaimIfWalked
<1> QED
  BY <1>2, <1>3

\* The recursive definition of the map means what it says.
LEMMA AliasesEquation ==
  ASSUME IsVault(vault)
  PROVE  /\ AliasesAfter[0] = << >>
         /\ \A n \in Pages : AliasesAfter[n] = ClaimIfWalked(AliasesAfter[n - 1], n)
         /\ \A n \in 0..Cardinality(Pages) : AliasesAfter[n] \in NameMaps
<1> DEFINE N == Cardinality(Pages)
           base == << >>
           G == [n \in 1..N |-> [names \in NameMaps |-> ClaimIfWalked(names, n)]]
<1>1. N \in Nat /\ Pages = 1..N
  BY PagesAreNumbers
<1>2. base \in NameMaps
  <2>1. << >> \in [{} -> Pages]
    OBVIOUS
  <2> QED
    BY <2>1 DEF NameMaps
<1>3. G \in [1..N -> [NameMaps -> NameMaps]]
  BY <1>1, ClaimType
<1>4. \A n \in 1..N, names \in NameMaps : G[n][names] = ClaimIfWalked(names, n)
  OBVIOUS
<1> HIDE DEF G, base, N
<1>5. PICK f \in [0..N -> NameMaps] : Solves(f, N, base, G)
  BY <1>1, <1>2, <1>3, RecursionExists, Zenon
<1>6. ASSUME NEW n \in 1..N PROVE f[n] = ClaimIfWalked(f[n - 1], n)
  <2>1. n - 1 \in 0..N
    BY <1>1
  <2>2. f[n - 1] \in NameMaps
    BY <2>1
  <2> QED
    BY <1>4, <1>5, <2>2 DEF Solves
<1>7. f = [n \in 0..N |-> IF n = 0 THEN << >>
                          ELSE IF n \in vault.pages THEN Claim(f[n - 1], n) ELSE f[n - 1]]
  <2>1. f[0] = << >>
    BY <1>5 DEF Solves, base
  <2>2. \A n \in 0..N : n # 0 => n \in 1..N
    BY <1>1
  <2>3. \A n \in 0..N : f[n] = IF n = 0 THEN << >>
                          ELSE IF n \in vault.pages THEN Claim(f[n - 1], n) ELSE f[n - 1]
    BY <1>6, <2>1, <2>2 DEF ClaimIfWalked
  <2> QED
    BY <2>3
<1>8. AliasesAfter = [n \in 0..N |-> IF n = 0 THEN << >>
                        ELSE IF n \in vault.pages THEN Claim(AliasesAfter[n - 1], n)
                                                  ELSE AliasesAfter[n - 1]]
  BY <1>7 DEF AliasesAfter, N
<1> DEFINE a == AliasesAfter
<1>9. a[0] = base /\ \A n \in 1..N : a[n] = ClaimIfWalked(a[n - 1], n)
  <2> HIDE DEF a
  <2>1. \A n \in 0..N : a[n] = IF n = 0 THEN << >>
                          ELSE IF n \in vault.pages THEN Claim(a[n - 1], n) ELSE a[n - 1]
    BY <1>8 DEF a
  <2> QED
    BY <1>1, <2>1 DEF base, ClaimIfWalked
<1> HIDE DEF a
<1>10. SolvesIn(a, N, NameMaps, base, G)
  BY <1>4, <1>9 DEF SolvesIn
<1>11. \A n \in 0..N : a[n] \in NameMaps
  BY <1>1, <1>2, <1>3, <1>10, RecursionSolved, Zenon
<1> QED
  BY <1>1, <1>9, <1>11 DEF a, base, N

\* After n pages, a name that one of them goes by stands for the last of those.
NamedBy(names, n) ==
  /\ \A x \in DOMAIN names :
       /\ names[x] \in vault.pages /\ names[x] <= n /\ x \in vault.names[names[x]]
       /\ \A q \in vault.pages : q <= n /\ x \in vault.names[q] => q <= names[x]
  /\ \A q \in vault.pages : q <= n => vault.names[q] \subseteq DOMAIN names

LEMMA ClaimNames ==
  ASSUME IsVault(vault), NEW n \in Pages, NEW names \in NameMaps, NamedBy(names, n - 1)
  PROVE  NamedBy(ClaimIfWalked(names, n), n)
<1>1. PICK D : names \in [D -> Pages]
  BY DEF NameMaps
<1>2. n \in Nat /\ \A q \in vault.pages : q \in Nat /\ (q <= n <=> q <= n - 1 \/ q = n)
  BY PagesAreNumbers DEF IsVault
<1>3. CASE n \in vault.pages
  <2> DEFINE new == Claim(names, n)
  <2>1. /\ DOMAIN new = DOMAIN names \cup vault.names[n]
        /\ \A x \in DOMAIN new : new[x] = IF x \in vault.names[n] THEN n ELSE names[x]
    BY DEF Claim
  <2> HIDE DEF new
  <2>2. ASSUME NEW x \in DOMAIN new
        PROVE  /\ new[x] \in vault.pages /\ new[x] <= n /\ x \in vault.names[new[x]]
               /\ \A q \in vault.pages : q <= n /\ x \in vault.names[q] => q <= new[x]
    <3>1. CASE x \in vault.names[n]
      BY <1>2, <1>3, <2>1, <3>1
    <3>2. CASE x \notin vault.names[n]
      <4>1. x \in DOMAIN names /\ new[x] = names[x]
        BY <2>1, <3>2
      <4>2. names[x] \in vault.pages /\ names[x] <= n - 1 /\ x \in vault.names[names[x]]
        BY <4>1 DEF NamedBy
      <4>3. \A q \in vault.pages : q <= n - 1 /\ x \in vault.names[q] => q <= names[x]
        BY <4>1 DEF NamedBy
      <4> QED
        BY <1>2, <3>2, <4>1, <4>2, <4>3
    <3> QED
      BY <3>1, <3>2
  <2>3. \A q \in vault.pages : q <= n => vault.names[q] \subseteq DOMAIN new
    BY <1>2, <2>1 DEF NamedBy
  <2> QED
    BY <1>3, <2>2, <2>3 DEF NamedBy, ClaimIfWalked, new
<1>4. CASE n \notin vault.pages
  <2>1. \A q \in vault.pages : q <= n <=> q <= n - 1
    BY <1>2, <1>4
  <2> QED
    BY <1>4, <2>1 DEF NamedBy, ClaimIfWalked
<1> QED
  BY <1>3, <1>4

\* The finished map resolves a name to the page that the name stands for.
LEMMA AliasMapStands ==
  ASSUME IsVault(vault), NEW x, NEW p
  PROVE  x \in DOMAIN AliasMap /\ AliasMap[x] = p <=> StandsFor(x, p)
<1> DEFINE N == Cardinality(Pages)
           P == {n \in 0..N : NamedBy(AliasesAfter[n], n)}
<1>1. N \in Nat /\ Pages = 1..N
  BY PagesAreNumbers
<1>2. 0 \in P
  <2>1. \A q \in vault.pages : ~ q <= 0
    BY <1>1 DEF IsVault
  <2>2. DOMAIN AliasesAfter[0] = {}
    BY AliasesEquation
  <2>3. NamedBy(AliasesAfter[0], 0)
    BY <2>1, <2>2 DEF NamedBy
  <2> QED
    BY <1>1, <2>3
<1>3. \A n \in 0..N - 1 : n \in P => n + 1 \in P
  <2> SUFFICES ASSUME NEW n \in 0..N - 1, n \in P PROVE n + 1 \in P
    OBVIOUS
  <2>1. n + 1 \in Pages /\ n + 1 - 1 = n /\ n + 1 \in 0..N /\ n \in 0..N
    BY <1>1
  <2>2. /\ AliasesAfter[n + 1] = ClaimIfWalked(AliasesAfter[n], n + 1)
        /\ AliasesAfter[n] \in NameMaps
    BY <2>1, AliasesEquation
  <2>3. NamedBy(AliasesAfter[n], n + 1 - 1)
    BY <2>1
  <2>4. NamedBy(AliasesAfter[n + 1], n + 1)
    BY <2>1, <2>2, <2>3, ClaimNames
  <2> QED
    BY <2>1, <2>4
<1>4. NamedBy(AliasMap, N)
  <2> HIDE DEF P
  <2>1. \A n \in 0..N : n \in P
    BY <1>1, <1>2, <1>3, SetInduction
  <2>2. N \in P
    BY <1>1, <2>1
  <2> QED
    BY <2>2 DEF P, AliasMap
<1>5. \A q \in vault.pages : q \in Nat /\ q <= N
  BY <1>1 DEF IsVault
<1> QED
  BY <1>4, <1>5 DEF NamedBy, StandsFor
-----------------------------------------------------------------------------
(* the edges *)

LEMMA LinkEdgesAreLinks ==
  ASSUME IsVault(vault), NEW a \in vault.pages, NEW b \in vault.pages
  PROVE  <<a, b>> \in LinkEdges <=> Links(a, b)
<1>1. <<a, b>> \in LinkEdges <=>
        a # b /\ \E n \in vault.links[a] : n \in DOMAIN AliasMap /\ AliasMap[n] = b
  BY DEF LinkEdges
<1>2. \A n : n \in DOMAIN AliasMap /\ AliasMap[n] = b <=> StandsFor(n, b)
  BY AliasMapStands
<1> QED
  BY <1>1, <1>2 DEF Links

LEMMA SimilarEdgesAreSimilar ==
  ASSUME IsVault(vault), NEW a \in vault.pages, NEW b \in vault.pages
  PROVE  <<a, b>> \in SimilarEdges <=> Similar(a, b) /\ ~ Links(a, b)
BY LinkEdgesAreLinks DEF SimilarEdges, Similar

\* A graph that was just built has no decision traces, and its edges are those
\* that the vault gives.
LEMMA BuildJustified ==
  ASSUME GraphTypeOK, Build
  PROVE  GraphTypeOK' /\ EdgesJustified'
<1>1. IsVault(vault) /\ vault' = vault /\ traced' = 0
  BY DEF GraphTypeOK, Build
<1> DEFINE type == [e \in LinkEdges \cup SimilarEdges |->
                      IF e \in SimilarEdges THEN EdgeTypeForSimilarity(e[1], e[2])
                                            ELSE "EXTRACTED"]
<1>2. graph' = [nodes |-> vault.pages, type |-> type]
  BY DEF Build
<1>3. LinkEdges \cup SimilarEdges \subseteq vault.pages \X vault.pages
  BY DEF LinkEdges, SimilarEdges
<1>4. /\ DOMAIN type = LinkEdges \cup SimilarEdges
      /\ \A e \in DOMAIN type : type[e] = IF e \in SimilarEdges
                                          THEN EdgeTypeForSimilarity(e[1], e[2])
                                          ELSE "EXTRACTED"
  OBVIOUS
<1>5. type \in [DOMAIN type -> EdgeTypes]
  BY DEF EdgeTypeForSimilarity, EdgeTypes
<1> HIDE DEF type
<1>6. graph'.nodes = vault.pages /\ graph'.type = type
  BY <1>2
<1>7. GraphTypeOK'
  <2>1. IsVault(vault)' /\ vault.pages \subseteq Pages
    BY <1>1 DEF IsVault
  <2> QED
    BY <1>1, <1>3, <1>4, <1>5, <1>6, <2>1, TracesAssumption DEF GraphTypeOK
<1>8. ASSUME NEW a \in vault.pages, NEW b \in vault.pages
      PROVE  /\ HasEdge(a, b)' <=> Links(a, b) \/ Similar(a, b)
             /\ HasEdge(a, b)' => \/ type[<<a, b>>] = "EXTRACTED" /\ Links(a, b)
                                  \/ /\ type[<<a, b>>] = EdgeTypeForSimilarity(a, b)
                                     /\ Similar(a, b) /\ ~ Links(a, b)
  <2>1. HasEdge(a, b)' <=> <<a, b>> \in LinkEdges \/ <<a, b>> \in SimilarEdges
    BY <1>4, <1>6 DEF HasEdge
  <2>2. <<a, b>>[1] = a /\ <<a, b>>[2] = b
    OBVIOUS
  <2> QED
    BY <1>1, <1>4, <2>1, <2>2, LinkEdgesAreLinks, SimilarEdgesAreSimilar
<1>9. \A a, b \in vault.pages : /\ Links(a, b)' <=> Links(a, b)
                                /\ Similar(a, b)' <=> Similar(a, b)
                                /\ EdgeTypeForSimilarity(a, b)' = EdgeTypeForSimilarity(a, b)
  BY <1>1 DEF Links, StandsFor, Similar, EdgeTypeForSimilarity
<1>10. EdgesJustified'
  <2> SUFFICES ASSUME NEW a \in vault.pages, NEW b \in vault.pages
               PROVE  Justified(a, b)'
    BY <1>1 DEF EdgesJustified
  <2>1. HasEdge(a, b)' => type[<<a, b>>] # "DECISION_TRACE"
    BY <1>8 DEF EdgeTypeForSimilarity
  <2> QED
    BY <1>6, <1>8, <1>9, <2>1 DEF Justified, Traced
<1> QED
  BY <1>7, <1>10

\* A decision trace takes the place of what there was, and of nothing else.
LEMMA TraceJustified ==
  ASSUME GraphTypeOK, EdgesJustified, NEW slug \in vault.traces,
         NEW because \in SUBSET vault.traces, AddDecisionTrace(slug, because)
  PROVE  GraphTypeOK' /\ EdgesJustified'
<1> DEFINE new == because \X {slug}
           type == [e \in DOMAIN graph.type \cup new |->
                      IF e \in new THEN "DECISION_TRACE" ELSE graph.type[e]]
<1>1. /\ graph # None /\ traced < MaxTraces /\ traced' = traced + 1 /\ vault' = vault
      /\ graph' = [nodes |-> graph.nodes \cup {slug} \cup because, type |-> type]
  BY DEF AddDecisionTrace
<1>2. /\ DOMAIN type = DOMAIN graph.type \cup new
      /\ \A e \in DOMAIN type :
           type[e] = IF e \in new THEN "DECISION_TRACE" ELSE graph.type[e]
  OBVIOUS
<1>3. /\ IsVault(vault) /\ traced \in 0..MaxTraces /\ graph.nodes \subseteq Pages
      /\ DOMAIN graph.type \subseteq graph.nodes \X graph.nodes
      /\ graph.type \in [DOMAIN graph.type -> EdgeTypes]
  BY <1>1 DEF GraphTypeOK
<1>4. type \in [DOMAIN type -> EdgeTypes]
  BY <1>3 DEF EdgeTypes
<1>5. new \subseteq (graph.nodes \cup {slug} \cup because) \X (graph.nodes \cup {slug} \cup because)
  OBVIOUS
<1> HIDE DEF type
<1>6. graph'.nodes = graph.nodes \cup {slug} \cup because /\ graph'.type = type
  BY <1>1
<1>7. GraphTypeOK'
  <2>1. IsVault(vault)' /\ vault.traces \subseteq Pages
    BY <1>1, <1>3 DEF IsVault
  <2>2. traced' \in 0..MaxTraces
    BY <1>1, <1>3, TracesAssumption
  <2>3. DOMAIN type \subseteq graph'.nodes \X graph'.nodes
    BY <1>2, <1>3, <1>5, <1>6
  <2> QED
    BY <1>3, <1>4, <1>6, <2>1, <2>2, <2>3 DEF GraphTypeOK
<1>8. \A a, b \in vault.pages : /\ Links(a, b)' <=> Links(a, b)
                                /\ Similar(a, b)' <=> Similar(a, b)
                                /\ EdgeTypeForSimilarity(a, b)' = EdgeTypeForSimilarity(a, b)
  BY <1>1 DEF Links, StandsFor, Similar, EdgeTypeForSimilarity
<1>9. EdgesJustified'
  <2> SUFFICES ASSUME NEW a \in vault.pages, NEW b \in vault.pages
               PROVE  Justified(a, b)'
    BY <1>1 DEF EdgesJustified
  <2>1. Justified(a, b)
    BY <1>1 DEF EdgesJustified
  <2>2. HasEdge(a, b)' <=> HasEdge(a, b) \/ <<a, b>> \in new
    BY <1>2, <1>6 DEF HasEdge
  <2>3. traced' > 0
    BY <1>1, <1>3
  <2>4. CASE <<a, b>> \in new
    <3>1. HasEdge(a, b)' /\ graph'.type[<<a, b>>] = "DECISION_TRACE"
      BY <1>2, <1>6, <2>2, <2>4
    <3> QED
      BY <2>3, <3>1 DEF Justified, Traced
  <2>5. CASE <<a, b>> \notin new
    <3>1. /\ HasEdge(a, b)' <=> HasEdge(a, b)
          /\ HasEdge(a, b) => graph'.type[<<a, b>>] = graph.type[<<a, b>>]
      BY <1>2, <1>6, <2>2, <2>5 DEF HasEdge
    <3> QED
      BY <1>8, <2>1, <2>3, <3>1 DEF Justified, Traced
  <2> QED
    BY <2>4, <2>5
<1> QED
  BY <1>7, <1>9
-----------------------------------------------------------------------------
(* sequences *)

\* t lists the set S, each element once.
Lists(t, S) == t \in Seq(S) /\ Range(t) = S /\ IsInjective(t)

\* An order of a finite set.
LEMMA Enumeration ==
  ASSUME NEW S, IsFiniteSet(S)
  PROVE  Lists(SetToSeq(S), S) /\ Len(SetToSeq(S)) = Cardinality(S)
<1> DEFINE s == SetToSeq(S)
<1>1. Cardinality(S) \in Nat /\ ExistsBijection(1..Cardinality(S), S)
  BY FS_CardinalityType
<1>2. \E f \in [1..Cardinality(S) -> S] : IsInjective(f)
  BY <1>1 DEF ExistsBijection, Bijection, Injection
<1>3. s \in [1..Cardinality(S) -> S] /\ IsInjective(s)
  BY <1>2 DEF SetToSeq
<1>4. s \in Injection(1..Cardinality(S), S)
  BY <1>3 DEF Injection
<1>5. IsFiniteSet(1..Cardinality(S)) /\ Cardinality(1..Cardinality(S)) = Cardinality(S)
  BY <1>1, FS_Interval
<1>6. s \in Surjection(1..Cardinality(S), S)
  BY <1>4, <1>5, FS_Injection
<1>7. s \in Seq(S) /\ Len(s) = Cardinality(S)
  BY <1>1, <1>3
<1>8. Range(s) = S
  BY <1>3, <1>6 DEF Range, Surjection
<1> QED
  BY <1>3, <1>7, <1>8 DEF Lists

\* u is s followed by t.
IsJoin(u, s, t) ==
  /\ Len(u) = Len(s) + Len(t)
  /\ \A k \in 1..Len(s) : u[k] = s[k]
  /\ \A n \in 1..Len(t) : u[Len(s) + n] = t[n]
  /\ \A k \in 1..Len(u) : \/ k \in 1..Len(s) /\ u[k] = s[k]
                          \/ k - Len(s) \in 1..Len(t) /\ u[k] = t[k - Len(s)]

LEMMA Joined ==
  ASSUME NEW S, NEW s \in Seq(S), NEW t \in Seq(S)
  PROVE  s \o t \in Seq(S) /\ IsJoin(s \o t, s, t)
<1>1. Len(s) \in Nat /\ Len(t) \in Nat
  BY LenProperties
<1>2. /\ s \o t \in Seq(S) /\ Len(s \o t) = Len(s) + Len(t)
      /\ \A i \in 1..Len(s) + Len(t) : (s \o t)[i] = IF i <= Len(s) THEN s[i]
                                                                     ELSE t[i - Len(s)]
  BY ConcatProperties
<1> QED
  BY <1>1, <1>2 DEF IsJoin

LEMMA ListsJoined ==
  ASSUME NEW A, NEW B, NEW s, NEW t, Lists(s, A), Lists(t, B), A \cap B = {}
  PROVE  Lists(s \o t, A \cup B)
<1> DEFINE C == A \cup B
           u == s \o t
<1>1. s \in Seq(C) /\ t \in Seq(C) /\ Len(s) \in Nat /\ Len(t) \in Nat
  BY LenProperties DEF Lists
<1>2. u \in Seq(C) /\ IsJoin(u, s, t) /\ Len(u) = Len(s) + Len(t)
  <2> HIDE DEF C
  <2> QED
    <3>1. u \in Seq(C) /\ IsJoin(u, s, t)
      BY <1>1, Joined, Zenon
    <3> QED
      BY <3>1, Zenon DEF IsJoin
<1>3. DOMAIN u = 1..Len(u) /\ DOMAIN s = 1..Len(s) /\ DOMAIN t = 1..Len(t)
  BY <1>1, <1>2, LenProperties
<1> HIDE DEF u
<1>4. \A k \in 1..Len(s) : s[k] \in A
  BY <1>3 DEF Lists, Range
<1>5. \A n \in 1..Len(t) : t[n] \in B
  BY <1>3 DEF Lists, Range
<1>6. Range(u) = A \cup B
  <2>1. ASSUME NEW x \in A PROVE x \in Range(u)
    <3>1. PICK k \in 1..Len(s) : s[k] = x
      BY <1>3 DEF Lists, Range
    <3>2. k \in 1..Len(u) /\ u[k] = x
      BY <1>1, <1>2, <3>1 DEF IsJoin
    <3> QED
      BY <1>3, <3>2 DEF Range
  <2>2. ASSUME NEW x \in B PROVE x \in Range(u)
    <3>1. PICK n \in 1..Len(t) : t[n] = x
      BY <1>3 DEF Lists, Range
    <3>2. Len(s) + n \in 1..Len(u) /\ u[Len(s) + n] = x
      BY <1>1, <1>2, <3>1 DEF IsJoin
    <3> QED
      BY <1>3, <3>2 DEF Range
  <2>3. \A k \in 1..Len(u) : u[k] \in A \cup B
    BY <1>2, <1>4, <1>5 DEF IsJoin
  <2> QED
    BY <1>3, <2>1, <2>2, <2>3 DEF Range
<1>7. ASSUME NEW k \in 1..Len(u), NEW n \in 1..Len(u), u[k] = u[n] PROVE k = n
  <2>1. CASE k \in 1..Len(s) /\ n \in 1..Len(s)
    BY <1>2, <1>3, <1>7, <2>1 DEF IsJoin, Lists, IsInjective
  <2>2. CASE k \notin 1..Len(s) /\ n \notin 1..Len(s)
    <3>1. /\ k - Len(s) \in 1..Len(t) /\ u[k] = t[k - Len(s)]
          /\ n - Len(s) \in 1..Len(t) /\ u[n] = t[n - Len(s)]
      BY <1>2, <2>2 DEF IsJoin
    <3>2. k - Len(s) = n - Len(s)
      BY <1>3, <1>7, <3>1 DEF Lists, IsInjective
    <3> QED
      BY <1>1, <3>2
  <2>3. CASE ~ (k \in 1..Len(s) <=> n \in 1..Len(s))
    BY <1>2, <1>4, <1>5, <1>7, <2>3 DEF IsJoin
  <2> QED
    BY <2>1, <2>2, <2>3
<1>8. u \in Seq(A \cup B) /\ IsInjective(u)
  BY <1>2, <1>3, <1>7 DEF IsInjective
<1> QED
  BY <1>6, <1>8 DEF Lists, u
-----------------------------------------------------------------------------
(* Kept *)

\* The values of the recursion in Kept.
KeptTurn(u, S, s, I) ==
  /\ u \in [0..Len(s) -> Seq(S)] /\ u[0] = << >> /\ Kept(s, I) = u[Len(s)]
  /\ \A n \in 1..Len(s) : u[n] = IF n \in I THEN Append(u[n - 1], s[n]) ELSE u[n - 1]

LEMMA KeptTurns ==
  ASSUME NEW S, NEW s \in Seq(S), NEW I
  PROVE  \E u : KeptTurn(u, S, s, I)
<1> DEFINE N == Len(s)
           base == << >>
           V == Seq(S)
           Add(n, q) == IF n \in I THEN Append(q, s[n]) ELSE q
           G == [n \in 1..N |-> [q \in V |-> Add(n, q)]]
           upto[n \in 0..N] == IF n = 0 THEN << >>
                               ELSE IF n \in I THEN Append(upto[n - 1], s[n])
                                               ELSE upto[n - 1]
<1>1. base \in V /\ N \in Nat
  BY LenProperties
<1>2. \A n \in 1..N, q \in V : Add(n, q) \in V
  BY AppendProperties
<1>3. \A n \in 1..N, q \in V : G[n][q] = Add(n, q)
  OBVIOUS
<1>4. G \in [1..N -> [V -> V]]
  BY <1>2
<1>5. Kept(s, I) = upto[N]
  BY DEF Kept
<1> HIDE DEF V, G, upto, base, N
<1>6. PICK f \in [0..N -> V] : Solves(f, N, base, G)
  BY <1>1, <1>4, RecursionExists, Zenon
<1>7. ASSUME NEW n \in 1..N PROVE f[n] = Add(n, f[n - 1])
  <2>1. n - 1 \in 0..N
    BY <1>1
  <2>2. f[n - 1] \in V
    BY <2>1
  <2> QED
    BY <1>3, <1>6, <2>2 DEF Solves
<1>8. \A n \in 0..N : n # 0 => n \in 1..N
  BY <1>1
<1>9. f = [n \in 0..N |-> IF n = 0 THEN << >> ELSE IF n \in I THEN Append(f[n - 1], s[n])
                                                              ELSE f[n - 1]]
  <2>1. \A n \in 0..N :
          f[n] = IF n = 0 THEN << >> ELSE IF n \in I THEN Append(f[n - 1], s[n]) ELSE f[n - 1]
    BY <1>6, <1>7, <1>8 DEF Solves, base
  <2> QED
    BY <2>1
<1>10. upto = [n \in 0..N |-> IF n = 0 THEN << >>
                              ELSE IF n \in I THEN Append(upto[n - 1], s[n])
                                              ELSE upto[n - 1]]
  BY <1>9 DEF upto
<1>11. upto[0] = base /\ \A n \in 1..N : upto[n] = Add(n, upto[n - 1])
  <2>1. \A n \in 0..N :
          upto[n] = IF n = 0 THEN << >> ELSE IF n \in I THEN Append(upto[n - 1], s[n])
                                                         ELSE upto[n - 1]
    BY <1>10
  <2>2. 0 \in 0..N /\ \A n \in 1..N : n \in 0..N /\ n # 0
    BY <1>1
  <2> QED
    BY <2>1, <2>2 DEF base
<1>12. SolvesIn(upto, N, V, base, G)
  BY <1>3, <1>11 DEF SolvesIn
<1>13. \A n \in 0..N : upto[n] \in V
  BY <1>1, <1>4, <1>12, RecursionSolved, Zenon
<1>14. upto \in [0..N -> V]
  BY <1>10, <1>13
<1>15. KeptTurn(upto, S, s, I)
  BY <1>5, <1>11, <1>14 DEF V, base, N, KeptTurn
<1> QED
  BY <1>15

\* k is what s has at the positions of I up to n: h says where each comes from.
KeptBy(h, k, s, I, n) ==
  /\ h \in [1..Len(k) -> 1..n] /\ Len(k) <= n
  /\ \A i, j \in 1..Len(k) : i < j => h[i] < h[j]
  /\ \A m \in 1..n : m \in I <=> \E i \in 1..Len(k) : h[i] = m
  /\ \A i \in 1..Len(k) : k[i] = s[h[i]]

LEMMA KeptMore ==
  ASSUME NEW S, NEW s \in Seq(S), NEW I, NEW n \in 0..Len(s) - 1, NEW k \in Seq(S), NEW h,
         KeptBy(h, k, s, I, n), n + 1 \in I
  PROVE  \E g : KeptBy(g, Append(k, s[n + 1]), s, I, n + 1)
<1> DEFINE q == Append(k, s[n + 1])
           L == Len(k)
           g == [i \in 1..L + 1 |-> IF i = L + 1 THEN n + 1 ELSE h[i]]
<1>1. L \in Nat /\ Len(s) \in Nat /\ n \in Nat /\ n + 1 \in 1..Len(s)
  BY LenProperties
<1>2. /\ Len(q) = L + 1 /\ q[L + 1] = s[n + 1]
      /\ \A i \in 1..L : q[i] = k[i]
  BY <1>1, AppendProperties
<1>3. \A i \in 1..L : i \in 1..L + 1 /\ i # L + 1 /\ g[i] = h[i] /\ h[i] \in 1..n
  BY <1>1 DEF KeptBy
<1>4. L + 1 \in 1..L + 1 /\ g[L + 1] = n + 1 /\ \A i \in 1..L + 1 : i = L + 1 \/ i \in 1..L
  BY <1>1
<1>5. \A m \in 1..n + 1 : m = n + 1 \/ m \in 1..n
  BY <1>1
<1>6. \A i \in 1..L + 1 : g[i] \in 1..n + 1
  <2>1. n + 1 \in 1..n + 1 /\ \A m \in 1..n : m \in 1..n + 1
    BY <1>1
  <2> HIDE DEF g
  <2> QED
    BY <1>3, <1>4, <2>1
<1>7. g \in [1..L + 1 -> 1..n + 1]
  BY <1>6
<1> HIDE DEF g, q
<1>8. ASSUME NEW i \in 1..L + 1, NEW j \in 1..L + 1, i < j PROVE g[i] < g[j]
  <2>1. i \in 1..L
    BY <1>1, <1>8
  <2>2. CASE j = L + 1
    BY <1>1, <1>3, <1>4, <2>1, <2>2
  <2>3. CASE j \in 1..L
    BY <1>3, <1>8, <2>1, <2>3 DEF KeptBy
  <2> QED
    BY <1>4, <2>2, <2>3
<1>9. ASSUME NEW m \in 1..n + 1 PROVE m \in I <=> \E i \in 1..L + 1 : g[i] = m
  <2>1. CASE m = n + 1
    BY <1>4, <2>1
  <2>2. CASE m \in 1..n
    <3>1. m # n + 1
      BY <1>1, <2>2
    <3> QED
      BY <1>3, <1>4, <2>2, <3>1 DEF KeptBy
  <2> QED
    BY <1>5, <2>1, <2>2
<1>10. \A i \in 1..L + 1 : q[i] = s[g[i]]
  BY <1>2, <1>3, <1>4 DEF KeptBy
<1>11. L + 1 <= n + 1
  BY <1>1 DEF KeptBy
<1>12. KeptBy(g, q, s, I, n + 1)
  BY <1>2, <1>7, <1>8, <1>9, <1>10, <1>11 DEF KeptBy
<1> QED
  BY <1>12 DEF q

LEMMA KeptIsKept ==
  ASSUME NEW S, NEW s \in Seq(S), NEW I
  PROVE  Kept(s, I) \in Seq(S) /\ \E h : KeptBy(h, Kept(s, I), s, I, Len(s))
<1>0. PICK u : KeptTurn(u, S, s, I)
  BY KeptTurns, Zenon
<1>1. /\ u \in [0..Len(s) -> Seq(S)] /\ u[0] = << >> /\ Kept(s, I) = u[Len(s)]
      /\ \A n \in 1..Len(s) : u[n] = IF n \in I THEN Append(u[n - 1], s[n]) ELSE u[n - 1]
  BY <1>0 DEF KeptTurn
<1> DEFINE N == Len(s)
           P == {n \in 0..N : \E h : KeptBy(h, u[n], s, I, n)}
<1>2. N \in Nat /\ 0 \in 0..N /\ N \in 0..N
  BY LenProperties
<1>3. 0 \in P
  <2>1. Len(u[0]) = 0 /\ 1..0 = {}
    BY <1>1
  <2>2. KeptBy([i \in 1..0 |-> 0], u[0], s, I, 0)
    BY <2>1 DEF KeptBy
  <2> QED
    BY <1>2, <2>2
<1>4. ASSUME NEW n \in 0..N - 1, n \in P PROVE n + 1 \in P
  <2>1. /\ n \in 0..N /\ n + 1 \in 0..N /\ n + 1 \in 1..N /\ n \in Nat /\ u[n] \in Seq(S)
        /\ u[n + 1] = IF n + 1 \in I THEN Append(u[n], s[n + 1]) ELSE u[n]
    <3>1. n \in 0..N /\ n + 1 \in 0..N /\ n + 1 \in 1..N /\ n \in Nat /\ (n + 1) - 1 = n
      BY <1>2
    <3> QED
      BY <1>1, <3>1
  <2>2. PICK h : KeptBy(h, u[n], s, I, n)
    BY <1>4
  <2>3. CASE n + 1 \in I
    <3>1. \E g : KeptBy(g, Append(u[n], s[n + 1]), s, I, n + 1)
      BY <2>1, <2>2, <2>3, KeptMore
    <3> QED
      BY <2>1, <2>3, <3>1
  <2>4. CASE n + 1 \notin I
    <3>1. \A m \in 1..n + 1 : m \in 1..n \/ m = n + 1
      BY <2>1
    <3>2. \A m \in 1..n : m \in 1..n + 1 /\ m # n + 1
      BY <2>1
    <3>3. h \in [1..Len(u[n]) -> 1..n + 1]
      BY <2>2, <3>2 DEF KeptBy
    <3>4. Len(u[n]) <= n + 1
      <4>1. Len(u[n]) \in Nat
        BY <2>1, LenProperties
      <4> QED
        BY <2>1, <2>2, <4>1 DEF KeptBy
    <3>5. ASSUME NEW m \in 1..n + 1 PROVE m \in I <=> \E i \in 1..Len(u[n]) : h[i] = m
      BY <2>2, <2>4, <3>1, <3>2 DEF KeptBy
    <3>6. KeptBy(h, u[n], s, I, n + 1)
      BY <2>2, <3>3, <3>4, <3>5 DEF KeptBy
    <3> QED
      BY <2>1, <2>4, <3>6
  <2> QED
    BY <2>3, <2>4
<1> HIDE DEF P
<1>5. \A n \in 0..N : n \in P
  <2>1. \A n \in 0..N - 1 : n \in P => n + 1 \in P
    BY <1>4
  <2> QED
    BY <1>2, <1>3, <2>1, SetInduction
<1>6. N \in P
  BY <1>2, <1>5
<1> QED
  BY <1>1, <1>2, <1>6 DEF P
-----------------------------------------------------------------------------
(* multi_hop *)

\* A way of at most Depth links from a seed, the seed alone among them.
IsWay(p, seed) ==
  /\ p \in Seq(Pages) /\ Len(p) \in 1..Depth + 1
  /\ seed \in graph.nodes /\ p[1] = seed /\ IsInjective(p)
  /\ \A i \in 1..Len(p) - 1 : HasEdge(p[i], p[i + 1])

Begins(q, p) == Len(q) <= Len(p) /\ \A i \in 1..Len(q) : p[i] = q[i]

\* walk from the seeds s, between two turns of its loops.  The queue holds ways
\* from the seed under way, the shorter first, and none of it begins another of
\* it or one that is listed.
WalkShape(s, w) ==
  /\ w \in [seed : Nat, queue : Seq(Seq(Pages)), paths : Seq(Seq(Pages))]
  /\ w.seed <= Len(s) /\ Len(w.paths) <= MaxPaths
  /\ w.queue # << >> => w.seed > 0
QueueWays(s, w) == \A i \in 1..Len(w.queue) : IsWay(w.queue[i], s[w.seed])
QueueOrder(w) ==
  /\ \A i, j \in 1..Len(w.queue) : i < j => Len(w.queue[i]) <= Len(w.queue[j])
  /\ \A i \in 1..Len(w.queue) : Len(w.queue[i]) <= Len(w.queue[1]) + 1
QueueApart(w) ==
  \A i \in 1..Len(w.queue) :
    /\ \A j \in 1..Len(w.queue) : Begins(w.queue[i], w.queue[j]) => i = j
    /\ \A j \in 1..Len(w.paths) : ~ Begins(w.queue[i], w.paths[j])
\* Each listed path is a way from a seed so far, listed once; and of the seed
\* under way, not longer than what the queue holds.
PathWays(s, w) ==
  \A i \in 1..Len(w.paths) : \E j \in 1..w.seed : w.paths[i] \in SimplePaths(s[j])
PathsOnce(w) == IsInjective(w.paths)
PathsShort(s, w) ==
  \A i \in 1..Len(w.paths), j \in 1..Len(w.queue) :
    w.paths[i][1] = s[w.seed] => Len(w.paths[i]) <= Len(w.queue[j])
\* No way is lost: it is listed, or the queue has its beginning.
Pending(w, j, p) == \/ p \in Range(w.paths)
                    \/ j = w.seed /\ \E i \in 1..Len(w.queue) : Begins(w.queue[i], p)
NoneLost(s, w) == \A j \in 1..w.seed : \A p \in SimplePaths(s[j]) : Pending(w, j, p)

WalkSoFar(s, w) ==
  /\ WalkShape(s, w) /\ QueueWays(s, w) /\ QueueOrder(w) /\ QueueApart(w)
  /\ PathWays(s, w) /\ PathsOnce(w) /\ PathsShort(s, w) /\ NoneLost(s, w)

LEMMA BeginsAll ==
  ASSUME NEW p \in Seq(Pages), NEW q \in Seq(Pages), Begins(q, p), Len(p) <= Len(q)
  PROVE  p = q
<1>1. Len(p) \in Nat /\ Len(q) \in Nat
  BY LenProperties
<1>2. Len(p) = Len(q) /\ \A i \in 1..Len(p) : p[i] = q[i]
  BY <1>1 DEF Begins
<1> QED
  BY <1>2, SeqEqual

\* Two beginnings of one way: the shorter begins the longer.
LEMMA BeginsBoth ==
  ASSUME NEW p \in Seq(Pages), NEW q \in Seq(Pages), NEW r \in Seq(Pages)
  PROVE  /\ Begins(q, p) /\ Begins(r, p) /\ Len(q) <= Len(r) => Begins(q, r)
         /\ Begins(q, r) /\ Begins(r, p) => Begins(q, p)
<1>1. Len(p) \in Nat /\ Len(q) \in Nat /\ Len(r) \in Nat
  BY LenProperties
<1> QED
  BY <1>1 DEF Begins

\* The simple paths are the ways of a link at least.
LEMMA PathsAreWays ==
  ASSUME NEW seed
  PROVE  \A p : p \in SimplePaths(seed) <=> IsWay(p, seed) /\ Len(p) > 1
<1> SUFFICES ASSUME NEW p PROVE p \in SimplePaths(seed) <=> IsWay(p, seed) /\ Len(p) > 1
  OBVIOUS
<1>0. Depth \in Nat
  BY WalkAssumption
<1>1. ASSUME p \in SimplePaths(seed) PROVE IsWay(p, seed) /\ Len(p) > 1
  <2>1. PICK n \in 2..Depth + 1 : p \in [1..n -> Pages]
    BY <1>1 DEF SimplePaths
  <2>2. p \in Seq(Pages) /\ Len(p) = n /\ n \in Nat
    BY <1>0, <2>1
  <2> QED
    BY <1>0, <1>1, <2>2 DEF SimplePaths, IsWay
<1>2. ASSUME IsWay(p, seed), Len(p) > 1 PROVE p \in SimplePaths(seed)
  <2>1. Len(p) \in 2..Depth + 1 /\ p \in [1..Len(p) -> Pages]
    <3>1. p \in Seq(Pages) /\ Len(p) \in 1..Depth + 1
      BY <1>2 DEF IsWay
    <3> QED
      BY <1>0, <1>2, <3>1, LenProperties
  <2> QED
    BY <1>2, <2>1 DEF SimplePaths, IsWay
<1> QED
  BY <1>1, <1>2

\* What one turn puts into the queue for a path: the ways that go on from it.
Grown(path, seed, e) ==
  /\ e \in Seq(Seq(Pages))
  /\ \A i \in 1..Len(e) : IsWay(e[i], seed) /\ Len(e[i]) = Len(path) + 1 /\ Begins(path, e[i])
  /\ \A i, j \in 1..Len(e) : Begins(e[i], e[j]) => i = j
  /\ \A p : IsWay(p, seed) /\ Begins(path, p) /\ p # path => \E i \in 1..Len(e) : Begins(e[i], p)

LEMMA AtTheEnd ==
  ASSUME NEW path, NEW seed, IsWay(path, seed), Len(path) > Depth
  PROVE  Grown(path, seed, << >>)
<1>1. << >> \in Seq(Seq(Pages)) /\ Len(<< >>) = 0
  BY EmptySeq
<1>2. ASSUME NEW p, IsWay(p, seed), Begins(path, p) PROVE p = path
  <2>1. /\ p \in Seq(Pages) /\ path \in Seq(Pages)
        /\ Len(p) \in 1..Depth + 1 /\ Len(path) \in 1..Depth + 1
    BY <1>2 DEF IsWay
  <2>2. Len(p) <= Len(path)
    BY <2>1, WalkAssumption
  <2> QED
    BY <1>2, <2>1, <2>2, BeginsAll
<1>3. \A i \in 1..Len(<< >>) : FALSE
  BY <1>1
<1> QED
  BY <1>1, <1>2, <1>3 DEF Grown

LEMMA OneLinkOn ==
  ASSUME NEW path, NEW seed, IsWay(path, seed), Len(path) <= Depth,
         NEW n \in Neighbors({Last(path)}) \ Range(path)
  PROVE  /\ IsWay(Append(path, n), seed) /\ Len(Append(path, n)) = Len(path) + 1
         /\ Begins(path, Append(path, n)) /\ Append(path, n)[Len(path) + 1] = n
<1> DEFINE q == Append(path, n)
           L == Len(path)
<1>1. path \in Seq(Pages) /\ L \in Nat /\ L > 0 /\ L \in 1..Depth + 1 /\ Depth \in Nat
  BY WalkAssumption DEF IsWay
<1>2. n \in Pages /\ HasEdge(path[L], n)
  BY DEF Neighbors, Last
<1>3. q \in Seq(Pages) /\ Len(q) = L + 1 /\ q[L + 1] = n /\ \A i \in 1..L : q[i] = path[i]
  BY <1>1, <1>2, AppendProperties
<1>4. DOMAIN path = 1..L /\ DOMAIN q = 1..L + 1
  BY <1>1, <1>3, LenProperties
<1>5. \A i \in 1..L : path[i] # n
  BY <1>4 DEF Range
<1> HIDE DEF q
<1>6. IsInjective(q)
  <2> SUFFICES ASSUME NEW i \in 1..L + 1, NEW j \in 1..L + 1, q[i] = q[j] PROVE i = j
    BY <1>4 DEF IsInjective
  <2>1. \A k \in 1..L + 1 : k \in 1..L \/ k = L + 1
    BY <1>1
  <2> QED
    BY <1>3, <1>4, <1>5, <2>1 DEF IsWay, IsInjective
<1>7. ASSUME NEW i \in 1..Len(q) - 1 PROVE HasEdge(q[i], q[i + 1])
  <2>1. CASE i = L
    BY <1>1, <1>2, <1>3, <2>1
  <2>2. CASE i # L
    <3>1. i \in 1..L - 1 /\ i + 1 \in 1..L /\ i \in 1..L
      BY <1>1, <1>3, <2>2
    <3>2. HasEdge(path[i], path[i + 1])
      BY <3>1 DEF IsWay
    <3> QED
      BY <1>3, <3>1, <3>2
  <2> QED
    BY <2>1, <2>2
<1>8. q[1] = seed /\ Len(q) \in 1..Depth + 1 /\ seed \in graph.nodes
  <2>1. path[1] = seed /\ seed \in graph.nodes
    BY DEF IsWay
  <2> QED
    BY <1>1, <1>3, <2>1
<1>9. IsWay(q, seed)
  BY <1>3, <1>6, <1>7, <1>8 DEF IsWay
<1>10. Begins(path, q)
  BY <1>1, <1>3 DEF Begins
<1> QED
  BY <1>3, <1>9, <1>10 DEF q

LEMMA ExtensionsGrow ==
  ASSUME NEW path, NEW seed, IsWay(path, seed), Len(path) <= Depth
  PROVE  Grown(path, seed, Extensions(path))
<1> DEFINE N == Neighbors({Last(path)}) \ Range(path)
           next == SetToSeq(N)
           e == Extensions(path)
           L == Len(path)
<1>1. path \in Seq(Pages) /\ L \in Nat /\ L > 0 /\ DOMAIN path = 1..L /\ Depth \in Nat
  BY WalkAssumption, LenProperties DEF IsWay
<1>2. N \subseteq Pages /\ IsFiniteSet(N)
  <2>1. N \subseteq Pages
    BY DEF Neighbors
  <2> QED
    BY <2>1, PagesAssumption, FS_Subset
<1>3. Lists(next, N)
  <2> HIDE DEF N
  <2> QED
    BY <1>2, Enumeration
<1>4. next \in Seq(N) /\ Len(next) \in Nat /\ DOMAIN next = 1..Len(next)
  BY <1>3, LenProperties DEF Lists
<1>5. e = [i \in 1..Len(next) |-> Append(path, next[i])]
  BY DEF Extensions
<1>6. \A n \in N : /\ IsWay(Append(path, n), seed) /\ Len(Append(path, n)) = L + 1
                   /\ Begins(path, Append(path, n)) /\ Append(path, n)[L + 1] = n
                   /\ Append(path, n) \in Seq(Pages)
  <2>1. ASSUME NEW n \in N
        PROVE /\ IsWay(Append(path, n), seed) /\ Len(Append(path, n)) = L + 1
              /\ Begins(path, Append(path, n)) /\ Append(path, n)[L + 1] = n
    BY OneLinkOn
  <2> QED
    BY <2>1 DEF IsWay
<1>7. \A n \in N : \E i \in 1..Len(next) : next[i] = n
  BY <1>3, <1>4 DEF Lists, Range
<1> HIDE DEF N, next, e
<1>8. \A i \in 1..Len(next) : next[i] \in N /\ e[i] = Append(path, next[i])
  BY <1>4, <1>5
<1>9. e \in Seq(Seq(Pages)) /\ Len(e) = Len(next)
  <2>1. e \in [1..Len(next) -> Seq(Pages)]
    BY <1>5, <1>6, <1>8
  <2> QED
    BY <1>4, <2>1
<1>10. ASSUME NEW i \in 1..Len(e)
       PROVE  IsWay(e[i], seed) /\ Len(e[i]) = Len(path) + 1 /\ Begins(path, e[i])
  BY <1>6, <1>8, <1>9
<1>11. ASSUME NEW i \in 1..Len(e), NEW j \in 1..Len(e), Begins(e[i], e[j]) PROVE i = j
  <2>1. L + 1 \in 1..Len(e[i]) /\ e[i][L + 1] = next[i] /\ e[j][L + 1] = next[j]
    BY <1>1, <1>6, <1>8, <1>9
  <2>2. next[i] = next[j]
    BY <1>11, <2>1 DEF Begins
  <2> QED
    BY <1>3, <1>4, <1>9, <2>2 DEF Lists, IsInjective
<1>12. ASSUME NEW p, IsWay(p, seed), Begins(path, p), p # path
       PROVE  \E i \in 1..Len(e) : Begins(e[i], p)
  <2>1. p \in Seq(Pages) /\ Len(p) \in Nat /\ DOMAIN p = 1..Len(p)
    BY <1>12, LenProperties DEF IsWay
  <2>2. ~ Len(p) <= L
    BY <1>1, <1>12, <2>1, BeginsAll
  <2>3. L \in 1..Len(p) /\ L + 1 \in 1..Len(p) /\ L \in 1..Len(p) - 1 /\ L \in 1..L
    BY <1>1, <2>1, <2>2
  <2>4. p[L] = path[L] /\ \A i \in 1..L : p[i] = path[i]
    BY <1>12, <2>3 DEF Begins
  <2>5. p[L + 1] \in Pages /\ HasEdge(path[L], p[L + 1])
    <3>1. HasEdge(p[L], p[L + 1])
      BY <1>12, <2>3 DEF IsWay
    <3>2. p[L + 1] \in Pages
      BY <2>1, <2>3
    <3> QED
      BY <2>4, <3>1, <3>2
  <2>6. p[L + 1] \notin Range(path)
    <3> SUFFICES ASSUME NEW i \in 1..L, path[i] = p[L + 1] PROVE FALSE
      BY <1>1 DEF Range
    <3>1. i \in 1..Len(p) /\ p[i] = p[L + 1] /\ i # L + 1
      BY <1>1, <2>1, <2>3, <2>4
    <3> QED
      BY <1>12, <2>1, <2>3, <3>1 DEF IsWay, IsInjective
  <2>7. p[L + 1] \in N
    BY <2>5, <2>6 DEF N, Neighbors, Last
  <2>8. PICK i \in 1..Len(next) : next[i] = p[L + 1]
    BY <1>7, <2>7
  <2>9. /\ Len(e[i]) = L + 1 /\ e[i][L + 1] = p[L + 1]
        /\ \A k \in 1..L : e[i][k] = path[k]
    <3>1. e[i] = Append(path, next[i]) /\ next[i] \in N
      BY <1>8
    <3>2. Begins(path, e[i]) /\ Len(e[i]) = L + 1 /\ e[i][L + 1] = next[i]
      BY <1>6, <3>1
    <3> QED
      BY <2>8, <3>2 DEF Begins
  <2>10. \A k \in 1..L + 1 : k \in 1..L \/ k = L + 1
    BY <1>1
  <2>11. L + 1 <= Len(p)
    BY <2>3, <2>1
  <2>12. Begins(e[i], p)
    BY <2>4, <2>9, <2>10, <2>11 DEF Begins
  <2> QED
    BY <1>9, <2>12
<1> QED
  BY <1>9, <1>10, <1>11, <1>12 DEF Grown, e

\* u is the queue q without its first path, with e behind.
Requeued(u, q, e) ==
  /\ u \in Seq(Seq(Pages)) /\ Len(u) = (Len(q) - 1) + Len(e)
  /\ \A k \in 1..Len(u) : \/ k + 1 \in 2..Len(q) /\ u[k] = q[k + 1]
                          \/ \E i \in 1..Len(e) : k = (Len(q) - 1) + i /\ u[k] = e[i]
  /\ \A k \in 2..Len(q) : k - 1 \in 1..Len(u) /\ u[k - 1] = q[k]
  /\ \A i \in 1..Len(e) : (Len(q) - 1) + i \in 1..Len(u) /\ u[(Len(q) - 1) + i] = e[i]

LEMMA QueueTurned ==
  ASSUME NEW q \in Seq(Seq(Pages)), q # << >>, NEW e \in Seq(Seq(Pages))
  PROVE  Requeued(Tail(q) \o e, q, e)
<1> DEFINE S == Seq(Pages)
           t == Tail(q)
           u == t \o e
<1>1. /\ t \in Seq(S) /\ Len(t) = Len(q) - 1 /\ Len(q) \in Nat /\ Len(q) > 0 /\ Len(e) \in Nat
      /\ \A k \in 1..Len(q) - 1 : t[k] = q[k + 1]
  BY LenProperties, HeadTailProperties, EmptySeq
<1> HIDE DEF t
<1>2. u \in Seq(S) /\ IsJoin(u, t, e)
  BY <1>1, Joined
<1> HIDE DEF u, S
<1>3. /\ Len(u) = (Len(q) - 1) + Len(e)
      /\ \A k \in 1..Len(q) - 1 : u[k] = q[k + 1] /\ k \in 1..Len(u)
      /\ \A n \in 1..Len(e) : u[(Len(q) - 1) + n] = e[n]
  BY <1>1, <1>2 DEF IsJoin
<1>4. ASSUME NEW k \in 1..Len(u)
      PROVE  \/ k + 1 \in 2..Len(q) /\ u[k] = q[k + 1]
             \/ \E i \in 1..Len(e) : k = (Len(q) - 1) + i /\ u[k] = e[i]
  <2>1. CASE k <= Len(q) - 1
    <3>1. k \in 1..Len(q) - 1 /\ k + 1 \in 2..Len(q)
      BY <1>1, <1>3, <2>1
    <3> QED
      BY <1>3, <3>1
  <2>2. CASE ~ k <= Len(q) - 1
    <3>1. k - (Len(q) - 1) \in 1..Len(e) /\ k = (Len(q) - 1) + (k - (Len(q) - 1))
      BY <1>1, <1>3, <2>2
    <3> QED
      BY <1>3, <3>1
  <2> QED
    BY <2>1, <2>2
<1>5. ASSUME NEW k \in 2..Len(q) PROVE k - 1 \in 1..Len(u) /\ u[k - 1] = q[k]
  <2>1. k - 1 \in 1..Len(q) - 1 /\ (k - 1) + 1 = k
    BY <1>1
  <2> QED
    BY <1>3, <2>1
<1>6. \A i \in 1..Len(e) : (Len(q) - 1) + i \in 1..Len(u)
  BY <1>1, <1>3
<1> QED
  BY <1>2, <1>3, <1>4, <1>5, <1>6 DEF Requeued, u, S, t

\* l is the list p, with path behind when it has a link.
Relisted(l, p, path) ==
  /\ l \in Seq(Seq(Pages)) /\ Len(l) <= Len(p) + 1
  /\ \A i \in 1..Len(l) : \/ i \in 1..Len(p) /\ l[i] = p[i]
                          \/ i = Len(p) + 1 /\ l[i] = path /\ Len(path) > 1
  /\ \A i \in 1..Len(p) : i \in 1..Len(l) /\ l[i] = p[i]
  /\ Len(path) > 1 => Len(p) + 1 \in 1..Len(l) /\ l[Len(p) + 1] = path

LEMMA ListTurned ==
  ASSUME NEW p \in Seq(Seq(Pages)), NEW path \in Seq(Pages)
  PROVE  Relisted(IF Len(path) > 1 THEN Append(p, path) ELSE p, p, path)
<1> DEFINE S == Seq(Pages)
<1>1. Len(p) \in Nat /\ Len(path) \in Nat
  BY LenProperties
<1>2. CASE Len(path) > 1
  <2>1. /\ Append(p, path) \in Seq(S) /\ Len(Append(p, path)) = Len(p) + 1
        /\ Append(p, path)[Len(p) + 1] = path
        /\ \A i \in 1..Len(p) : Append(p, path)[i] = p[i]
    BY <1>1, AppendProperties
  <2>2. \A i \in 1..Len(p) + 1 : i \in 1..Len(p) \/ i = Len(p) + 1
    BY <1>1
  <2>3. Len(p) + 1 \in 1..Len(p) + 1 /\ \A i \in 1..Len(p) : i \in 1..Len(p) + 1
    BY <1>1
  <2>4. Relisted(Append(p, path), p, path)
    <3> HIDE DEF S
    <3>1. Len(Append(p, path)) <= Len(p) + 1
      BY <1>1, <2>1
    <3> QED
      BY <1>2, <2>1, <2>2, <2>3, <3>1 DEF Relisted, S
  <2> QED
    BY <1>2, <2>4
<1>3. CASE ~ Len(path) > 1
  <2>1. Len(p) <= Len(p) + 1
    BY <1>1
  <2> QED
    BY <1>3, <2>1 DEF Relisted
<1> QED
  BY <1>2, <1>3

\* The parts of WalkSoFar after a turn: v is the loop after it.
Turned(s, w, v, e) ==
  /\ WalkSoFar(s, w) /\ Len(w.queue) \in Nat /\ Len(w.queue) > 0 /\ w.seed \in 1..Len(s)
  /\ Len(w.paths) \in Nat
  /\ v \in [seed : Nat, queue : Seq(Seq(Pages)), paths : Seq(Seq(Pages))] /\ v.seed = w.seed
  /\ Grown(w.queue[1], s[w.seed], e) /\ Len(e) \in Nat
  /\ Requeued(v.queue, w.queue, e) /\ Relisted(v.paths, w.paths, w.queue[1])

LEMMA TurnedWays ==
  ASSUME NEW s, NEW w, NEW v, NEW e, Turned(s, w, v, e)
  PROVE  /\ QueueWays(s, v) /\ QueueOrder(v)
         /\ \A k \in 1..Len(v.queue) : Len(w.queue[1]) <= Len(v.queue[k])
<1> DEFINE q == w.queue
           u == v.queue
           L == Len(q[1])
<1>1. /\ \A i \in 1..Len(q) : IsWay(q[i], s[w.seed])
      /\ \A i, j \in 1..Len(q) : i < j => Len(q[i]) <= Len(q[j])
      /\ \A i \in 1..Len(q) : Len(q[i]) <= L + 1
      /\ \A i \in 1..Len(e) : IsWay(e[i], s[w.seed]) /\ Len(e[i]) = L + 1
      /\ Len(q) \in Nat /\ Len(q) > 0 /\ Len(e) \in Nat /\ 1 \in 1..Len(q)
  BY DEF Turned, WalkSoFar, QueueWays, QueueOrder, Grown
<1>2. /\ Len(u) = (Len(q) - 1) + Len(e)
      /\ \A k \in 1..Len(u) : \/ k + 1 \in 2..Len(q) /\ u[k] = q[k + 1]
                              \/ \E i \in 1..Len(e) : k = (Len(q) - 1) + i /\ u[k] = e[i]
  BY DEF Turned, Requeued
<1>3. \A i \in 1..Len(q) : Len(q[i]) \in Nat
  BY <1>1 DEF IsWay
<1>4. v.seed = w.seed
  BY DEF Turned
<1> HIDE DEF q, u
<1>5. \A k \in 2..Len(q) : k \in 1..Len(q)
  BY <1>1
<1>6. \A k \in 1..Len(u) : /\ IsWay(u[k], s[w.seed]) /\ Len(u[k]) \in Nat /\ Len(u[k]) <= L + 1
                           /\ L <= Len(u[k])
  <2>1. \A k \in 2..Len(q) : L <= Len(q[k])
    BY <1>1
  <2>2. \A k \in 2..Len(q) : /\ IsWay(q[k], s[w.seed]) /\ Len(q[k]) \in Nat /\ Len(q[k]) <= L + 1
                             /\ L <= Len(q[k])
    BY <1>1, <1>3, <1>5, <2>1
  <2>3. L \in Nat
    BY <1>1, <1>3
  <2>4. L + 1 \in Nat /\ L + 1 <= L + 1 /\ L <= L + 1
    BY <2>3
  <2> HIDE DEF L
  <2>5. \A i \in 1..Len(e) : /\ IsWay(e[i], s[w.seed]) /\ Len(e[i]) \in Nat /\ Len(e[i]) <= L + 1
                             /\ L <= Len(e[i])
    BY <1>1, <2>4
  <2> QED
    BY <1>2, <2>2, <2>5
<1>7. ASSUME NEW i \in 1..Len(u), NEW j \in 1..Len(u), i < j PROVE Len(u[i]) <= Len(u[j])
  <2>1. CASE j + 1 \in 2..Len(q) /\ u[j] = q[j + 1]
    <3>1. i + 1 \in 2..Len(q) /\ i + 1 < j + 1 /\ \A k \in 1..Len(e) : i # (Len(q) - 1) + k
      BY <1>1, <1>7, <2>1
    <3>2. u[i] = q[i + 1]
      BY <1>2, <3>1
    <3> QED
      BY <1>1, <1>5, <2>1, <3>1, <3>2
  <2>2. CASE \E k \in 1..Len(e) : u[j] = e[k]
    BY <1>1, <1>6, <2>2
  <2> QED
    BY <1>2, <2>1, <2>2
<1>8. ASSUME NEW i \in 1..Len(u) PROVE Len(u[i]) <= Len(u[1]) + 1
  <2>1. 1 \in 1..Len(u)
    BY <1>1, <1>2
  <2>2. L \in Nat
    BY <1>1, <1>3
  <2> HIDE DEF L
  <2> QED
    BY <1>6, <2>1, <2>2
<1> QED
  BY <1>4, <1>6, <1>7, <1>8 DEF QueueWays, QueueOrder, u, q

LEMMA TurnedApart ==
  ASSUME NEW s, NEW w, NEW v, NEW e, Turned(s, w, v, e)
  PROVE  QueueApart(v)
<1> DEFINE q == w.queue
           u == v.queue
           p == w.paths
           l == v.paths
           path == q[1]
           L == Len(path)
<1>1. /\ \A i \in 1..Len(q) : q[i] \in Seq(Pages)
      /\ \A i \in 1..Len(e) : e[i] \in Seq(Pages) /\ Len(e[i]) = L + 1 /\ Begins(path, e[i])
      /\ \A i, j \in 1..Len(e) : Begins(e[i], e[j]) => i = j
      /\ Len(q) \in Nat /\ Len(q) > 0 /\ 1 \in 1..Len(q) /\ Len(p) \in Nat /\ Len(e) \in Nat
  BY DEF Turned, WalkSoFar, QueueWays, Grown, IsWay
<1>2. \A i \in 1..Len(q), j \in 1..Len(q) : Begins(q[i], q[j]) => i = j
  BY DEF Turned, WalkSoFar, QueueApart
<1>3. \A i \in 1..Len(q), j \in 1..Len(p) : ~ Begins(q[i], p[j])
  BY DEF Turned, WalkSoFar, QueueApart
<1>4. \A k \in 1..Len(u) : \/ k + 1 \in 2..Len(q) /\ u[k] = q[k + 1]
                           \/ \E i \in 1..Len(e) : k = (Len(q) - 1) + i /\ u[k] = e[i]
  BY DEF Turned, Requeued
<1>5. \A j \in 1..Len(l) : \/ j \in 1..Len(p) /\ l[j] = p[j]
                           \/ l[j] = path
  BY DEF Turned, Relisted
<1>6. \A j \in 1..Len(p) : p[j] \in Seq(Pages)
  BY DEF Turned, WalkSoFar, WalkShape
<1> HIDE DEF q, u, p, l
<1>7. \A k \in 2..Len(q) : k \in 1..Len(q) /\ k # 1
  BY <1>1
<1>8. path \in Seq(Pages) /\ L \in Nat
  BY <1>1, LenProperties
<1> HIDE DEF path
<1>9. ASSUME NEW k \in 2..Len(q)
      PROVE  /\ ~ Begins(q[k], path) /\ ~ Begins(path, q[k])
             /\ \A i \in 1..Len(e) : ~ Begins(q[k], e[i]) /\ ~ Begins(e[i], q[k])
  <2>1. ~ Begins(q[k], path) /\ ~ Begins(path, q[k])
    BY <1>1, <1>2, <1>7 DEF path
  <2>2. q[k] \in Seq(Pages) /\ Len(q[k]) \in Nat
    BY <1>1, <1>7, LenProperties
  <2>3. ASSUME NEW i \in 1..Len(e) PROVE ~ Begins(q[k], e[i])
    BY <1>1, <1>8, <2>1, <2>2, BeginsBoth
  <2>4. ASSUME NEW i \in 1..Len(e) PROVE ~ Begins(e[i], q[k])
    BY <1>1, <1>8, <2>1, <2>2, BeginsBoth
  <2> QED
    BY <2>1, <2>3, <2>4
<1>10. ASSUME NEW i \in 1..Len(e)
       PROVE  ~ Begins(e[i], path) /\ \A j \in 1..Len(p) : ~ Begins(e[i], p[j])
  <2>1. ~ Begins(e[i], path)
    BY <1>1, <1>8 DEF Begins
  <2>2. ASSUME NEW j \in 1..Len(p) PROVE ~ Begins(e[i], p[j])
    <3>1. ~ Begins(path, p[j])
      BY <1>1, <1>3 DEF path
    <3> QED
      BY <1>1, <1>6, <1>8, <3>1, BeginsBoth
  <2> QED
    BY <2>1, <2>2
<1>11. ASSUME NEW i \in 1..Len(u), NEW j \in 1..Len(u), Begins(u[i], u[j]) PROVE i = j
  <2>1. CASE /\ i + 1 \in 2..Len(q) /\ u[i] = q[i + 1]
             /\ j + 1 \in 2..Len(q) /\ u[j] = q[j + 1]
    <3>1. i + 1 = j + 1
      BY <1>2, <1>7, <1>11, <2>1
    <3> QED
      BY <3>1
  <2>2. CASE i + 1 \in 2..Len(q) /\ u[i] = q[i + 1] /\ \E k \in 1..Len(e) : u[j] = e[k]
    BY <1>9, <1>11, <2>2
  <2>3. CASE j + 1 \in 2..Len(q) /\ u[j] = q[j + 1] /\ \E k \in 1..Len(e) : u[i] = e[k]
    BY <1>9, <1>11, <2>3
  <2>4. CASE /\ \E k \in 1..Len(e) : i = (Len(q) - 1) + k /\ u[i] = e[k]
             /\ \E k \in 1..Len(e) : j = (Len(q) - 1) + k /\ u[j] = e[k]
    BY <1>1, <1>11, <2>4
  <2> QED
    BY <1>4, <2>1, <2>2, <2>3, <2>4
<1>12. ASSUME NEW i \in 1..Len(u), NEW j \in 1..Len(l) PROVE ~ Begins(u[i], l[j])
  <2>1. CASE i + 1 \in 2..Len(q) /\ u[i] = q[i + 1]
    BY <1>3, <1>5, <1>7, <1>9, <2>1
  <2>2. CASE \E k \in 1..Len(e) : u[i] = e[k]
    BY <1>5, <1>10, <2>2
  <2> QED
    BY <1>4, <2>1, <2>2
<1> QED
  BY <1>11, <1>12 DEF QueueApart, u, l

LEMMA TurnedPaths ==
  ASSUME NEW s, NEW w, NEW v, NEW e, Turned(s, w, v, e)
  PROVE  PathWays(s, v) /\ PathsOnce(v) /\ PathsShort(s, v)
<1> DEFINE p == w.paths
           l == v.paths
           path == w.queue[1]
<1>1. /\ Len(w.queue) \in Nat /\ 1 \in 1..Len(w.queue) /\ w.seed \in 1..Len(s)
      /\ v.seed = w.seed /\ Len(p) \in Nat
  BY DEF Turned
<1>2. IsWay(path, s[w.seed])
  BY <1>1 DEF Turned, WalkSoFar, QueueWays
<1>3. \A j \in 1..Len(p) : ~ Begins(path, p[j])
  BY <1>1 DEF Turned, WalkSoFar, QueueApart
<1>4. \A i \in 1..Len(l) : \/ i \in 1..Len(p) /\ l[i] = p[i]
                           \/ i = Len(p) + 1 /\ l[i] = path /\ Len(path) > 1
  BY DEF Turned, Relisted
<1>5. p \in Seq(Seq(Pages)) /\ l \in Seq(Seq(Pages))
  BY DEF Turned, WalkSoFar, WalkShape
<1>6. DOMAIN p = 1..Len(p) /\ DOMAIN l = 1..Len(l)
  BY <1>5, LenProperties
<1>7. \A i \in 1..Len(p) : \E j \in 1..w.seed : p[i] \in SimplePaths(s[j])
  BY DEF Turned, WalkSoFar, PathWays
<1>8. \A i, j \in 1..Len(p) : p[i] = p[j] => i = j
  BY <1>6 DEF Turned, WalkSoFar, PathsOnce, IsInjective
<1>9. \A i \in 1..Len(p) : p[i][1] = s[w.seed] => Len(p[i]) <= Len(path)
  BY <1>1 DEF Turned, WalkSoFar, PathsShort
<1>10. \A k \in 1..Len(v.queue) : Len(path) <= Len(v.queue[k])
  BY TurnedWays
<1>11. \A k \in 1..Len(v.queue) : IsWay(v.queue[k], s[v.seed])
  BY TurnedWays DEF QueueWays
<1> HIDE DEF p, l, path
<1>12. PathWays(s, v)
  <2>1. Len(path) > 1 => path \in SimplePaths(s[w.seed])
    BY <1>2, PathsAreWays
  <2>2. w.seed \in 1..w.seed
    BY <1>1
  <2> QED
    BY <1>1, <1>4, <1>7, <2>1, <2>2 DEF PathWays, l
<1>13. PathsOnce(v)
  <2>1. \A j \in 1..Len(p) : p[j] # path
    <3>1. Len(path) \in Nat
      BY <1>2 DEF IsWay
    <3>2. Begins(path, path)
      BY <3>1 DEF Begins
    <3> QED
      BY <1>3, <3>2
  <2>2. \A i, j \in 1..Len(l) : l[i] = l[j] => i = j
    BY <1>4, <1>8, <2>1
  <2> QED
    BY <1>6, <2>2 DEF PathsOnce, IsInjective, l
<1>14. PathsShort(s, v)
  <2> SUFFICES ASSUME NEW i \in 1..Len(l), NEW j \in 1..Len(v.queue), l[i][1] = s[w.seed]
               PROVE  Len(l[i]) <= Len(v.queue[j])
    BY <1>1 DEF PathsShort, l
  <2>1. Len(path) <= Len(v.queue[j])
    BY <1>10
  <2>2. CASE l[i] = path
    BY <2>1, <2>2
  <2>3. CASE i \in 1..Len(p) /\ l[i] = p[i]
    <3>1. Len(p[i]) <= Len(path)
      BY <1>9, <2>3
    <3>2. p[i] \in Seq(Pages)
      BY <1>5, <1>6, <2>3
    <3>3. Len(p[i]) \in Nat /\ Len(path) \in Nat /\ Len(v.queue[j]) \in Nat
      BY <1>2, <1>11, <3>2, LenProperties DEF IsWay
    <3> QED
      BY <2>1, <2>3, <3>1, <3>3
  <2> QED
    BY <1>4, <2>2, <2>3
<1> QED
  BY <1>12, <1>13, <1>14

LEMMA TurnedLost ==
  ASSUME NEW s, NEW w, NEW v, NEW e, Turned(s, w, v, e)
  PROVE  NoneLost(s, v)
<1> DEFINE q == w.queue
           u == v.queue
           path == q[1]
<1> SUFFICES ASSUME NEW j \in 1..w.seed, NEW p \in SimplePaths(s[j]) PROVE Pending(v, j, p)
  BY DEF NoneLost, Turned
<1>1. /\ Len(q) \in Nat /\ 1 \in 1..Len(q) /\ v.seed = w.seed /\ Len(q) > 0
  BY DEF Turned
<1>2. Pending(w, j, p)
  BY DEF Turned, WalkSoFar, NoneLost
<1>3. DOMAIN w.paths = 1..Len(w.paths) /\ DOMAIN v.paths = 1..Len(v.paths)
  BY LenProperties DEF Turned, WalkSoFar, WalkShape
<1>4. CASE p \in Range(w.paths)
  <2>1. PICK i \in 1..Len(w.paths) : w.paths[i] = p
    BY <1>3, <1>4 DEF Range
  <2>2. i \in 1..Len(v.paths) /\ v.paths[i] = p
    BY <2>1 DEF Turned, Relisted
  <2> QED
    BY <1>3, <2>2 DEF Pending, Range
<1>5. ASSUME j = w.seed, NEW i \in 1..Len(q), Begins(q[i], p) PROVE Pending(v, j, p)
  <2>1. CASE i # 1
    <3>1. i \in 2..Len(q)
      BY <1>1, <2>1
    <3>2. i - 1 \in 1..Len(u) /\ u[i - 1] = q[i]
      BY <3>1 DEF Turned, Requeued
    <3> QED
      BY <1>1, <1>5, <3>2 DEF Pending
  <2>2. CASE i = 1 /\ p # path
    <3>1. IsWay(p, s[w.seed])
      BY <1>5, PathsAreWays
    <3>2. PICK k \in 1..Len(e) : Begins(e[k], p)
      BY <1>5, <2>2, <3>1 DEF Turned, Grown
    <3>3. (Len(q) - 1) + k \in 1..Len(u) /\ u[(Len(q) - 1) + k] = e[k]
      BY DEF Turned, Requeued
    <3> QED
      BY <1>1, <1>5, <3>2, <3>3 DEF Pending
  <2>3. CASE p = path
    <3>1. Len(path) > 1
      BY <2>3, PathsAreWays
    <3>2. Len(w.paths) + 1 \in 1..Len(v.paths) /\ v.paths[Len(w.paths) + 1] = path
      BY <3>1 DEF Turned, Relisted
    <3> QED
      BY <1>3, <2>3, <3>2 DEF Pending, Range
  <2> QED
    BY <2>1, <2>2, <2>3
<1> QED
  BY <1>2, <1>4, <1>5 DEF Pending

LEMMA LoopFields ==
  ASSUME NEW A, NEW B, NEW C, NEW w \in [seed : A, queue : B, paths : C], NEW a, NEW b
  PROVE  LET v == [w EXCEPT !.queue = a, !.paths = b]
         IN /\ v.seed = w.seed /\ v.queue = a /\ v.paths = b
            /\ a \in B /\ b \in C => v \in [seed : A, queue : B, paths : C]
OBVIOUS

\* One turn of the `while` loop.
LEMMA TurnWalks ==
  ASSUME NEW s, NEW w, WalkSoFar(s, w), w.queue # << >>, Len(w.paths) < MaxPaths
  PROVE  WalkSoFar(s, Turn(w))
<1> DEFINE path == Head(w.queue)
           e == IF Len(path) > Depth THEN << >> ELSE Extensions(path)
           v == Turn(w)
<1>1. /\ w \in [seed : Nat, queue : Seq(Seq(Pages)), paths : Seq(Seq(Pages))]
      /\ w.seed <= Len(s) /\ w.seed > 0
  BY DEF WalkSoFar, WalkShape
<1>2. /\ path = w.queue[1] /\ Len(w.queue) \in Nat /\ Len(w.queue) > 0 /\ Len(w.paths) \in Nat
  BY <1>1, HeadTailProperties, LenProperties, EmptySeq
<1>3. IsWay(path, s[w.seed])
  <2>1. 1 \in 1..Len(w.queue)
    BY <1>2
  <2> QED
    BY <1>2, <2>1 DEF WalkSoFar, QueueWays
<1>4. path \in Seq(Pages)
  BY <1>3 DEF IsWay
<1>5. Grown(path, s[w.seed], e)
  <2>1. CASE Len(path) > Depth
    BY <1>3, <2>1, AtTheEnd
  <2>2. CASE ~ Len(path) > Depth
    <3>1. Len(path) <= Depth
      BY <1>3, <2>2, WalkAssumption DEF IsWay
    <3> QED
      BY <1>3, <2>2, <3>1, ExtensionsGrow
  <2> QED
    BY <2>1, <2>2
<1>6. e \in Seq(Seq(Pages))
  BY <1>5 DEF Grown
<1>7. Len(e) \in Nat
  BY <1>6, LenProperties
<1>8. /\ v.queue = Tail(w.queue) \o e /\ v.seed = w.seed
      /\ v.paths = IF Len(path) > 1 THEN Append(w.paths, path) ELSE w.paths
      /\ v.queue \in Seq(Seq(Pages)) /\ v.paths \in Seq(Seq(Pages)) =>
           v \in [seed : Nat, queue : Seq(Seq(Pages)), paths : Seq(Seq(Pages))]
  <2>2. v = [w EXCEPT !.queue = Tail(w.queue) \o e,
                      !.paths = IF Len(path) > 1 THEN Append(w.paths, path) ELSE w.paths]
    BY DEF Turn
  <2> HIDE DEF v, e, path
  <2> QED
    BY <1>1, <2>2, LoopFields
<1> HIDE DEF e
<1>9. Requeued(v.queue, w.queue, e)
  BY <1>1, <1>6, <1>8, QueueTurned
<1>10. Relisted(v.paths, w.paths, path)
  BY <1>1, <1>4, <1>8, ListTurned
<1> HIDE DEF v, path
<1>11. v \in [seed : Nat, queue : Seq(Seq(Pages)), paths : Seq(Seq(Pages))]
  BY <1>8, <1>9, <1>10 DEF Requeued, Relisted
<1>12. w.seed \in 1..Len(s)
  BY <1>1
<1>13. Turned(s, w, v, e)
  BY <1>1, <1>2, <1>5, <1>7, <1>8, <1>9, <1>10, <1>11, <1>12 DEF Turned
<1>14. Len(v.paths) <= MaxPaths
  <2>1. Len(v.paths) <= Len(w.paths) + 1
    BY <1>10 DEF Relisted
  <2>2. Len(v.paths) \in Nat
    BY <1>11, LenProperties
  <2> QED
    BY <1>2, <2>1, <2>2, WalkAssumption
<1>15. WalkShape(s, v)
  BY <1>1, <1>8, <1>11, <1>14 DEF WalkShape
<1> QED
  BY <1>13, <1>15, TurnedWays, TurnedApart, TurnedPaths, TurnedLost DEF WalkSoFar, v

\* The seeds of multi_hop are the pages of the hits, each once.
LEMMA SeedsOnce ==
  ASSUME NEW C, NEW hits \in Seq([page : Pages, chunk : C])
  PROVE  Seeds(hits) \in Seq(Pages) /\ IsInjective(Seeds(hits))
<1> DEFINE I == {i \in 1..Len(hits) : \A j \in 1..i - 1 : hits[j].page # hits[i].page}
           f == FirstOfPage(hits)
           s == Seeds(hits)
           H == [page : Pages, chunk : C]
<1>0. f = Kept(hits, I) /\ hits \in Seq(H)
  BY DEF FirstOfPage
<1> HIDE DEF I, f
<1>1. f \in Seq(H)
  <2> HIDE DEF H
  <2> QED
    BY <1>0, KeptIsKept
<1>2. PICK h : KeptBy(h, f, hits, I, Len(hits))
  <2> HIDE DEF H
  <2> QED
    BY <1>0, KeptIsKept
<1>3. Len(f) \in Nat /\ Len(hits) \in Nat
  BY <1>1, LenProperties
<1>4. s = [i \in 1..Len(f) |-> f[i].page]
  BY DEF Seeds, f
<1>5. \A i \in 1..Len(f) : f[i].page \in Pages
  <2>1. \A i \in 1..Len(f) : f[i] \in H
    <3> HIDE DEF H
    <3> QED
      BY <1>1
  <2> QED
    BY <2>1
<1>6. s \in Seq(Pages) /\ DOMAIN s = 1..Len(f)
  BY <1>3, <1>4, <1>5
<1>7. \A i \in 1..Len(f) : h[i] \in 1..Len(hits) /\ h[i] \in I /\ f[i] = hits[h[i]]
  BY <1>2 DEF KeptBy
<1>8. \A i, j \in 1..Len(f) : i < j => hits[h[i]].page # hits[h[j]].page
  <2> SUFFICES ASSUME NEW i \in 1..Len(f), NEW j \in 1..Len(f), i < j
               PROVE  hits[h[i]].page # hits[h[j]].page
    OBVIOUS
  <2>1. h[i] < h[j]
    BY <1>2 DEF KeptBy
  <2>2. h[i] \in 1..h[j] - 1
    BY <1>7, <2>1
  <2> QED
    BY <1>7, <2>2 DEF I
<1>9. ASSUME NEW i \in 1..Len(f), NEW j \in 1..Len(f), s[i] = s[j] PROVE i = j
  <2>1. hits[h[i]].page = hits[h[j]].page
    BY <1>4, <1>7, <1>9
  <2>2. ~ i < j /\ ~ j < i
    BY <1>8, <2>1
  <2> QED
    BY <1>3, <2>2
<1> QED
  BY <1>6, <1>9 DEF IsInjective

LEMMA NothingWalked ==
  ASSUME NEW s \in Seq(Pages)
  PROVE  WalkSoFar(s, [seed |-> 0, queue |-> << >>, paths |-> << >>])
<1> DEFINE w == [seed |-> 0, queue |-> << >>, paths |-> << >>]
<1>1. Len(s) \in Nat /\ MaxPaths \in Nat
  BY LenProperties, WalkAssumption
<1>2. << >> \in Seq(Seq(Pages)) /\ Len(<< >>) = 0 /\ DOMAIN << >> = {} /\ 1..0 = {}
  BY EmptySeq
<1>3. w.seed = 0 /\ w.queue = << >> /\ w.paths = << >>
  OBVIOUS
<1>4. WalkShape(s, w)
  <2>1. w \in [seed : Nat, queue : Seq(Seq(Pages)), paths : Seq(Seq(Pages))]
    BY <1>2
  <2> HIDE DEF w
  <2> QED
    BY <1>1, <1>2, <1>3, <2>1 DEF WalkShape
<1> HIDE DEF w
<1>5. PathsOnce(w)
  BY <1>2, <1>3 DEF PathsOnce, IsInjective
<1>6. QueueWays(s, w) /\ QueueOrder(w) /\ QueueApart(w)
  BY <1>2, <1>3 DEF QueueWays, QueueOrder, QueueApart
<1>7. PathWays(s, w) /\ PathsShort(s, w) /\ NoneLost(s, w)
  BY <1>2, <1>3 DEF PathWays, PathsShort, NoneLost
<1> QED
  BY <1>4, <1>5, <1>6, <1>7 DEF WalkSoFar, w

\* The loop behind one seed, before the next.
LEMMA SeedWalks ==
  ASSUME NEW s \in Seq(Pages), IsInjective(s),
         NEW w, WalkSoFar(s, w), w.queue = << >>, w.seed < Len(s)
  PROVE  WalkSoFar(s, [w EXCEPT !.seed = @ + 1,
                         !.queue = IF s[w.seed + 1] \in graph.nodes THEN <<<<s[w.seed + 1]>>>>
                                                                   ELSE << >>])
<1> DEFINE n == w.seed + 1
           p == w.paths
           q == IF s[n] \in graph.nodes THEN <<<<s[n]>>>> ELSE << >>
           v == [w EXCEPT !.seed = n, !.queue = q]
<1>1. /\ w \in [seed : Nat, queue : Seq(Seq(Pages)), paths : Seq(Seq(Pages))]
      /\ Len(p) <= MaxPaths /\ p \in Seq(Seq(Pages))
  BY DEF WalkSoFar, WalkShape
<1>2. Len(s) \in Nat /\ n \in 1..Len(s) /\ DOMAIN s = 1..Len(s) /\ n > 0 /\ n \in Nat
  BY <1>1, LenProperties
<1>3. s[n] \in Pages /\ Depth \in Nat
  BY <1>2, WalkAssumption
<1>4. IsWay(<<s[n]>>, s[n]) \/ s[n] \notin graph.nodes
  <2>1. /\ <<s[n]>> \in Seq(Pages) /\ Len(<<s[n]>>) = 1 /\ <<s[n]>>[1] = s[n]
        /\ DOMAIN <<s[n]>> = {1}
    BY <1>3
  <2>2. 1 \in 1..Depth + 1 /\ 1..1 - 1 = {}
    BY <1>3
  <2> HIDE DEF n
  <2>3. IsInjective(<<s[n]>>)
    BY <2>1 DEF IsInjective
  <2> QED
    BY <2>1, <2>2, <2>3 DEF IsWay
<1>5. /\ q \in Seq(Seq(Pages))
      /\ \A i \in 1..Len(q) : i = 1 /\ q[i] = <<s[n]>> /\ s[n] \in graph.nodes /\ Len(q[i]) = 1
      /\ s[n] \in graph.nodes => 1 \in 1..Len(q) /\ q[1] = <<s[n]>>
  <2> DEFINE y == <<s[n]>>
  <2>1. y \in Seq(Pages) /\ Len(y) = 1
    BY <1>3
  <2> HIDE DEF y
  <2>2. <<y>> \in Seq(Seq(Pages)) /\ Len(<<y>>) = 1 /\ <<y>>[1] = y
    BY <2>1
  <2>3. << >> \in Seq(Seq(Pages)) /\ Len(<< >>) = 0
    BY EmptySeq
  <2>4. q = IF s[n] \in graph.nodes THEN <<y>> ELSE << >>
    BY DEF y
  <2> HIDE DEF q, n
  <2> QED
    <3>1. CASE s[n] \in graph.nodes
      <4>1. q = <<y>>
        BY <2>4, <3>1
      <4> QED
        BY <2>1, <2>2, <3>1, <4>1 DEF y
    <3>2. CASE s[n] \notin graph.nodes
      BY <2>3, <2>4, <3>2
    <3> QED
      BY <3>1, <3>2
<1> HIDE DEF q
<1>6. v.seed = n /\ v.queue = q /\ v.paths = p
  BY <1>1
<1>7. v \in [seed : Nat, queue : Seq(Seq(Pages)), paths : Seq(Seq(Pages))]
  <2> DEFINE B == Seq(Seq(Pages))
  <2> HIDE DEF B
  <2>1. w \in [seed : Nat, queue : B, paths : B] /\ q \in B
    BY <1>1, <1>5 DEF B
  <2> QED
    BY <1>2, <2>1 DEF B
<1>8. v = [w EXCEPT !.seed = @ + 1, !.queue = q]
  OBVIOUS
<1> HIDE DEF v, p
<1>9. \A i \in 1..Len(p) : \E j \in 1..w.seed : p[i] \in SimplePaths(s[j])
  BY DEF WalkSoFar, PathWays, p
<1>10. \A i \in 1..Len(p) : p[i][1] # s[n]
  <2> SUFFICES ASSUME NEW i \in 1..Len(p) PROVE p[i][1] # s[n]
    OBVIOUS
  <2>1. PICK j \in 1..w.seed : p[i] \in SimplePaths(s[j])
    BY <1>9
  <2>2. p[i][1] = s[j]
    BY <2>1, PathsAreWays DEF IsWay
  <2>3. j \in 1..Len(s) /\ j # n
    BY <1>1, <1>2
  <2> QED
    BY <1>2, <2>2, <2>3 DEF IsInjective
<1>11. WalkShape(s, v)
  BY <1>1, <1>2, <1>6, <1>7 DEF WalkShape
<1>12. QueueWays(s, v)
  BY <1>4, <1>5, <1>6 DEF QueueWays
<1>13. QueueOrder(v)
  <2>1. \A i \in 1..Len(q) : Len(q[i]) <= Len(q[1]) + 1
    <3>1. 1 <= 1 + 1
      OBVIOUS
    <3> QED
      BY <1>5, <3>1
  <2> QED
    BY <1>5, <1>6, <2>1 DEF QueueOrder
<1>14. QueueApart(v)
  <2>1. ASSUME NEW i \in 1..Len(q), NEW j \in 1..Len(p) PROVE ~ Begins(q[i], p[j])
    <3>1. q[i] = <<s[n]>> /\ Len(q[i]) = 1 /\ q[i][1] = s[n]
      BY <1>5
    <3> QED
      BY <1>10, <3>1 DEF Begins
  <2> QED
    BY <1>5, <1>6, <2>1 DEF QueueApart
<1>15. PathWays(s, v)
  <2>1. \A j \in 1..w.seed : j \in 1..n
    BY <1>1
  <2> QED
    BY <1>6, <1>9, <2>1 DEF PathWays
<1>16. PathsOnce(v) /\ PathsShort(s, v)
  BY <1>6, <1>10 DEF WalkSoFar, PathsOnce, PathsShort, p
<1>17. NoneLost(s, v)
  <2> SUFFICES ASSUME NEW j \in 1..n, NEW x \in SimplePaths(s[j]) PROVE Pending(v, j, x)
    BY <1>6 DEF NoneLost
  <2>1. CASE j \in 1..w.seed
    <3>1. Pending(w, j, x)
      BY <2>1 DEF WalkSoFar, NoneLost
    <3>2. 1..Len(w.queue) = {}
      <4>1. Len(w.queue) = 0 /\ 1..0 = {}
        BY EmptySeq
      <4> QED
        BY <4>1
    <3> QED
      BY <1>6, <3>1, <3>2 DEF Pending, p
  <2>2. CASE j = n
    <3>1. IsWay(x, s[n])
      BY <2>2, PathsAreWays
    <3>2. s[n] \in graph.nodes /\ x[1] = s[n] /\ Len(x) \in 1..Depth + 1
      BY <3>1 DEF IsWay
    <3>3. 1 \in 1..Len(q) /\ q[1] = <<s[n]>> /\ Len(q[1]) = 1 /\ q[1][1] = s[n]
      BY <1>5, <3>2
    <3>4. 1 <= Len(x) /\ \A i \in 1..1 : i = 1
      BY <3>2
    <3>5. Begins(q[1], x)
      BY <3>2, <3>3, <3>4 DEF Begins
    <3> QED
      BY <1>6, <2>2, <3>3, <3>5 DEF Pending
  <2>3. j \in 1..w.seed \/ j = n
    BY <1>1
  <2> QED
    BY <2>1, <2>2, <2>3
<1>18. WalkSoFar(s, v)
  BY <1>11, <1>12, <1>13, <1>14, <1>15, <1>16, <1>17 DEF WalkSoFar
<1> QED
  BY <1>8, <1>18 DEF q

\* The ways from a set of seeds are finitely many: each is told by its pairs of
\* a position and a page.
AllPaths(s) == UNION {SimplePaths(x) : x \in Range(s)}

LEMMA PathsFinite ==
  ASSUME NEW s \in Seq(Pages)
  PROVE  /\ IsFiniteSet(AllPaths(s))
         /\ \A p : p \in AllPaths(s) <=> \E j \in 1..Len(s) : p \in SimplePaths(s[j])
<1> DEFINE A == AllPaths(s)
           T == (1..Depth + 1) \X Pages
           f == [p \in A |-> {<<i, p[i]>> : i \in 1..Len(p)}]
<1>0. DOMAIN s = 1..Len(s) /\ Depth \in Nat
  BY LenProperties, WalkAssumption
<1>1. \A p : p \in A <=> \E j \in 1..Len(s) : p \in SimplePaths(s[j])
  BY <1>0 DEF AllPaths, Range
<1>2. ASSUME NEW p \in A PROVE p \in Seq(Pages) /\ Len(p) \in 1..Depth + 1
  BY <1>1, PathsAreWays DEF IsWay
<1> HIDE DEF A
<1>3. IsFiniteSet(SUBSET T)
  <2>1. IsFiniteSet(1..Depth + 1) /\ IsFiniteSet(Pages)
    BY <1>0, FS_Interval, PagesAssumption
  <2>2. IsFiniteSet(T)
    BY <2>1, FS_Product
  <2> HIDE DEF T
  <2> QED
    BY <2>2, FS_SUBSET
<1>4. f \in [A -> SUBSET T]
  <2> SUFFICES ASSUME NEW p \in A PROVE {<<i, p[i]>> : i \in 1..Len(p)} \subseteq T
    OBVIOUS
  <2>1. p \in Seq(Pages) /\ Len(p) \in 1..Depth + 1
    BY <1>2
  <2>2. \A i \in 1..Len(p) : i \in 1..Depth + 1 /\ p[i] \in Pages
    BY <1>0, <2>1
  <2> QED
    BY <2>2
<1>5. ASSUME NEW p \in A, NEW q \in A, f[p] = f[q] PROVE p = q
  <2>1. p \in Seq(Pages) /\ q \in Seq(Pages) /\ Len(p) \in Nat /\ Len(q) \in Nat
        /\ Len(p) > 0 /\ Len(q) > 0
    BY <1>0, <1>2
  <2>2. {<<i, p[i]>> : i \in 1..Len(p)} = {<<i, q[i]>> : i \in 1..Len(q)}
    BY <1>5
  <2>3. ASSUME NEW i \in 1..Len(p) PROVE i \in 1..Len(q) /\ p[i] = q[i]
    <3>1. <<i, p[i]>> \in {<<k, q[k]>> : k \in 1..Len(q)}
      BY <2>2
    <3>2. PICK k \in 1..Len(q) : <<i, p[i]>> = <<k, q[k]>>
      BY <3>1
    <3>3. i = k /\ p[i] = q[k]
      BY <3>2
    <3> QED
      BY <3>3
  <2>4. ASSUME NEW i \in 1..Len(q) PROVE i \in 1..Len(p)
    <3>1. <<i, q[i]>> \in {<<k, p[k]>> : k \in 1..Len(p)}
      BY <2>2
    <3>2. PICK k \in 1..Len(p) : <<i, q[i]>> = <<k, p[k]>>
      BY <3>1
    <3>3. i = k
      BY <3>2
    <3> QED
      BY <3>3
  <2>5. Len(p) \in 1..Len(q) /\ Len(q) \in 1..Len(p)
    BY <2>1, <2>3, <2>4
  <2>6. Len(p) = Len(q)
    BY <2>1, <2>5
  <2> QED
    BY <2>1, <2>3, <2>6, SeqEqual
<1> HIDE DEF f, T
<1>6. f \in Injection(A, SUBSET T)
  BY <1>4, <1>5 DEF Injection, IsInjective
<1>7. IsFiniteSet(A)
  BY <1>3, <1>6, FS_Injection
<1> QED
  BY <1>1, <1>7 DEF A

\* A set that has two elements has at least two.
LEMMA AtLeastTwo ==
  ASSUME NEW T, IsFiniteSet(T)
  PROVE  Cardinality(T) >= 2 <=> \E x, y \in T : x # y
<1>1. Cardinality(T) \in Nat
  BY FS_CardinalityType
<1>2. ASSUME NEW x \in T, NEW y \in T, x # y PROVE Cardinality(T) >= 2
  <2>1. IsFiniteSet({x}) /\ Cardinality({x}) = 1
    BY FS_Singleton
  <2>2. Cardinality({x} \cup {y}) = Cardinality({x}) + 1
    BY <1>2, <2>1, FS_AddElement
  <2>3. {x} \cup {y} \in SUBSET T
    OBVIOUS
  <2>4. Cardinality({x} \cup {y}) <= Cardinality(T)
    BY <2>3, FS_Subset
  <2> QED
    BY <1>1, <2>1, <2>2, <2>4
<1>3. ASSUME Cardinality(T) >= 2 PROVE \E x, y \in T : x # y
  <2>1. T # {}
    BY <1>3, FS_EmptySet
  <2>2. PICK x : x \in T
    BY <2>1
  <2>3. T # {x}
    BY <1>3, FS_Singleton
  <2> QED
    BY <2>2, <2>3
<1> QED
  BY <1>2, <1>3

\* Touching keeps the paths that visit two of the seeds, and each of them once.
IsTouching(p, s) == \E i, j \in 1..Len(p) : i # j /\ {p[i], p[j]} \subseteq Range(s)

LEMMA TouchingKeeps ==
  ASSUME NEW s \in Seq(Pages), NEW l \in Seq(Seq(Pages)), IsInjective(l),
         \A i \in 1..Len(l) : IsInjective(l[i])
  PROVE  /\ Touching(l, s) \in Seq(Seq(Pages)) /\ IsInjective(Touching(l, s))
         /\ \A p : p \in Range(Touching(l, s)) <=> p \in Range(l) /\ IsTouching(p, s)
<1> DEFINE I == {i \in 1..Len(l) : Cardinality(Range(s) \cap Range(l[i])) >= 2}
           t == Touching(l, s)
<1>1. t = Kept(l, I)
  BY DEF Touching
<1>2. \A i \in 1..Len(l) : i \in I <=> Cardinality(Range(s) \cap Range(l[i])) >= 2
  OBVIOUS
<1> HIDE DEF t, I
<1>3. t \in Seq(Seq(Pages))
  BY <1>1, KeptIsKept
<1>4. PICK h : KeptBy(h, t, l, I, Len(l))
  BY <1>1, KeptIsKept
<1>5. /\ DOMAIN t = 1..Len(t) /\ DOMAIN l = 1..Len(l) /\ DOMAIN s = 1..Len(s)
      /\ Len(t) \in Nat /\ Len(l) \in Nat
  BY <1>3, LenProperties
<1>6. /\ \A i \in 1..Len(t) : h[i] \in 1..Len(l) /\ h[i] \in I /\ t[i] = l[h[i]]
      /\ \A m \in 1..Len(l) : m \in I => \E i \in 1..Len(t) : h[i] = m
      /\ \A i, j \in 1..Len(t) : i < j => h[i] < h[j]
  BY <1>4 DEF KeptBy
<1>7. IsInjective(t)
  <2> SUFFICES ASSUME NEW i \in 1..Len(t), NEW j \in 1..Len(t), t[i] = t[j] PROVE i = j
    BY <1>5 DEF IsInjective
  <2>1. h[i] = h[j]
    BY <1>5, <1>6 DEF IsInjective
  <2>2. \A a, b \in 1..Len(t) : a < b => h[a] # h[b]
    <3> SUFFICES ASSUME NEW a \in 1..Len(t), NEW b \in 1..Len(t), a < b PROVE h[a] # h[b]
      OBVIOUS
    <3>1. h[a] < h[b] /\ h[a] \in 1..Len(l) /\ h[b] \in 1..Len(l)
      BY <1>6
    <3> QED
      BY <3>1
  <2>3. ~ i < j /\ ~ j < i
    BY <2>1, <2>2
  <2> QED
    BY <1>5, <2>3
<1>8. ASSUME NEW m \in 1..Len(l) PROVE m \in I <=> IsTouching(l[m], s)
  <2> DEFINE p == l[m]
             T == Range(s) \cap Range(p)
  <2>1. p \in Seq(Pages) /\ DOMAIN p = 1..Len(p)
    BY LenProperties
  <2>2. T \subseteq Pages
    BY <1>5 DEF Range
  <2>3. IsFiniteSet(T)
    BY <2>2, PagesAssumption, FS_Subset
  <2>4. m \in I <=> \E x, y \in T : x # y
    <3>1. m \in I <=> Cardinality(T) >= 2
      BY <1>2
    <3> HIDE DEF T
    <3> QED
      BY <2>3, <3>1, AtLeastTwo
  <2>5. (\E x, y \in T : x # y) => IsTouching(p, s)
    <3> SUFFICES ASSUME NEW x \in T, NEW y \in T, x # y PROVE IsTouching(p, s)
      OBVIOUS
    <3>1. PICK i \in 1..Len(p) : p[i] = x
      BY <2>1 DEF Range
    <3>2. PICK j \in 1..Len(p) : p[j] = y
      BY <2>1 DEF Range
    <3>3. x \in Range(s) /\ y \in Range(s) /\ i # j
      BY <3>1, <3>2
    <3> QED
      BY <3>1, <3>2, <3>3 DEF IsTouching
  <2>6. IsTouching(p, s) => \E x, y \in T : x # y
    <3> SUFFICES ASSUME NEW i \in 1..Len(p), NEW j \in 1..Len(p), i # j,
                        {p[i], p[j]} \subseteq Range(s)
                 PROVE  \E x, y \in T : x # y
      BY DEF IsTouching
    <3>1. p[i] \in T /\ p[j] \in T
      BY <2>1 DEF Range
    <3>2. p[i] # p[j]
      BY <2>1 DEF IsInjective
    <3> QED
      BY <3>1, <3>2
  <2> QED
    BY <2>4, <2>5, <2>6
<1>9. ASSUME NEW p PROVE p \in Range(t) <=> p \in Range(l) /\ IsTouching(p, s)
  <2>1. ASSUME p \in Range(t) PROVE p \in Range(l) /\ IsTouching(p, s)
    <3>1. PICK i \in 1..Len(t) : t[i] = p
      BY <1>5, <2>1 DEF Range
    <3>2. h[i] \in 1..Len(l) /\ h[i] \in I /\ p = l[h[i]]
      BY <1>6, <3>1
    <3> QED
      BY <1>5, <1>8, <3>2 DEF Range
  <2>2. ASSUME p \in Range(l), IsTouching(p, s) PROVE p \in Range(t)
    <3>1. PICK m \in 1..Len(l) : l[m] = p
      BY <1>5, <2>2 DEF Range
    <3>2. PICK i \in 1..Len(t) : h[i] = m
      BY <1>6, <1>8, <2>2, <3>1
    <3>3. t[i] = p
      BY <1>6, <3>1, <3>2
    <3> QED
      BY <1>5, <3>3 DEF Range
  <2> QED
    BY <2>1, <2>2
<1> QED
  BY <1>3, <1>7, <1>9 DEF t

LEMMA LeastOfTwo ==
  ASSUME NEW a \in Nat, NEW b \in Nat, NEW n, n \in {a, b}, n <= a, n <= b
  PROVE  n = Min({a, b})
<1>1. \A y \in {a, b} : n <= y
  OBVIOUS
<1>2. \A x \in {a, b} : (\A y \in {a, b} : x <= y) => x = n
  OBVIOUS
<1>3. Min({a, b}) \in {a, b} /\ \A y \in {a, b} : Min({a, b}) <= y
  BY <1>1, Zenon DEF Min
<1> QED
  BY <1>2, <1>3

\* How the walk ends: at the cap, or behind its last seed.
Ended(s, w) == IF w.queue = << >> THEN w.seed = Len(s) ELSE Len(w.paths) >= MaxPaths

LEMMA EndedShort ==
  ASSUME NEW s \in Seq(Pages), IsInjective(s), NEW w, WalkSoFar(s, w), Ended(s, w)
  PROVE  /\ Range(w.paths) \subseteq AllPaths(s)
         /\ Len(w.paths) = Min({MaxPaths, Cardinality(AllPaths(s))})
         /\ Cardinality(AllPaths(s)) <= MaxPaths => Range(w.paths) = AllPaths(s)
<1> DEFINE l == w.paths
           A == AllPaths(s)
           C == Cardinality(A)
<1>1. /\ l \in Seq(Seq(Pages)) /\ Len(l) <= MaxPaths /\ w.seed \in Nat /\ w.seed <= Len(s)
      /\ IsInjective(l)
  BY DEF WalkSoFar, WalkShape, PathsOnce
<1>2. DOMAIN l = 1..Len(l) /\ Len(l) \in Nat /\ Len(s) \in Nat /\ MaxPaths \in Nat
  BY <1>1, LenProperties, WalkAssumption
<1>3. IsFiniteSet(A) /\ \A p : p \in A <=> \E j \in 1..Len(s) : p \in SimplePaths(s[j])
  BY PathsFinite
<1>4. C \in Nat
  BY <1>3, FS_CardinalityType
<1>5. \A i \in 1..Len(l) : \E j \in 1..w.seed : l[i] \in SimplePaths(s[j])
  BY DEF WalkSoFar, PathWays
<1> HIDE DEF A, l
<1>6. Range(l) \subseteq A
  <2> SUFFICES ASSUME NEW i \in 1..Len(l) PROVE l[i] \in A
    BY <1>2 DEF Range
  <2>1. PICK j \in 1..w.seed : l[i] \in SimplePaths(s[j])
    BY <1>5
  <2>2. j \in 1..Len(s)
    BY <1>1, <1>2
  <2> QED
    BY <1>3, <2>1, <2>2
<1>7. IsFiniteSet(Range(l)) /\ Cardinality(Range(l)) = Len(l)
  <2>1. IsFiniteSet(Range(l))
    BY <1>3, <1>6, FS_Subset
  <2>2. l \in Bijection(1..Len(l), Range(l))
    BY <1>1, <1>2 DEF Bijection, Injection, Surjection, Range, IsInjective
  <2>3. ExistsBijection(1..Len(l), Range(l))
    BY <2>2 DEF ExistsBijection
  <2>4. IsFiniteSet(1..Len(l)) /\ Cardinality(1..Len(l)) = Len(l)
    <3>1. \A n \in Nat : IsFiniteSet(1..n) /\ Cardinality(1..n) = n
      BY FS_Interval
    <3> QED
      BY <1>2, <3>1
  <2> QED
    BY <2>3, <2>4, FS_Bijection
<1>8. Len(l) <= C /\ (Len(l) = C => Range(l) = A)
  <2>1. Range(l) \in SUBSET A
    BY <1>6
  <2> QED
    BY <1>3, <1>7, <2>1, FS_Subset
<1>9. CASE w.queue = << >>
  <2>1. w.seed = Len(s) /\ Len(w.queue) = 0 /\ 1..0 = {}
    BY <1>9, EmptySeq DEF Ended
  <2>2. \A j \in 1..Len(s) : \A p \in SimplePaths(s[j]) : p \in Range(l)
    BY <2>1 DEF WalkSoFar, NoneLost, Pending, l
  <2>3. A \subseteq Range(l)
    BY <1>3, <2>2
  <2>4. Range(l) = A
    BY <1>6, <2>3
  <2>5. Len(l) = C
    BY <1>7, <2>4
  <2>6. Len(l) \in {MaxPaths, C} /\ Len(l) <= C
    BY <1>4, <2>5
  <2>7. Len(l) = Min({MaxPaths, C})
    BY <1>1, <1>2, <1>4, <2>6, LeastOfTwo DEF l
  <2> QED
    BY <1>6, <2>4, <2>7 DEF l, A
<1>10. CASE w.queue # << >>
  <2>1. Len(l) = MaxPaths
    BY <1>1, <1>2, <1>10 DEF Ended, l
  <2>2. Len(l) <= MaxPaths
    BY <1>1 DEF l
  <2>3. Len(l) = Min({MaxPaths, C})
    BY <1>2, <1>4, <1>8, <2>1, <2>2, LeastOfTwo
  <2>4. C <= MaxPaths => Range(l) = A
    BY <1>2, <1>4, <1>8, <2>1
  <2> QED
    BY <1>6, <2>3, <2>4 DEF l, A
<1> QED
  BY <1>9, <1>10

\* What is listed comes of an earlier seed than what is not, or is not longer.
LEMMA EndedNearest ==
  ASSUME NEW s \in Seq(Pages), IsInjective(s), NEW w, WalkSoFar(s, w), Ended(s, w),
         NEW p \in Range(w.paths), NEW q \in AllPaths(s) \ Range(w.paths)
  PROVE  /\ p[1] = q[1] => Len(p) <= Len(q)
         /\ \A i, j \in 1..Len(s) : s[i] = p[1] /\ s[j] = q[1] => i <= j
<1>1. /\ w.paths \in Seq(Seq(Pages)) /\ w.seed \in Nat /\ w.seed <= Len(s)
  BY DEF WalkSoFar, WalkShape
<1>2. /\ DOMAIN w.paths = 1..Len(w.paths) /\ DOMAIN s = 1..Len(s) /\ Len(s) \in Nat
  BY <1>1, LenProperties
<1>3. PICK n \in 1..Len(w.paths) : w.paths[n] = p
  BY <1>2 DEF Range
<1>4. PICK k \in 1..w.seed : p \in SimplePaths(s[k])
  BY <1>3 DEF WalkSoFar, PathWays
<1>5. PICK m \in 1..Len(s) : q \in SimplePaths(s[m])
  BY PathsFinite
<1>6. p[1] = s[k] /\ q[1] = s[m] /\ p \in Seq(Pages) /\ q \in Seq(Pages)
  BY <1>4, <1>5, PathsAreWays DEF IsWay
<1>7. k \in 1..Len(s) /\ k <= w.seed
  BY <1>1, <1>2
<1>8. CASE m \in 1..w.seed
  <2>1. Pending(w, m, q)
    BY <1>5, <1>8 DEF WalkSoFar, NoneLost
  <2>2. m = w.seed
    BY <2>1 DEF Pending
  <2>3. PICK i \in 1..Len(w.queue) : Begins(w.queue[i], q)
    BY <2>1 DEF Pending
  <2>4. ASSUME p[1] = q[1] PROVE Len(p) <= Len(q)
    <3>1. Len(p) <= Len(w.queue[i])
      BY <1>3, <1>6, <2>2, <2>4 DEF WalkSoFar, PathsShort
    <3>2. IsWay(w.queue[i], s[w.seed])
      BY DEF WalkSoFar, QueueWays
    <3>3. Len(w.queue[i]) \in Nat /\ Len(p) \in Nat /\ Len(q) \in Nat
      BY <1>6, <3>2, LenProperties DEF IsWay
    <3>4. Len(w.queue[i]) <= Len(q)
      BY <2>3 DEF Begins
    <3> QED
      BY <3>1, <3>3, <3>4
  <2>5. \A i2, j2 \in 1..Len(s) : s[i2] = p[1] /\ s[j2] = q[1] => i2 = k /\ j2 = m
    BY <1>2, <1>6, <1>7 DEF IsInjective
  <2>6. k <= m
    BY <1>7, <2>2
  <2> QED
    BY <2>4, <2>5, <2>6
<1>9. CASE m \notin 1..w.seed
  <2>1. m > w.seed /\ k < m /\ k <= m
    BY <1>1, <1>2, <1>7, <1>9
  <2>2. s[k] # s[m]
    BY <1>2, <1>7, <2>1 DEF IsInjective
  <2>3. \A i2, j2 \in 1..Len(s) : s[i2] = p[1] /\ s[j2] = q[1] => i2 = k /\ j2 = m
    BY <1>2, <1>6, <1>7 DEF IsInjective
  <2> QED
    BY <1>6, <2>1, <2>2, <2>3
<1> QED
  BY <1>8, <1>9

\* What multi_hop returns.
LEMMA HopsAreNearest ==
  ASSUME NEW s \in Seq(Pages), IsInjective(s), NEW w, WalkSoFar(s, w), Ended(s, w),
         hops = [seeds |-> s, walked |-> w.paths, paths |-> Touching(w.paths, s)]
  PROVE  HopsComplete /\ CapKeepsNearest
<1> DEFINE A == AllPaths(s)
           l == w.paths
           t == Touching(l, s)
<1>1. hops.seeds = s /\ hops.walked = l /\ hops.paths = t
  OBVIOUS
<1>2. A = UNION {SimplePaths(x) : x \in Range(hops.seeds)}
  BY <1>1 DEF AllPaths
<1>3. /\ Range(l) \subseteq A /\ Len(l) = Min({MaxPaths, Cardinality(A)})
      /\ Cardinality(A) <= MaxPaths => Range(l) = A
  BY EndedShort
<1>4. CapKeepsNearest
  <2>1. \A p \in Range(l), q \in A \ Range(l) :
          /\ p[1] = q[1] => Len(p) <= Len(q)
          /\ \A i, j \in 1..Len(s) : s[i] = p[1] /\ s[j] = q[1] => i <= j
    BY EndedNearest
  <2> DEFINE all == UNION {SimplePaths(x) : x \in Range(hops.seeds)}
             kept == Range(hops.walked)
  <2> HIDE DEF A, l
  <2>2. all = A /\ kept = Range(l)
    BY <1>1, <1>2
  <2> HIDE DEF all, kept
  <2>3. Len(hops.walked) = Min({MaxPaths, Cardinality(all)})
    BY <1>1, <1>3, <2>2
  <2>4. \A p \in kept, q \in all \ kept :
          /\ p[1] = q[1] => Len(p) <= Len(q)
          /\ \A i, j \in 1..Len(hops.seeds) :
               hops.seeds[i] = p[1] /\ hops.seeds[j] = q[1] => i <= j
    <3> SUFFICES ASSUME NEW p \in kept, NEW q \in all \ kept
                 PROVE  /\ p[1] = q[1] => Len(p) <= Len(q)
                        /\ \A i, j \in 1..Len(hops.seeds) :
                             hops.seeds[i] = p[1] /\ hops.seeds[j] = q[1] => i <= j
      OBVIOUS
    <3>1. p \in Range(l) /\ q \in A \ Range(l)
      BY <2>2
    <3>2. /\ p[1] = q[1] => Len(p) <= Len(q)
          /\ \A i, j \in 1..Len(s) : s[i] = p[1] /\ s[j] = q[1] => i <= j
      BY <2>1, <3>1
    <3> QED
      BY <1>1, <3>2
  <2> QED
    BY <2>3, <2>4, Zenon DEF CapKeepsNearest, all, kept
<1>5. l \in Seq(Seq(Pages)) /\ IsInjective(l) /\ DOMAIN l = 1..Len(l)
  BY LenProperties DEF WalkSoFar, WalkShape, PathsOnce
<1>6. \A p \in A : \E seed \in Range(s) : IsWay(p, seed) /\ Len(p) > 1
  BY PathsAreWays DEF AllPaths
<1>7. \A i \in 1..Len(l) : IsInjective(l[i])
  <2>1. \A i \in 1..Len(l) : l[i] \in A
    BY <1>3, <1>5 DEF Range
  <2> QED
    BY <1>6, <2>1 DEF IsWay
<1>8. /\ IsInjective(t)
      /\ \A p : p \in Range(t) <=> p \in Range(l) /\ IsTouching(p, s)
  BY <1>5, <1>7, TouchingKeeps
<1>9. HopsComplete
  <2> HIDE DEF A, l, t
  <2>1. Range(t) \subseteq {p \in A : \E i, j \in 1..Len(p) :
                                        i # j /\ {p[i], p[j]} \subseteq Range(s)}
    BY <1>3, <1>8 DEF IsTouching
  <2>2. ASSUME Cardinality(A) <= MaxPaths, NEW p \in A, Last(p) \in Range(s) PROVE p \in Range(t)
    <3>1. PICK seed \in Range(s) : IsWay(p, seed) /\ Len(p) > 1
      BY <1>6
    <3>2. Len(p) \in Nat /\ p[1] \in Range(s) /\ p[Len(p)] \in Range(s)
      BY <2>2, <3>1, LenProperties DEF IsWay, Last
    <3>3. 1 \in 1..Len(p) /\ Len(p) \in 1..Len(p) /\ 1 # Len(p)
      BY <3>1, <3>2
    <3>4. IsTouching(p, s)
      BY <3>2, <3>3 DEF IsTouching
    <3> QED
      BY <1>3, <1>8, <2>2, <3>4
  <2> DEFINE all == UNION {SimplePaths(x) : x \in Range(hops.seeds)}
  <2>3. all = A
    BY <1>2
  <2> HIDE DEF all
  <2>4. /\ IsInjective(hops.paths)
        /\ Range(hops.paths)
             \subseteq {p \in all : \E i, j \in 1..Len(p) :
                                   i # j /\ {p[i], p[j]} \subseteq Range(hops.seeds)}
    BY <1>1, <1>8, <2>1, <2>3
  <2>5. Cardinality(all) <= MaxPaths =>
          \A p \in all : Last(p) \in Range(hops.seeds) => p \in Range(hops.paths)
    BY <1>1, <2>2, <2>3, Zenon
  <2> QED
    BY <2>4, <2>5, Zenon DEF HopsComplete, all
<1> QED
  BY <1>4, <1>9
=============================================================================
