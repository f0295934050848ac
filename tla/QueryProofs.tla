---------------------------- MODULE QueryProofs ----------------------------
(***************************************************************************)
(* Proofs about Query and Citations, for every vault, every pair of        *)
(* rankings and every value of the constants: what assemble cites, what    *)
(* topology_walk finds, what reciprocal rank fusion returns, and that all  *)
(* variables keep their shape.  What one step does to the graph, and one   *)
(* turn of the walk of multi_hop, is in GraphStoreProofs; that it stays so *)
(* in every behaviour of Query is shown here.                              *)
(***************************************************************************)
EXTENDS Query, GraphStoreProofs

-----------------------------------------------------------------------------
(* assemble *)

\* What a page leads to has the page, is closed, and is the least such set.
LEMMA SourcesSelf ==
  ASSUME NEW p \in vault.pages
  PROVE  p \in SourcesOf(p)
BY DEF SourcesOf

LEMMA SourcesStep ==
  ASSUME NEW p, NEW q \in SourcesOf(p), NEW i \in 1..Len(vault.sources[q]),
         vault.sources[q][i] \in vault.pages
  PROVE  vault.sources[q][i] \in SourcesOf(p)
<1>1. q \in vault.pages
  BY DEF SourcesOf
<1>2. ASSUME NEW S \in SUBSET vault.pages, p \in S, Closed(S)
      PROVE  vault.sources[q][i] \in S
  BY <1>2 DEF SourcesOf, Closed
<1> QED
  BY <1>2 DEF SourcesOf

LEMMA SourcesLeast ==
  ASSUME NEW p, NEW S \in SUBSET vault.pages, p \in S, Closed(S)
  PROVE  SourcesOf(p) \subseteq S
BY DEF SourcesOf

\* The first of the hits that leads to a page.
IsFirst(hits, p, j) == p \in LedBy(hits[j]) /\ \A k \in 1..j - 1 : p \notin LedBy(hits[k])

\* assemble between two calls of _walk.
CitesShape(hits, w) ==
  /\ w \in [hit : 0..Len(hits), stack : Seq(Hits), out : Seq(Hits)]
  /\ w.stack # << >> => w.hit > 0

\* What is cited is of the vault, and some hit up to now is the first to lead
\* to it.
CitesOrigin(hits, w) ==
  \A n \in 1..Len(w.out) :
    /\ w.out[n].page \in vault.pages
    /\ \E j \in 1..w.hit :
         /\ IsFirst(hits, w.out[n].page, j)
         /\ w.out[n].chunk = IF hits[j].page = w.out[n].page THEN hits[j].chunk ELSE None

\* It is cited once, and in the order of those hits.
CitesOrder(hits, w) ==
  \A m, n \in 1..Len(w.out) : m < n =>
    /\ w.out[m].page # w.out[n].page
    /\ \E a, b \in 1..w.hit : /\ IsFirst(hits, w.out[m].page, a)
                              /\ IsFirst(hits, w.out[n].page, b) /\ a <= b

\* Its sources are cited or on the stack.
CitesPending(w) ==
  \A p \in Cited(w) : \A k \in 1..Len(vault.sources[p]) :
    vault.sources[p][k] \in vault.pages =>
      \/ vault.sources[p][k] \in Cited(w)
      \/ \E m \in 1..Len(w.stack) : vault.sources[p][k] = w.stack[m].page

\* The hit under way leads to what is on the stack.
CitesStack(hits, w) ==
  \A m \in 1..Len(w.stack) : w.stack[m].page \in vault.pages =>
                               w.stack[m].page \in LedBy(hits[w.hit])

\* Earlier hits have all that they lead to.
CitesEarlier(hits, w) == \A j \in 1..w.hit - 1 : LedBy(hits[j]) \subseteq Cited(w)

\* The hit is about to be visited, or was.
CitesUnderWay(hits, w) ==
  w.hit > 0 => \/ w.stack = <<hits[w.hit]>>
               \/ /\ \A m \in 1..Len(w.stack) : w.stack[m].chunk = None
                  /\ hits[w.hit].page \in vault.pages => hits[w.hit].page \in Cited(w)

CitesSoFar(hits, w) ==
  /\ CitesShape(hits, w) /\ CitesOrigin(hits, w) /\ CitesOrder(hits, w) /\ CitesPending(w)
  /\ CitesStack(hits, w) /\ CitesEarlier(hits, w) /\ CitesUnderWay(hits, w)

LEMMA VisitCites ==
  ASSUME IsVault(vault), NEW hits \in Seq(Hits), NEW w, CitesSoFar(hits, w), w.stack # << >>
  PROVE  CitesSoFar(hits, Visit(w))
<1> DEFINE next == Head(w.stack)
           i == w.hit
<1>1. /\ w \in [hit : 0..Len(hits), stack : Seq(Hits), out : Seq(Hits)]
      /\ i \in 1..Len(hits) /\ i \in Nat /\ Len(hits) \in Nat
  BY LenProperties DEF CitesSoFar, CitesShape
<1>2. /\ Tail(w.stack) \in Seq(Hits) /\ Len(Tail(w.stack)) = Len(w.stack) - 1
      /\ \A n \in 1..Len(Tail(w.stack)) : Tail(w.stack)[n] = w.stack[n + 1]
      /\ next = w.stack[1] /\ next \in Hits /\ Len(w.stack) \in Nat \ {0}
  BY <1>1, HeadTailProperties, EmptySeq
<1>3. \A m \in 1..Len(w.stack) : w.stack[m] = next \/ \E n \in 1..Len(Tail(w.stack)) :
                                                        w.stack[m] = Tail(w.stack)[n]
  <2> SUFFICES ASSUME NEW m \in 1..Len(w.stack), m # 1
               PROVE  \E n \in 1..Len(Tail(w.stack)) : w.stack[m] = Tail(w.stack)[n]
    BY <1>2
  <2>1. m - 1 \in 1..Len(Tail(w.stack)) /\ m - 1 + 1 = m
    BY <1>2
  <2> QED
    BY <1>2, <2>1
<1>4. \A n \in 1..Len(Tail(w.stack)) : n + 1 \in 1..Len(w.stack)
  BY <1>2
<1>5. CASE next.page \in Cited(w) \/ next.page \notin vault.pages
  <2> DEFINE v == [w EXCEPT !.stack = Tail(@)]
  <2>1. Visit(w) = v
    BY <1>5 DEF Visit
  <2>2. v.stack = Tail(w.stack) /\ v.hit = w.hit /\ v.out = w.out
    BY <1>1
  <2>3. v \in [hit : 0..Len(hits), stack : Seq(Hits), out : Seq(Hits)]
    BY <1>1, <1>2
  <2> HIDE DEF v
  <2>4. Cited(v) = Cited(w)
    BY <2>2 DEF Cited
  <2>5. \A p \in Cited(v) : \A k \in 1..Len(vault.sources[p]) :
          vault.sources[p][k] \in vault.pages =>
            \/ vault.sources[p][k] \in Cited(v)
            \/ \E m \in 1..Len(v.stack) : vault.sources[p][k] = v.stack[m].page
    BY <1>3, <1>5, <2>2, <2>4 DEF CitesSoFar, CitesPending
  <2>6. \A m \in 1..Len(v.stack) : v.stack[m].page \in vault.pages =>
                                     v.stack[m].page \in LedBy(hits[v.hit])
    BY <1>2, <1>4, <2>2 DEF CitesSoFar, CitesStack
  <2>7. /\ \A m \in 1..Len(v.stack) : v.stack[m].chunk = None
        /\ hits[v.hit].page \in vault.pages => hits[v.hit].page \in Cited(v)
    <3>1. CASE w.stack = <<hits[w.hit]>>
      <4>1. next = hits[w.hit] /\ Len(Tail(w.stack)) = 0
        BY <1>2, <3>1
      <4> QED
        BY <1>5, <2>2, <2>4, <4>1
    <3>2. CASE w.stack # <<hits[w.hit]>>
      <4>1. /\ \A m \in 1..Len(w.stack) : w.stack[m].chunk = None
            /\ hits[w.hit].page \in vault.pages => hits[w.hit].page \in Cited(w)
        BY <1>1, <3>2 DEF CitesSoFar, CitesUnderWay
      <4> QED
        BY <1>2, <1>4, <2>2, <2>4, <4>1
    <3> QED
      BY <3>1, <3>2
  <2>8. v.stack # << >> => v.hit > 0
    BY <1>1, <2>2
  <2>9. CitesOrigin(hits, v) /\ CitesOrder(hits, v) /\ CitesEarlier(hits, v)
    BY <2>2, <2>4 DEF CitesSoFar, CitesOrigin, CitesOrder, CitesEarlier
  <2>10. CitesShape(hits, v) /\ CitesPending(v) /\ CitesStack(hits, v)
    BY <2>3, <2>5, <2>6, <2>8 DEF CitesShape, CitesPending, CitesStack
  <2>11. CitesUnderWay(hits, v)
    BY <2>7 DEF CitesUnderWay
  <2> QED
    BY <2>1, <2>9, <2>10, <2>11 DEF CitesSoFar
<1>6. CASE ~ (next.page \in Cited(w) \/ next.page \notin vault.pages)
  <2> DEFINE p == next.page
             A == AsSources(p)
             T == Tail(w.stack)
             v == [w EXCEPT !.stack = AsSources(next.page) \o Tail(@), !.out = Append(@, next)]
  <2>1. Visit(w) = v
    BY <1>6 DEF Visit
  <2>2. p \in Pages /\ p \in vault.pages /\ p \notin Cited(w) /\ vault.sources[p] \in Seq(Pages)
    BY <1>6 DEF IsVault
  <2>3. /\ A \in Seq(Hits) /\ Len(A) = Len(vault.sources[p]) /\ Len(A) \in Nat
        /\ \A k \in 1..Len(A) : A[k].page = vault.sources[p][k] /\ A[k].chunk = None
    <3> DEFINE s == vault.sources[p]
    <3>1. A = [k \in 1..Len(s) |-> [page |-> s[k], chunk |-> None]]
      BY DEF AsSources
    <3>2. s \in Seq(Pages) /\ Len(s) \in Nat /\ \A k \in 1..Len(s) : s[k] \in Pages
      BY <2>2, LenProperties
    <3> HIDE DEF s, A
    <3>3. A \in Seq(Hits) /\ Len(A) = Len(s)
      BY <3>1, <3>2 DEF Hits
    <3> QED
      BY <3>1, <3>2, <3>3 DEF s
  <2>30. /\ T \in Seq(Hits) /\ Len(T) \in Nat
         /\ \A n \in 1..Len(T) : T[n] = w.stack[n + 1]
         /\ \A m \in 1..Len(w.stack) : w.stack[m] = next \/ \E n \in 1..Len(T) : w.stack[m] = T[n]
         /\ \A n \in 1..Len(T) : n + 1 \in 1..Len(w.stack)
    BY <1>2, <1>3, <1>4
  <2>5. /\ Append(w.out, next) \in Seq(Hits) /\ Len(Append(w.out, next)) = Len(w.out) + 1
        /\ \A n \in 1..Len(w.out) : Append(w.out, next)[n] = w.out[n]
        /\ Append(w.out, next)[Len(w.out) + 1] = next /\ Len(w.out) \in Nat
    BY <1>1, <1>2, AppendProperties, LenProperties
  <2> HIDE DEF A, T, next
  <2>40. A \o T \in Seq(Hits) /\ IsJoin(A \o T, A, T)
    BY <2>3, <2>30, Joined, Zenon
  <2>6. /\ v.stack = A \o T /\ v.hit = w.hit /\ v.out = Append(w.out, next)
        /\ v \in [hit : 0..Len(hits), stack : Seq(Hits), out : Seq(Hits)]
    BY <1>1, <2>5, <2>40 DEF A, T
  <2> HIDE DEF v
  <2>4. v.stack \in Seq(Hits) /\ IsJoin(v.stack, A, T)
    BY <2>6, <2>40, Zenon
  <2>7. Cited(v) = Cited(w) \cup {p}
    BY <2>5, <2>6 DEF Cited
  <2>8. \A m \in 1..Len(v.stack) : \/ \E k \in 1..Len(A) : v.stack[m] = A[k]
                                   \/ \E n \in 1..Len(T) : v.stack[m] = T[n]
    BY <2>4 DEF IsJoin
  <2>9. /\ \A k \in 1..Len(A) : k \in 1..Len(v.stack) /\ v.stack[k] = A[k]
        /\ \A n \in 1..Len(T) : Len(A) + n \in 1..Len(v.stack) /\ v.stack[Len(A) + n] = T[n]
    BY <2>3, <2>30, <2>4 DEF IsJoin
  <2>10. p \in LedBy(hits[i])
    <3>1. 1 \in 1..Len(w.stack) /\ w.stack[1].page = p
      BY <1>2
    <3> QED
      BY <2>2, <3>1 DEF CitesSoFar, CitesStack
  <2>11. IsFirst(hits, p, i)
    <3>1. \A k \in 1..i - 1 : p \notin LedBy(hits[k])
      BY <2>2 DEF CitesSoFar, CitesEarlier
    <3> QED
      BY <2>10, <3>1 DEF IsFirst
  <2>12. next.chunk = IF hits[i].page = p THEN hits[i].chunk ELSE None
    <3>1. CASE w.stack = <<hits[w.hit]>>
      BY <1>2, <3>1
    <3>2. CASE w.stack # <<hits[w.hit]>>
      <4>1. /\ \A m \in 1..Len(w.stack) : w.stack[m].chunk = None
            /\ hits[w.hit].page \in vault.pages => hits[w.hit].page \in Cited(w)
        BY <1>1, <3>2 DEF CitesSoFar, CitesUnderWay
      <4>2. next.chunk = None
        BY <1>2, <4>1
      <4> QED
        BY <2>2, <4>1, <4>2
    <3> QED
      BY <3>1, <3>2
  <2>13. CitesShape(hits, v)
    BY <1>1, <2>6 DEF CitesShape
  <2>14. v.out[Len(w.out) + 1] = next /\ \A n \in 1..Len(w.out) : v.out[n] = w.out[n]
    BY <2>5, <2>6
  <2>15. \A n \in 1..Len(v.out) : n \in 1..Len(w.out) \/ n = Len(w.out) + 1
    BY <2>5, <2>6
  <2>16. CitesOrigin(hits, v)
    <3> SUFFICES ASSUME NEW n \in 1..Len(v.out)
                 PROVE  /\ v.out[n].page \in vault.pages
                        /\ \E j \in 1..v.hit :
                             /\ IsFirst(hits, v.out[n].page, j)
                             /\ v.out[n].chunk = IF hits[j].page = v.out[n].page
                                                 THEN hits[j].chunk ELSE None
      BY DEF CitesOrigin
    <3>1. CASE n \in 1..Len(w.out)
      <4>1. /\ w.out[n].page \in vault.pages
            /\ \E j \in 1..w.hit :
                 /\ IsFirst(hits, w.out[n].page, j)
                 /\ w.out[n].chunk = IF hits[j].page = w.out[n].page
                                     THEN hits[j].chunk ELSE None
        BY <3>1 DEF CitesSoFar, CitesOrigin
      <4>2. v.out[n] = w.out[n] /\ v.hit = w.hit
        BY <2>6, <2>14, <3>1
      <4> QED
        BY <4>1, <4>2
    <3>2. CASE n = Len(w.out) + 1
      <4>1. i \in 1..v.hit
        BY <1>1, <2>6
      <4> QED
        BY <2>2, <2>11, <2>12, <2>14, <3>2, <4>1
    <3> QED
      BY <2>15, <3>1, <3>2
  <2>17. CitesOrder(hits, v)
    <3> SUFFICES ASSUME NEW m \in 1..Len(v.out), NEW n \in 1..Len(v.out), m < n
                 PROVE  /\ v.out[m].page # v.out[n].page
                        /\ \E a, b \in 1..v.hit : /\ IsFirst(hits, v.out[m].page, a)
                                                  /\ IsFirst(hits, v.out[n].page, b) /\ a <= b
      BY DEF CitesOrder
    <3>1. m \in 1..Len(w.out)
      BY <2>5, <2>6
    <3>2. CASE n \in 1..Len(w.out)
      BY <2>6, <2>14, <3>1, <3>2 DEF CitesSoFar, CitesOrder
    <3>3. CASE n = Len(w.out) + 1
      <4>1. w.out[m].page \in Cited(w)
        BY <3>1 DEF Cited
      <4>2. PICK a \in 1..w.hit : IsFirst(hits, w.out[m].page, a)
        BY <3>1 DEF CitesSoFar, CitesOrigin
      <4>3. a \in 1..v.hit /\ i \in 1..v.hit /\ a <= i
        BY <1>1, <2>6
      <4> QED
        BY <2>2, <2>11, <2>14, <3>1, <3>3, <4>1, <4>2, <4>3
    <3> QED
      BY <2>15, <3>2, <3>3
  <2>18. CitesPending(v)
    <3> SUFFICES ASSUME NEW q \in Cited(v), NEW k \in 1..Len(vault.sources[q]),
                        vault.sources[q][k] \in vault.pages, vault.sources[q][k] \notin Cited(v)
                 PROVE  \E m \in 1..Len(v.stack) : vault.sources[q][k] = v.stack[m].page
      BY DEF CitesPending
    <3>1. CASE q = p
      BY <2>3, <2>9, <3>1
    <3>2. CASE q \in Cited(w)
      <4>1. PICK m \in 1..Len(w.stack) : vault.sources[q][k] = w.stack[m].page
        BY <2>7, <3>2 DEF CitesSoFar, CitesPending
      <4>2. w.stack[m] # next
        BY <2>7, <4>1
      <4>3. PICK n \in 1..Len(T) : w.stack[m] = T[n]
        BY <2>30, <4>2
      <4> QED
        BY <2>9, <4>1, <4>3
    <3> QED
      BY <2>7, <3>1, <3>2
  <2>19. CitesStack(hits, v)
    <3> SUFFICES ASSUME NEW m \in 1..Len(v.stack), v.stack[m].page \in vault.pages
                 PROVE  v.stack[m].page \in LedBy(hits[i])
      BY <2>6 DEF CitesStack
    <3>1. CASE \E k \in 1..Len(A) : v.stack[m] = A[k]
      <4>1. PICK k \in 1..Len(vault.sources[p]) : v.stack[m].page = vault.sources[p][k]
        BY <2>3, <3>1
      <4>2. hits[i].page \in vault.pages /\ p \in SourcesOf(hits[i].page)
        BY <2>10 DEF LedBy
      <4> QED
        BY <4>1, <4>2, SourcesStep DEF LedBy
    <3>2. CASE \E n \in 1..Len(T) : v.stack[m] = T[n]
      <4>1. PICK n \in 1..Len(T) : v.stack[m] = w.stack[n + 1] /\ n + 1 \in 1..Len(w.stack)
        BY <2>30, <3>2
      <4> QED
        BY <4>1 DEF CitesSoFar, CitesStack
    <3> QED
      BY <2>8, <3>1, <3>2
  <2>20. CitesEarlier(hits, v)
    BY <2>6, <2>7 DEF CitesSoFar, CitesEarlier
  <2>21. CitesUnderWay(hits, v)
    <3>1. \A m \in 1..Len(v.stack) : v.stack[m].chunk = None
      <4> SUFFICES ASSUME NEW m \in 1..Len(v.stack)
                   PROVE  v.stack[m].chunk = None
        OBVIOUS
      <4>1. CASE \E k \in 1..Len(A) : v.stack[m] = A[k]
        BY <2>3, <4>1
      <4>2. CASE \E n \in 1..Len(T) : v.stack[m] = T[n]
        <5>1. PICK n \in 1..Len(T) : v.stack[m] = w.stack[n + 1] /\ n + 1 \in 1..Len(w.stack)
          BY <2>30, <4>2
        <5>2. w.stack # <<hits[i]>>
          BY <1>2, <5>1
        <5> QED
          BY <1>1, <5>1, <5>2 DEF CitesSoFar, CitesUnderWay
      <4> QED
        BY <2>8, <4>1, <4>2
    <3>2. hits[i].page \in vault.pages => hits[i].page \in Cited(v)
      <4>1. CASE w.stack = <<hits[i]>>
        BY <1>2, <2>7, <4>1
      <4>2. CASE w.stack # <<hits[i]>>
        BY <1>1, <2>7, <4>2 DEF CitesSoFar, CitesUnderWay
      <4> QED
        BY <4>1, <4>2
    <3> QED
      BY <2>6, <3>1, <3>2 DEF CitesUnderWay
  <2> QED
    BY <2>1, <2>13, <2>16, <2>17, <2>18, <2>19, <2>20, <2>21 DEF CitesSoFar
<1> QED
  BY <1>5, <1>6

\* When the stack is empty, the hit under way and all before it are done.
LEMMA HitsDone ==
  ASSUME NEW hits \in Seq(Hits), NEW w, CitesSoFar(hits, w), w.stack = << >>
  PROVE  \A j \in 1..w.hit : LedBy(hits[j]) \subseteq Cited(w)
<1>1. w.hit \in Nat /\ \A j \in 1..w.hit : j = w.hit \/ j \in 1..w.hit - 1
  BY DEF CitesSoFar, CitesShape
<1>2. Cited(w) \in SUBSET vault.pages /\ Closed(Cited(w))
  BY DEF CitesSoFar, CitesOrigin, CitesPending, Cited, Closed
<1>3. ASSUME w.hit > 0 PROVE LedBy(hits[w.hit]) \subseteq Cited(w)
  <2>1. << >> # <<hits[w.hit]>>
    OBVIOUS
  <2>2. hits[w.hit].page \in vault.pages => hits[w.hit].page \in Cited(w)
    BY <1>3, <2>1 DEF CitesSoFar, CitesUnderWay
  <2> QED
    BY <1>2, <2>2, SourcesLeast DEF LedBy
<1> QED
  BY <1>1, <1>3 DEF CitesSoFar, CitesEarlier

\* The state that assemble begins with, and the step to the next hit.
LEMMA NothingCited ==
  ASSUME NEW hits \in Seq(Hits)
  PROVE  CitesSoFar(hits, [hit |-> 0, stack |-> << >>, out |-> << >>])
<1> DEFINE w == [hit |-> 0, stack |-> << >>, out |-> << >>]
<1>1. /\ w.hit = 0 /\ w.stack = << >> /\ w.out = << >> /\ Len(w.out) = 0 /\ Len(w.stack) = 0
      /\ w \in [hit : 0..Len(hits), stack : Seq(Hits), out : Seq(Hits)]
  BY LenProperties, EmptySeq
<1> HIDE DEF w
<1>2. Cited(w) = {}
  BY <1>1 DEF Cited
<1>3. CitesSoFar(hits, w)
  BY <1>1, <1>2 DEF CitesSoFar, CitesShape, CitesOrigin, CitesOrder, CitesPending,
                    CitesStack, CitesEarlier, CitesUnderWay
<1> QED
  BY <1>3 DEF w

LEMMA NextHitCites ==
  ASSUME NEW hits \in Seq(Hits), NEW w, CitesSoFar(hits, w), w.stack = << >>,
         w.hit < Len(hits)
  PROVE  CitesSoFar(hits, [w EXCEPT !.hit = @ + 1, !.stack = <<hits[w.hit + 1]>>])
<1> DEFINE stack == <<hits[w.hit + 1]>>
           v == [w EXCEPT !.hit = @ + 1, !.stack = stack]
<1>1. /\ w \in [hit : 0..Len(hits), stack : Seq(Hits), out : Seq(Hits)]
      /\ w.hit \in Nat /\ Len(hits) \in Nat
  BY LenProperties DEF CitesSoFar, CitesShape
<1>2. /\ w.hit + 1 \in 0..Len(hits) /\ hits[w.hit + 1] \in Hits
      /\ stack \in Seq(Hits) /\ Len(stack) = 1 /\ stack[1] = hits[w.hit + 1]
  BY <1>1
<1>3. v.hit = w.hit + 1 /\ v.stack = <<hits[w.hit + 1]>> /\ v.out = w.out
  BY <1>1
<1> HIDE DEF stack
<1>13. v \in [hit : 0..Len(hits), stack : Seq(Hits), out : Seq(Hits)]
  BY <1>1, <1>2
<1> HIDE DEF v
<1>4. Cited(v) = Cited(w) /\ \A j \in 1..w.hit : j \in 1..v.hit
  BY <1>1, <1>3 DEF Cited
<1>5. CitesShape(hits, v)
  BY <1>1, <1>3, <1>13 DEF CitesShape
<1>6. CitesOrigin(hits, v)
  BY <1>3, <1>4 DEF CitesSoFar, CitesOrigin
<1>7. CitesOrder(hits, v)
  BY <1>3, <1>4 DEF CitesSoFar, CitesOrder
<1>8. CitesPending(v)
  BY <1>3, <1>4 DEF CitesSoFar, CitesPending
<1>9. CitesStack(hits, v)
  <2>1. Len(v.stack) = 1 /\ v.stack[1] = hits[v.hit]
    BY <1>3
  <2>2. hits[v.hit].page \in vault.pages => hits[v.hit].page \in LedBy(hits[v.hit])
    BY SourcesSelf DEF LedBy
  <2> QED
    BY <2>1, <2>2 DEF CitesStack
<1>10. CitesEarlier(hits, v)
  <2>1. v.hit - 1 = w.hit
    BY <1>1, <1>3
  <2> QED
    BY <1>4, <2>1, HitsDone DEF CitesEarlier
<1>11. CitesUnderWay(hits, v)
  BY <1>3 DEF CitesUnderWay
<1>12. CitesSoFar(hits, v)
  BY <1>5, <1>6, <1>7, <1>8, <1>9, <1>10, <1>11 DEF CitesSoFar
<1> QED
  BY <1>12 DEF v, stack

LEMMA FirstIsFirst ==
  ASSUME NEW hits, NEW p, NEW a \in 1..Len(hits), IsFirst(hits, p, a)
  PROVE  a = CHOOSE i \in 1..Len(hits) :
               p \in LedBy(hits[i]) /\ \A j \in 1..i - 1 : p \notin LedBy(hits[j])
<1>1. ASSUME NEW b \in 1..Len(hits), IsFirst(hits, p, b) PROVE a = b
  <2>1. a \notin 1..b - 1 /\ b \notin 1..a - 1
    BY <1>1 DEF IsFirst
  <2> QED
    BY <2>1
<1> QED
  BY <1>1 DEF IsFirst

LEMMA CitesSoFarFully ==
  ASSUME NEW hits \in Seq(Hits), cites # None => CitesSoFar(hits, cites)
  PROVE  CitesFully(hits)
<1> DEFINE First(p) == CHOOSE i \in 1..Len(hits) :
                         p \in LedBy(hits[i]) /\ \A j \in 1..i - 1 : p \notin LedBy(hits[j])
           out == cites.out
<1> SUFFICES ASSUME Assembled(hits)
    PROVE /\ Cited(cites) = UNION {LedBy(hits[i]) : i \in 1..Len(hits)}
          /\ \A i, j \in 1..Len(out) : i < j => /\ out[i].page # out[j].page
                                                /\ First(out[i].page) <= First(out[j].page)
          /\ \A i \in 1..Len(out) :
               LET hit == hits[First(out[i].page)]
               IN out[i].chunk = IF hit.page = out[i].page THEN hit.chunk ELSE None
  BY DEF CitesFully
<1>1. CitesSoFar(hits, cites) /\ cites.stack = << >> /\ cites.hit = Len(hits)
  BY DEF Assembled
<1>2. \A p : \A a \in 1..Len(hits) : IsFirst(hits, p, a) => First(p) = a
  BY FirstIsFirst
<1> HIDE DEF First, out
<1>3. Cited(cites) = UNION {LedBy(hits[i]) : i \in 1..Len(hits)}
  <2>1. \A j \in 1..Len(hits) : LedBy(hits[j]) \subseteq Cited(cites)
    BY <1>1, HitsDone
  <2>2. ASSUME NEW p \in Cited(cites) PROVE \E j \in 1..Len(hits) : p \in LedBy(hits[j])
    BY <1>1 DEF Cited, CitesSoFar, CitesOrigin, IsFirst
  <2> QED
    BY <2>1, <2>2
<1>4. ASSUME NEW i \in 1..Len(out), NEW j \in 1..Len(out), i < j
      PROVE  out[i].page # out[j].page /\ First(out[i].page) <= First(out[j].page)
  <2>1. PICK a \in 1..Len(hits), b \in 1..Len(hits) :
          /\ out[i].page # out[j].page /\ a <= b
          /\ IsFirst(hits, out[i].page, a) /\ IsFirst(hits, out[j].page, b)
    BY <1>1, <1>4 DEF CitesSoFar, CitesOrder, out
  <2> QED
    BY <1>2, <2>1
<1>5. ASSUME NEW i \in 1..Len(out)
      PROVE  out[i].chunk = IF hits[First(out[i].page)].page = out[i].page
                            THEN hits[First(out[i].page)].chunk ELSE None
  <2>1. PICK a \in 1..Len(hits) :
          /\ IsFirst(hits, out[i].page, a)
          /\ out[i].chunk = IF hits[a].page = out[i].page THEN hits[a].chunk ELSE None
    BY <1>1 DEF CitesSoFar, CitesOrigin, out
  <2> QED
    BY <1>2, <2>1
<1> QED
  BY <1>3, <1>4, <1>5
-----------------------------------------------------------------------------
(* the invariant of a query *)

QueryInv ==
  /\ GraphTypeOK /\ EdgesJustified /\ IsQuery(query)
  /\ cites # None => CitesSoFar(query.vector, cites)

LEMMA InitInv == Init => QueryInv
<1> SUFFICES ASSUME Init PROVE QueryInv
  OBVIOUS
<1>1. PICK input \in Queries : vault = input.vault /\ query = input.query
  BY DEF Init
<1>2. IsVault(vault) /\ IsQuery(query)
  BY <1>1, QueriesAssumption
<1> QED
  BY <1>2, TracesAssumption DEF Init, QueryInv, GraphTypeOK, EdgesJustified

LEMMA SameCites ==
  ASSUME vault' = vault, query' = query
  PROVE  CitesSoFar(query.vector, cites)' <=> CitesSoFar(query.vector, cites')
<1>1. \A p : SourcesOf(p)' = SourcesOf(p)
  BY DEF SourcesOf, Closed
<1>2. \A h : LedBy(h)' = LedBy(h)
  BY <1>1, Zenon DEF LedBy
<1>3. \A p, j : IsFirst(query.vector, p, j)' <=> IsFirst(query.vector, p, j)
  BY <1>2, Zenon DEF IsFirst
<1>4. Cited(cites)' = Cited(cites')
  BY DEF Cited
<1>5. CitesShape(query.vector, cites)' <=> CitesShape(query.vector, cites')
  BY DEF CitesShape
<1>6. CitesOrigin(query.vector, cites)' <=> CitesOrigin(query.vector, cites')
  BY <1>3, Zenon DEF CitesOrigin
<1>7. CitesOrder(query.vector, cites)' <=> CitesOrder(query.vector, cites')
  BY <1>3, Zenon DEF CitesOrder
<1>8. CitesPending(cites)' <=> CitesPending(cites')
  BY <1>4, Zenon DEF CitesPending
<1>9. CitesStack(query.vector, cites)' <=> CitesStack(query.vector, cites')
  BY <1>2, Zenon DEF CitesStack
<1>10. CitesEarlier(query.vector, cites)' <=> CitesEarlier(query.vector, cites')
  BY <1>2, <1>4, Zenon DEF CitesEarlier
<1>11. CitesUnderWay(query.vector, cites)' <=> CitesUnderWay(query.vector, cites')
  BY <1>4, Zenon DEF CitesUnderWay
<1> QED
  BY <1>5, <1>6, <1>7, <1>8, <1>9, <1>10, <1>11 DEF CitesSoFar

LEMMA SameGraph ==
  ASSUME UNCHANGED graphVars
  PROVE  GraphTypeOK /\ EdgesJustified => GraphTypeOK' /\ EdgesJustified'
<1>1. GraphTypeOK' <=> GraphTypeOK
  BY DEF graphVars, GraphTypeOK, IsVault
<1>2. \A a, b : Justified(a, b)' <=> Justified(a, b)
  BY DEF graphVars, Justified, Traced, HasEdge, Links, Similar, StandsFor, EdgeTypeForSimilarity
<1> QED
  BY <1>1, <1>2, Zenon DEF EdgesJustified, graphVars

\* A step that leaves the vault and the query alone keeps what assemble has done
\* when it keeps it of the new state's `cites`.
LEMMA CitesKept ==
  ASSUME QueryInv, UNCHANGED <<graphVars, query>>,
         cites' # None => CitesSoFar(query.vector, cites')
  PROVE  QueryInv'
<1>1. GraphTypeOK' /\ EdgesJustified'
  BY SameGraph DEF QueryInv
<1>2. IsQuery(query)'
  BY DEF QueryInv, IsQuery
<1>3. vault' = vault
  BY DEF graphVars
<1> QED
  BY <1>1, <1>2, <1>3, SameCites DEF QueryInv

LEMMA NextInv == QueryInv /\ [Next]_vars => QueryInv'
<1> SUFFICES ASSUME QueryInv, [Next]_vars PROVE QueryInv'
  OBVIOUS
<1>1. query.vector \in Seq(Hits) /\ IsVault(vault)
  BY DEF QueryInv, IsQuery, GraphTypeOK
<1>2. CASE UNCHANGED <<graphVars, query, cites>>
  BY <1>2, CitesKept DEF QueryInv
<1>3. ASSUME GraphTypeOK', EdgesJustified', UNCHANGED <<vault, query, cites>> PROVE QueryInv'
  <2>1. IsQuery(query)'
    BY <1>3 DEF QueryInv, IsQuery
  <2> QED
    BY <1>3, <2>1, SameCites DEF QueryInv
<1>4. CASE Reindex
  BY <1>3, <1>4, BuildJustified DEF Reindex, Build, QueryInv
<1>5. CASE Trace
  <2>1. PICK slug \in vault.traces, because \in SUBSET vault.traces :
          AddDecisionTrace(slug, because)
    BY <1>5 DEF Trace
  <2>2. GraphTypeOK' /\ EdgesJustified'
    BY <2>1, TraceJustified DEF QueryInv
  <2> QED
    BY <1>3, <1>5, <2>1, <2>2 DEF Trace, AddDecisionTrace
<1>6. CASE StartCiting
  <2>1. UNCHANGED <<graphVars, query>> /\ cites' = [hit |-> 0, stack |-> << >>, out |-> << >>]
    BY <1>6 DEF StartCiting, Cite, Assemble
  <2> QED
    BY <1>1, <2>1, NothingCited, CitesKept
<1>7. CASE CiteOn
  <2>1. UNCHANGED <<graphVars, query>> /\ (CiteHit(query.vector) \/ VisitNext)
    BY <1>7 DEF CiteOn, Cite
  <2>2. CASE CiteHit(query.vector)
    <3>1. CitesSoFar(query.vector, cites')
      BY <1>1, <2>2, NextHitCites DEF CiteHit, QueryInv
    <3> QED
      BY <2>1, <3>1, CitesKept
  <2>3. CASE VisitNext
    <3>1. CitesSoFar(query.vector, cites')
      BY <1>1, <2>3, VisitCites DEF VisitNext, QueryInv
    <3> QED
      BY <2>1, <3>1, CitesKept
  <2> QED
    BY <2>1, <2>2, <2>3
<1>8. CASE EndCiting
  BY <1>2, <1>8 DEF EndCiting, Cite
<1>9. CASE StartHops \/ HopOn \/ EndHops
  BY <1>2, <1>9 DEF StartHops, HopOn, EndHops, Hop
<1>10. CASE Dispatch \/ Round \/ Near \/ FuseHit \/ NextRanking \/ Fused
  BY <1>2, <1>10 DEF Dispatch, Round, Near, FuseHit, NextRanking, Fused
<1>11. CASE Answered \/ UNCHANGED vars
  BY <1>2, <1>11 DEF Answered, vars
<1> QED
  BY <1>4, <1>5, <1>6, <1>7, <1>8, <1>9, <1>10, <1>11 DEF Next

LEMMA Invariance == Spec => []QueryInv
<1> QED
  BY InitInv, NextInv, PTL DEF Spec

\* Of every vault, whatever its names claim and however its links, similar
\* pairs and decision traces coincide, the graph shows each relation as what it
\* is, in every state of the service between two calls and during them.
THEOREM GraphIsJustified == Spec => []EdgesJustified
<1>1. QueryInv => EdgesJustified
  BY DEF QueryInv
<1> QED
  BY <1>1, Invariance, PTL

\* decision_trace_walk answers with reasons only, at any time, on any graph.
THEOREM TraceReasons == Spec => []TraceIsReasoning
<1> QED
  BY TraceOnEveryGraph, PTL

\* For hits and frontmatters of any length, assemble cites what the hits lead
\* to: all of it, once, in the order of the hits, with their excerpts.
THEOREM CitationsComplete == Spec => []CitedFully
<1>1. QueryInv => CitedFully
  BY CitesSoFarFully DEF QueryInv, CitedFully, IsQuery
<1> QED
  BY <1>1, Invariance, PTL
-----------------------------------------------------------------------------
(* topology_walk *)

\* The length of the shortest way to a page, and the pages up to a length.
Far(a, b, d) == Leads(a, b, d) /\ \A e \in 0..d - 1 : ~ Leads(a, b, e)
Within(a, d) == {b \in Pages : \E e \in 0..d : Leads(a, b, e)}

LEMMA LeadsHere == \A a, b \in Pages : Leads(a, b, 0) <=> a = b
<1> SUFFICES ASSUME NEW a \in Pages, NEW b \in Pages PROVE Leads(a, b, 0) <=> a = b
  OBVIOUS
<1>1. 0 \in 0..0 /\ 0..0 - 1 = {}
  OBVIOUS
<1>2. ASSUME Leads(a, b, 0) PROVE a = b
  BY <1>2 DEF Leads
<1>3. ASSUME a = b PROVE Leads(a, b, 0)
  <2>1. /\ [i \in 0..0 |-> a] \in [0..0 -> Pages]
        /\ [i \in 0..0 |-> a][0] = a
    BY <1>1
  <2> QED
    BY <1>1, <1>3, <2>1 DEF Leads
<1> QED
  BY <1>2, <1>3

\* A way of d + 1 links is a way of d links and one link more.
LEMMA LeadsOn ==
  ASSUME NEW a, NEW b \in Pages, NEW d \in Nat
  PROVE  Leads(a, b, d + 1) <=> \E m \in Pages : Leads(a, m, d) /\ HasEdge(m, b)
<1>1. ASSUME Leads(a, b, d + 1) PROVE \E m \in Pages : Leads(a, m, d) /\ HasEdge(m, b)
  <2>1. PICK p \in [0..d + 1 -> Pages] :
          p[0] = a /\ p[d + 1] = b /\ \A i \in 0..(d + 1) - 1 : HasEdge(p[i], p[i + 1])
    BY <1>1 DEF Leads
  <2> DEFINE q == [i \in 0..d |-> p[i]]
  <2>2. /\ q \in [0..d -> Pages] /\ 0 \in 0..d /\ d \in 0..d /\ d \in 0..(d + 1) - 1
        /\ \A i \in 0..d - 1 : i \in 0..d /\ i + 1 \in 0..d /\ i \in 0..(d + 1) - 1
    OBVIOUS
  <2>3. q[0] = a /\ q[d] = p[d] /\ \A i \in 0..d - 1 : HasEdge(q[i], q[i + 1])
    BY <2>1, <2>2
  <2>4. Leads(a, p[d], d)
    BY <2>2, <2>3 DEF Leads
  <2> QED
    BY <2>1, <2>2, <2>4
<1>2. ASSUME NEW m \in Pages, Leads(a, m, d), HasEdge(m, b) PROVE Leads(a, b, d + 1)
  <2>1. PICK q \in [0..d -> Pages] :
          q[0] = a /\ q[d] = m /\ \A i \in 0..d - 1 : HasEdge(q[i], q[i + 1])
    BY <1>2 DEF Leads
  <2> DEFINE p == [i \in 0..d + 1 |-> IF i = d + 1 THEN b ELSE q[i]]
  <2>2. /\ p \in [0..d + 1 -> Pages] /\ 0 \in 0..d + 1 /\ 0 # d + 1 /\ d + 1 \in 0..d + 1
        /\ p[0] = q[0] /\ p[d + 1] = b
    OBVIOUS
  <2>3. ASSUME NEW i \in 0..(d + 1) - 1 PROVE HasEdge(p[i], p[i + 1])
    <3>1. CASE i = d
      <4>1. p[i] = q[d] /\ p[i + 1] = b
        BY <3>1
      <4> QED
        BY <1>2, <2>1, <4>1
    <3>2. CASE i # d
      <4>1. i \in 0..d - 1 /\ p[i] = q[i] /\ p[i + 1] = q[i + 1]
        BY <3>2
      <4> QED
        BY <2>1, <4>1
    <3> QED
      BY <3>1, <3>2
  <2> HIDE DEF p
  <2> QED
    BY <2>1, <2>2, <2>3 DEF Leads
<1> QED
  BY <1>1, <1>2

\* The least number of links.
LEMMA LeadsFar ==
  ASSUME NEW a, NEW b, NEW d \in Nat, Leads(a, b, d)
  PROVE  \E e \in 0..d : Far(a, b, e)
<1> DEFINE T == {e \in 0..d : Leads(a, b, e)}
<1>1. T \in SUBSET Nat /\ T # {}
  OBVIOUS
<1>2. PICK e \in T : \A m \in T : e <= m
  <2> HIDE DEF T
  <2> QED
    BY <1>1, LeastNumber
<1>3. \A m \in 0..e - 1 : m \in 0..d /\ ~ e <= m
  BY <1>2
<1> QED
  BY <1>2, <1>3 DEF Far

\* topology_walk behind some of its rounds.
Reached(a, w) ==
  /\ w.round \in 0..Depth
  /\ w.frontier = {b \in Pages : Far(a, b, w.round)}
  /\ Lists(w.found, Within(a, w.round))
  /\ Len(w.found) > 0 /\ w.found[1] = a
  /\ \A i, j \in 1..Len(w.found) : i < j =>
       \E d, e \in 0..w.round : /\ Far(a, w.found[i], d) /\ Far(a, w.found[j], e)
                                /\ d <= e

LEMMA AnchorReached ==
  ASSUME NEW a \in Pages, NEW w, w.round = 0, w.frontier = {a}, w.found = <<a>>
  PROVE  Reached(a, w)
<1>1. 0 \in 0..Depth /\ 0..0 - 1 = {} /\ \A e \in 0..0 : e = 0
  BY WalkAssumption
<1>2. \A b \in Pages : Far(a, b, 0) <=> a = b
  BY <1>1, LeadsHere DEF Far
<1>3. Within(a, 0) = {a}
  BY <1>1, LeadsHere DEF Within
<1>4. Lists(<<a>>, {a}) /\ Len(<<a>>) = 1 /\ <<a>>[1] = a
  BY DEF Lists, Range, IsInjective
<1>5. \A i, j \in 1..Len(w.found) : ~ i < j
  BY <1>4
<1> QED
  BY <1>1, <1>2, <1>3, <1>4, <1>5 DEF Reached

\* What a round adds is what one link more leads to and no shorter way does.
LEMMA UnseenIsNext ==
  ASSUME NEW a, NEW w, Reached(a, w)
  PROVE  Unseen(w) = {b \in Pages : Far(a, b, w.round + 1)}
<1> DEFINE d == w.round
<1>1. d \in Nat /\ \A e \in 0..d : e \in 0..(d + 1) - 1 /\ e + 1 \in 0..d + 1 /\ e \in Nat
  BY WalkAssumption DEF Reached
<1>2. \A e \in 0..(d + 1) - 1 : e \in 0..d
  BY <1>1
<1>3. \A b \in Pages : b \in Range(w.found) <=> \E e \in 0..d : Leads(a, b, e)
  BY DEF Reached, Lists, Within
<1>4. ASSUME NEW b \in Unseen(w) PROVE b \in Pages /\ Far(a, b, d + 1)
  <2>1. PICK m \in w.frontier : b \in Pages /\ HasEdge(m, b) /\ b \notin Range(w.found)
    BY <1>4 DEF Unseen, Neighbors
  <2>2. m \in Pages /\ Leads(a, m, d)
    BY DEF Reached, Far
  <2>3. Leads(a, b, d + 1)
    BY <1>1, <2>1, <2>2, LeadsOn
  <2>4. \A e \in 0..(d + 1) - 1 : ~ Leads(a, b, e)
    BY <1>2, <1>3, <2>1
  <2> QED
    BY <2>1, <2>3, <2>4 DEF Far
<1>5. ASSUME NEW b \in Pages, Far(a, b, d + 1) PROVE b \in Unseen(w)
  <2>1. PICK m \in Pages : Leads(a, m, d) /\ HasEdge(m, b)
    BY <1>1, <1>5, LeadsOn DEF Far
  <2>2. ASSUME NEW e \in 0..d - 1 PROVE ~ Leads(a, m, e)
    <3>1. e \in Nat /\ e + 1 \in 0..(d + 1) - 1
      BY <1>1
    <3>2. ~ Leads(a, b, e + 1)
      BY <1>5, <3>1 DEF Far
    <3> QED
      BY <2>1, <3>1, <3>2, LeadsOn
  <2>3. m \in w.frontier
    BY <2>1, <2>2 DEF Reached, Far
  <2>4. b \notin Range(w.found)
    BY <1>1, <1>3, <1>5 DEF Far
  <2> QED
    BY <2>1, <2>3, <2>4 DEF Unseen, Neighbors
<1> QED
  BY <1>4, <1>5

LEMMA RoundReaches ==
  ASSUME NEW a, NEW w, Reached(a, w), w.round < Depth
  PROVE  Reached(a, [round |-> w.round + 1, frontier |-> Unseen(w),
                     found |-> w.found \o SetToSeq(Unseen(w))])
<1> DEFINE d == w.round
           s == w.found
           t == SetToSeq(Unseen(w))
           v == [round |-> d + 1, frontier |-> Unseen(w), found |-> s \o t]
<1>1. d \in Nat /\ d + 1 \in 0..Depth /\ d + 1 \in 0..d + 1
  BY WalkAssumption DEF Reached
<1>2. \A e \in 0..d : e \in 0..d + 1 /\ e <= d + 1 /\ e \in Nat /\ e \in 0..(d + 1) - 1
  BY <1>1
<1>3. Unseen(w) = {b \in Pages : Far(a, b, d + 1)}
  BY UnseenIsNext
<1>4. Lists(t, Unseen(w))
  <2>1. IsFiniteSet(Unseen(w))
    BY <1>3, PagesAssumption, FS_Subset
  <2> QED
    BY <2>1, Enumeration
<1>5. Lists(s, Within(a, d))
  BY DEF Reached
<1>6. Within(a, d) \cap Unseen(w) = {}
  <2> SUFFICES ASSUME NEW b \in Within(a, d), Far(a, b, d + 1) PROVE FALSE
    BY <1>3
  <2>1. PICK e \in 0..d : Leads(a, b, e)
    BY DEF Within
  <2>2. e \in 0..(d + 1) - 1
    BY <1>2
  <2> QED
    BY <2>1, <2>2 DEF Far
<1>7. Within(a, d) \cup Unseen(w) = Within(a, d + 1)
  <2>1. ASSUME NEW b \in Pages, Leads(a, b, d + 1) PROVE b \in Within(a, d) \cup Unseen(w)
    <3>1. \A e \in 0..(d + 1) - 1 : e \in 0..d
      BY <1>1
    <3>2. CASE \E e \in 0..d : Leads(a, b, e)
      BY <3>2 DEF Within
    <3>3. CASE \A e \in 0..d : ~ Leads(a, b, e)
      <4>1. Far(a, b, d + 1)
        BY <2>1, <3>1, <3>3 DEF Far
      <4> QED
        BY <1>3, <4>1
    <3> QED
      BY <3>2, <3>3
  <2>2. \A e \in 0..d + 1 : e = d + 1 \/ e \in 0..d
    BY <1>1
  <2> QED
    BY <1>1, <1>2, <1>3, <2>1, <2>2 DEF Within, Far
<1> HIDE DEF t
<1>8. Lists(s \o t, Within(a, d + 1))
  BY <1>4, <1>5, <1>6, <1>7, ListsJoined
<1>9. /\ IsJoin(s \o t, s, t) /\ Len(s) \in Nat /\ Len(t) \in Nat
      /\ Len(s \o t) = Len(s) + Len(t)
  <2>1. s \in Seq(Pages) /\ t \in Seq(Pages)
    BY <1>3, <1>4, <1>5 DEF Lists, Within
  <2>2. IsJoin(s \o t, s, t)
    BY <2>1, Joined, Zenon
  <2> QED
    BY <2>1, <2>2, LenProperties DEF IsJoin
<1>10. v.round = d + 1 /\ v.frontier = Unseen(w) /\ v.found = s \o t
  OBVIOUS
<1> DEFINE u == s \o t
<1> HIDE DEF v, u
<1>11. Len(u) > 0 /\ u[1] = a
  BY <1>9 DEF Reached, IsJoin, u
<1>12. \A n \in 1..Len(t) : Far(a, t[n], d + 1)
  <2>1. \A n \in 1..Len(t) : t[n] \in Unseen(w)
    BY <1>4 DEF Lists, Range
  <2> QED
    BY <1>3, <2>1
<1>13. ASSUME NEW i \in 1..Len(u), NEW j \in 1..Len(u), i < j
       PROVE  \E k, e \in 0..d + 1 : Far(a, u[i], k) /\ Far(a, u[j], e) /\ k <= e
  <2>1. CASE j \in 1..Len(s)
    <3>1. i \in 1..Len(s) /\ u[i] = s[i] /\ u[j] = s[j]
      BY <1>9, <1>13, <2>1 DEF IsJoin, u
    <3>2. PICK k \in 0..d, e \in 0..d : Far(a, s[i], k) /\ Far(a, s[j], e) /\ k <= e
      BY <1>13, <2>1, <3>1 DEF Reached
    <3> QED
      BY <1>2, <3>1, <3>2
  <2>2. CASE j \notin 1..Len(s)
    <3>1. Far(a, u[j], d + 1)
      BY <1>9, <1>12, <2>2 DEF IsJoin, u
    <3>2. \E k \in 0..d + 1 : Far(a, u[i], k)
      <4>1. CASE i \in 1..Len(s)
        <5>1. s[i] \in Within(a, d) /\ u[i] = s[i]
          BY <1>5, <1>9, <4>1 DEF Lists, Range, IsJoin, u
        <5>2. PICK e \in 0..d : Leads(a, s[i], e)
          BY <5>1 DEF Within
        <5>3. PICK k \in 0..e : Far(a, s[i], k)
          BY <1>2, <5>2, LeadsFar
        <5>4. k \in 0..d + 1
          BY <1>1
        <5> QED
          BY <5>1, <5>3, <5>4
      <4>2. CASE i \notin 1..Len(s)
        BY <1>1, <1>9, <1>12, <4>2 DEF IsJoin, u
      <4> QED
        BY <4>1, <4>2
    <3>3. PICK k \in 0..d + 1 : Far(a, u[i], k)
      BY <3>2
    <3>4. k <= d + 1
      BY <1>1
    <3> QED
      BY <1>1, <3>1, <3>3, <3>4
  <2> QED
    BY <2>1, <2>2
<1>14. Reached(a, v)
  BY <1>1, <1>3, <1>8, <1>10, <1>11, <1>13 DEF Reached, u
<1> QED
  BY <1>14 DEF v, t

\* When no page is left to go on from, longer ways lead to no other page.
LEMMA Exhausted ==
  ASSUME NEW a \in Pages, NEW w, Reached(a, w), w.frontier = {}
  PROVE  Within(a, Depth) \subseteq Within(a, w.round)
<1> DEFINE r == w.round
           P == {n \in 0..Depth : \A b \in Pages : Leads(a, b, n) => b \in Within(a, r)}
<1>1. r \in 0..Depth /\ r \in Nat /\ Depth \in Nat /\ \A b \in Pages : ~ Far(a, b, r)
  BY WalkAssumption DEF Reached
<1>2. 0 \in P
  <2>1. 0 \in 0..Depth /\ 0 \in 0..r
    BY <1>1
  <2> QED
    BY <2>1 DEF Within
<1>3. ASSUME NEW n \in 0..Depth - 1, n \in P PROVE n + 1 \in P
  <2>1. n \in Nat /\ n + 1 \in 0..Depth
    BY <1>1
  <2>2. ASSUME NEW b \in Pages, Leads(a, b, n + 1) PROVE b \in Within(a, r)
    <3>1. PICK m \in Pages : Leads(a, m, n) /\ HasEdge(m, b)
      BY <2>1, <2>2, LeadsOn
    <3>2. PICK e \in 0..r : Leads(a, m, e)
      BY <1>3, <3>1 DEF Within
    <3>3. PICK k \in 0..e : Far(a, m, k)
      BY <1>1, <3>2, LeadsFar
    <3>4. k \in Nat /\ k + 1 \in 0..r
      BY <1>1, <3>3
    <3>5. Leads(a, b, k + 1)
      BY <3>1, <3>3, <3>4, LeadsOn DEF Far
    <3> QED
      BY <3>4, <3>5 DEF Within
  <2> QED
    BY <2>1, <2>2
<1> HIDE DEF P
<1>4. \A n \in 0..Depth : n \in P
  <2>1. \A n \in 0..Depth - 1 : n \in P => n + 1 \in P
    BY <1>3
  <2> QED
    BY <1>1, <1>2, <2>1, SetInduction
<1> QED
  BY <1>4 DEF P, Within

LEMMA FarIsLeast ==
  ASSUME NEW a, NEW b, NEW d \in 0..Depth, Far(a, b, d)
  PROVE  d \in Distance(a, b) /\ Min(Distance(a, b)) = d
<1>1. d \in Distance(a, b)
  BY DEF Far, Distance
<1>2. \A e \in Distance(a, b) : e \in Nat /\ d <= e
  <2> SUFFICES ASSUME NEW e \in Distance(a, b) PROVE e \in Nat /\ d <= e
    OBVIOUS
  <2>1. e \in 0..Depth /\ e \notin 0..d - 1
    BY DEF Distance, Far
  <2> QED
    BY <2>1
<1>3. \A e \in Distance(a, b) : e <= d => e = d
  BY <1>2
<1> QED
  BY <1>1, <1>2, <1>3 DEF Min

Anchored == Walks /\ Anchor \in graph.nodes

\* What the walk leaves behind is what WalkIsShortest says of it.
LEMMA ReachedIsShortest ==
  ASSUME Reached(Anchor, near), near.round = Depth \/ near.frontier = {}
  PROVE  WalkIsShortest
<1> DEFINE a == Anchor
           s == near.found
           hits == TopologyHits
<1> HIDE DEF a
<1>1. /\ s \in Seq(Within(a, near.round)) /\ Range(s) = Within(a, near.round)
      /\ IsInjective(s) /\ s[1] = a /\ Len(s) \in Nat /\ Len(s) > 0 /\ DOMAIN s = 1..Len(s)
      /\ near.round \in 0..Depth /\ Depth \in Nat
  BY LenProperties, WalkAssumption DEF Reached, Lists, a
<1>2. Within(a, near.round) = Within(a, Depth)
  <2>1. Within(a, near.round) \subseteq Within(a, Depth)
    BY <1>1 DEF Within
  <2>2. a \in Pages
    BY <1>1 DEF Range, Within
  <2>3. Within(a, Depth) \subseteq Within(a, near.round)
    BY <2>2, Exhausted DEF a
  <2> QED
    BY <2>1, <2>3
<1>3. \A b \in Pages : b \in Range(s) <=> Distance(a, b) # {}
  BY <1>1, <1>2 DEF Within, Distance
<1>4. s # << >>
  BY <1>1
<1>5. /\ DOMAIN hits = 1..Len(s) - 1 /\ Len(hits) = Len(s) - 1
      /\ \A i \in 1..Len(s) - 1 : hits[i].page = s[i + 1]
  BY <1>1, <1>4 DEF TopologyHits
<1> HIDE DEF hits
<1>6. {hits[i].page : i \in 1..Len(hits)} = {b \in Pages \ {a} : Distance(a, b) # {}}
  <2>1. ASSUME NEW i \in 1..Len(hits)
        PROVE  hits[i].page \in {b \in Pages \ {a} : Distance(a, b) # {}}
    <3>1. i + 1 \in 1..Len(s) /\ i + 1 # 1 /\ 1 \in 1..Len(s) /\ hits[i].page = s[i + 1]
      BY <1>1, <1>5
    <3>2. s[i + 1] \in Range(s) /\ s[i + 1] # s[1]
      BY <1>1, <3>1 DEF Range, IsInjective
    <3>3. s[i + 1] \in Pages
      BY <1>1, <3>2 DEF Within
    <3> QED
      BY <1>1, <1>3, <3>1, <3>2, <3>3
  <2>2. ASSUME NEW b \in Pages \ {a}, Distance(a, b) # {}
        PROVE  \E i \in 1..Len(hits) : hits[i].page = b
    <3>1. PICK n \in 1..Len(s) : s[n] = b
      BY <1>1, <1>3, <2>2 DEF Range
    <3>2. n # 1
      BY <1>1, <3>1
    <3>3. n - 1 \in 1..Len(s) - 1 /\ n - 1 + 1 = n
      BY <1>1, <3>2
    <3> QED
      BY <1>5, <3>1, <3>3
  <2> QED
    BY <2>1, <2>2
<1>7. ASSUME NEW i \in 1..Len(hits), NEW j \in 1..Len(hits), i < j
      PROVE  /\ hits[i].page # hits[j].page
             /\ Min(Distance(a, hits[i].page)) <= Min(Distance(a, hits[j].page))
  <2>1. /\ i + 1 \in 1..Len(s) /\ j + 1 \in 1..Len(s) /\ i + 1 < j + 1 /\ i + 1 # j + 1
        /\ hits[i].page = s[i + 1] /\ hits[j].page = s[j + 1]
    <3>1. i \in 1..Len(s) - 1 /\ j \in 1..Len(s) - 1
      BY <1>5
    <3>2. hits[i].page = s[i + 1] /\ hits[j].page = s[j + 1]
      BY <1>5, <3>1, Zenon
    <3>3. Len(s) \in Nat /\ i < j
      BY <1>1, <1>7
    <3> HIDE DEF s, hits
    <3> QED
      BY <3>1, <3>2, <3>3
  <2>2. PICK d \in 0..near.round, e \in 0..near.round :
          Far(a, s[i + 1], d) /\ Far(a, s[j + 1], e) /\ d <= e
    BY <2>1 DEF Reached, a
  <2>3. d \in 0..Depth /\ e \in 0..Depth
    BY <1>1
  <2>4. Min(Distance(a, s[i + 1])) = d /\ Min(Distance(a, s[j + 1])) = e
    BY <2>2, <2>3, FarIsLeast
  <2> QED
    BY <1>1, <2>1, <2>2, <2>4 DEF IsInjective
<1> QED
  BY <1>6, <1>7 DEF WalkIsShortest, a, hits
-----------------------------------------------------------------------------
\* dispatch has returned.
Returned == pc = "answered" /\ query.call = "dispatch"

\* What topology_walk has found, in each part of dispatch.
WalkInv ==
  /\ pc \in {"topology", "fusion"} => query.call = "dispatch"
  /\ pc \in {"multi_hop", "assemble"} => query.call # "dispatch"
  /\ pc \notin {"topology", "fusion"} /\ ~ Returned =>
       near = [round |-> 0, frontier |-> {}, found |-> << >>]
  /\ pc = "topology" => Anchored /\ Reached(Anchor, near)
  /\ pc = "fusion" \/ Returned =>
       IF Anchored THEN Reached(Anchor, near) /\ (near.round = Depth \/ near.frontier = {})
                   ELSE near = [round |-> 0, frontier |-> {}, found |-> << >>]
  /\ result # None => Returned

LEMMA SameReached ==
  ASSUME graph' = graph, query' = query
  PROVE  (Reached(Anchor, near)' <=> Reached(Anchor, near')) /\ (Anchored' <=> Anchored)
<1>1. Anchor' = Anchor /\ (Anchored' <=> Anchored)
  BY DEF Anchored, Anchor, Walks, VectorHits
<1>2. \A a, b, d : Leads(a, b, d)' <=> Leads(a, b, d)
  BY DEF Leads, HasEdge
<1>3. \A a, b, d : Far(a, b, d)' <=> Far(a, b, d)
  BY <1>2, Zenon DEF Far
<1>4. \A a, d : Within(a, d)' = Within(a, d)
  BY <1>2, Zenon DEF Within
<1> QED
  BY <1>1, <1>3, <1>4, Zenon DEF Reached

LEMMA InitWalk == Init => WalkInv
BY DEF Init, WalkInv, Returned

LEMMA NextWalk == QueryInv /\ WalkInv /\ [Next]_vars => WalkInv'
<1> SUFFICES ASSUME QueryInv, WalkInv, [Next]_vars PROVE WalkInv'
  OBVIOUS
<1>1. ASSUME UNCHANGED <<graph, query, near, result>>, pc' = pc PROVE WalkInv'
  BY <1>1, SameReached DEF WalkInv, Returned
<1>2. ASSUME UNCHANGED <<graph, query, near, result>>, result = None,
             \/ pc = "idle" /\ pc' \in {"multi_hop", "assemble"} /\ query.call = pc'
             \/ pc \in {"multi_hop", "assemble"} /\ pc' = "answered"
      PROVE  WalkInv'
  BY <1>2 DEF WalkInv, Returned
<1>3. CASE Reindex \/ Trace
  BY <1>3 DEF Reindex, Trace, WalkInv, Returned
<1>4. CASE Dispatch
  <2>1. query.call = "dispatch"
    BY <1>4 DEF Dispatch
  <2>2. /\ pc = "idle" /\ graph # None /\ UNCHANGED <<graph, query, result>> /\ result = None
        /\ near = [round |-> 0, frontier |-> {}, found |-> << >>]
    BY <1>4 DEF Dispatch, WalkInv, Returned, graphVars
  <2>3. CASE Anchored
    <3>1. /\ pc' = "topology"
          /\ near' = [near EXCEPT !.frontier = {Anchor}, !.found = <<Anchor>>]
      BY <1>4, <2>3 DEF Dispatch, Anchored
    <3>2. Anchor \in Pages
      BY <2>2, <2>3 DEF QueryInv, GraphTypeOK, Anchored
    <3>3. near'.round = 0 /\ near'.frontier = {Anchor} /\ near'.found = <<Anchor>>
      BY <2>2, <3>1
    <3>4. Reached(Anchor, near')
      BY <3>2, <3>3, AnchorReached
    <3> QED
      BY <2>1, <2>2, <2>3, <3>1, <3>4, SameReached DEF WalkInv, Returned
  <2>4. CASE ~ Anchored
    <3>1. pc' = "fusion" /\ near' = near
      BY <1>4, <2>4 DEF Dispatch, Anchored
    <3> QED
      BY <2>1, <2>2, <2>4, <3>1, SameReached DEF WalkInv, Returned
  <2> QED
    BY <2>3, <2>4
<1>5. CASE Round
  <2>1. /\ pc = "topology" /\ pc' = pc /\ UNCHANGED <<graph, query, result>> /\ result = None
        /\ near.round < Depth /\ Anchored /\ Reached(Anchor, near)
        /\ near' = [round |-> near.round + 1, frontier |-> Unseen(near),
                    found |-> near.found \o SetToSeq(Unseen(near))]
    BY <1>5 DEF Round, WalkInv, Returned, graphVars
  <2>2. Reached(Anchor, near')
    BY <2>1, RoundReaches
  <2> QED
    BY <2>1, <2>2, SameReached DEF WalkInv, Returned
<1>6. CASE Near
  BY <1>6, SameReached DEF Near, WalkInv, Returned, graphVars
<1>7. CASE FuseHit \/ NextRanking
  BY <1>1, <1>7 DEF FuseHit, NextRanking, graphVars
<1>8. CASE Fused
  BY <1>8, SameReached DEF Fused, WalkInv, Returned, graphVars
<1>9. CASE StartHops \/ EndHops \/ StartCiting \/ EndCiting
  <2>1. /\ result = None
        /\ \/ pc = "idle" /\ pc' \in {"multi_hop", "assemble"} /\ query.call = pc'
           \/ pc \in {"multi_hop", "assemble"} /\ pc' = "answered"
    BY <1>9 DEF StartHops, EndHops, StartCiting, EndCiting, WalkInv, Returned
  <2> QED
    BY <1>2, <1>9, <2>1 DEF StartHops, EndHops, StartCiting, EndCiting, Hop, Cite, graphVars
<1>10. CASE HopOn \/ CiteOn \/ Answered \/ UNCHANGED vars
  BY <1>1, <1>10 DEF HopOn, CiteOn, Hop, Cite, Answered, vars, graphVars
<1> QED
  BY <1>3, <1>4, <1>5, <1>6, <1>7, <1>8, <1>9, <1>10 DEF Next

LEMMA WalkInvariance == Spec => []WalkInv
<1> QED
  BY InitWalk, NextWalk, Invariance, PTL DEF Spec

\* In a graph of any size and for any depth, topology_walk finds the pages that
\* so many links lead to, each once and nearest first.
THEOREM WalkShortest == Spec => []WalkIsShortest
<1>1. WalkInv => WalkIsShortest
  <2> SUFFICES ASSUME WalkInv, result # None, Anchored PROVE WalkIsShortest
    BY DEF WalkIsShortest, Anchored
  <2> QED
    BY ReachedIsShortest DEF WalkInv
<1> QED
  BY <1>1, WalkInvariance, PTL
-----------------------------------------------------------------------------
(* sums *)

\* The values of the recursion in Total.
TotalTurn(u, s) == /\ u \in [0..Len(s) -> Nat] /\ u[0] = 0 /\ Total(s) = u[Len(s)]
                   /\ \A n \in 1..Len(s) : u[n] = u[n - 1] + s[n]

LEMMA TotalTurns ==
  ASSUME NEW s \in Seq(Nat)
  PROVE  \E u : TotalTurn(u, s)
<1> DEFINE N == Len(s)
           base == 0
           G == [n \in 1..N |-> [q \in Nat |-> q + s[n]]]
           upto[n \in 0..N] == IF n = 0 THEN 0 ELSE upto[n - 1] + s[n]
<1>1. base \in Nat /\ N \in Nat
  BY LenProperties
<1>2. \A n \in 1..N, q \in Nat : q + s[n] \in Nat
  OBVIOUS
<1>3. \A n \in 1..N, q \in Nat : G[n][q] = q + s[n]
  OBVIOUS
<1>4. G \in [1..N -> [Nat -> Nat]]
  BY <1>2
<1>5. Total(s) = upto[N]
  BY DEF Total
<1> HIDE DEF G, upto, base, N
<1>6. PICK f \in [0..N -> Nat] : Solves(f, N, base, G)
  BY <1>1, <1>4, RecursionExists, Zenon
<1>7. ASSUME NEW n \in 1..N PROVE f[n] = f[n - 1] + s[n]
  <2>1. n - 1 \in 0..N
    BY <1>1
  <2>2. f[n - 1] \in Nat
    BY <2>1
  <2> QED
    BY <1>3, <1>6, <2>2 DEF Solves
<1>8. \A n \in 0..N : n # 0 => n \in 1..N
  BY <1>1
<1>9. f = [n \in 0..N |-> IF n = 0 THEN 0 ELSE f[n - 1] + s[n]]
  <2>1. \A n \in 0..N : f[n] = IF n = 0 THEN 0 ELSE f[n - 1] + s[n]
    BY <1>6, <1>7, <1>8 DEF Solves, base
  <2> QED
    BY <2>1
<1>10. upto = [n \in 0..N |-> IF n = 0 THEN 0 ELSE upto[n - 1] + s[n]]
  BY <1>9 DEF upto
<1>11. upto[0] = base /\ \A n \in 1..N : upto[n] = upto[n - 1] + s[n]
  <2>1. \A n \in 0..N : upto[n] = IF n = 0 THEN 0 ELSE upto[n - 1] + s[n]
    BY <1>10
  <2>2. 0 \in 0..N /\ \A n \in 1..N : n \in 0..N /\ n # 0
    BY <1>1
  <2> QED
    BY <2>1, <2>2 DEF base
<1>12. SolvesIn(upto, N, Nat, base, G)
  BY <1>3, <1>11 DEF SolvesIn
<1>13. \A n \in 0..N : upto[n] \in Nat
  BY <1>1, <1>4, <1>12, RecursionSolved, Zenon
<1>14. upto \in [0..N -> Nat]
  BY <1>10, <1>13
<1>15. TotalTurn(upto, s)
  BY <1>5, <1>11, <1>14 DEF base, N, TotalTurn
<1> QED
  BY <1>15

\* The first n elements of a sequence.
FirstN(s, n) == [i \in 1..n |-> s[i]]

LEMMA FirstNSeq ==
  ASSUME NEW S, NEW s \in Seq(S), NEW n \in 0..Len(s)
  PROVE  FirstN(s, n) \in Seq(S) /\ Len(FirstN(s, n)) = n /\ FirstN(s, Len(s)) = s
<1>1. Len(s) \in Nat /\ n \in Nat /\ \A i \in 1..n : i \in 1..Len(s)
  BY LenProperties
<1>2. \A i \in 1..n : s[i] \in S
  BY <1>1
<1>3. FirstN(s, n) \in [1..n -> S]
  BY <1>2 DEF FirstN
<1>4. FirstN(s, n) \in Seq(S) /\ Len(FirstN(s, n)) = n
  BY <1>1, <1>3
<1>5. s = [i \in 1..Len(s) |-> s[i]]
  BY <1>1
<1> QED
  BY <1>4, <1>5 DEF FirstN

\* Two recursions over the same numbers agree.
Agree(s, t, N) == N <= Len(s) /\ N <= Len(t) /\ \A n \in 1..N : s[n] = t[n]

LEMMA TurnsAgree ==
  ASSUME NEW s \in Seq(Nat), NEW t \in Seq(Nat), NEW u, NEW v, NEW N \in Nat,
         TotalTurn(u, s), TotalTurn(v, t), Agree(s, t, N)
  PROVE  \A n \in 0..N : u[n] = v[n]
<1> DEFINE P == {n \in 0..N : u[n] = v[n]}
<1>1. 0 \in P
  BY DEF TotalTurn
<1>2. ASSUME NEW n \in 0..N - 1, n \in P PROVE n + 1 \in P
  <2>1. /\ Len(s) \in Nat /\ Len(t) \in Nat /\ (n + 1) - 1 = n /\ n + 1 \in 0..N
        /\ n + 1 \in 1..N /\ n + 1 \in 1..Len(s) /\ n + 1 \in 1..Len(t)
    BY LenProperties DEF Agree
  <2>2. u[n + 1] = u[n] + s[n + 1] /\ v[n + 1] = v[n] + t[n + 1]
    BY <2>1 DEF TotalTurn, Agree
  <2> QED
    BY <1>2, <2>1, <2>2 DEF Agree
<1> HIDE DEF P
<1>3. \A n \in 0..N : n \in P
  <2>1. \A n \in 0..N - 1 : n \in P => n + 1 \in P
    BY <1>2
  <2> QED
    BY <1>1, <2>1, SetInduction
<1> QED
  BY <1>3 DEF P

LEMMA TotalType ==
  ASSUME NEW s \in Seq(Nat)
  PROVE  Total(s) \in Nat /\ (Len(s) = 0 => Total(s) = 0)
<1>1. PICK u : TotalTurn(u, s)
  BY TotalTurns
<1>2. Len(s) \in Nat /\ Len(s) \in 0..Len(s)
  BY LenProperties
<1> QED
  BY <1>1, <1>2 DEF TotalTurn

\* The sum of one element more.
LEMMA TotalStep ==
  ASSUME NEW s \in Seq(Nat), NEW n \in 0..Len(s) - 1
  PROVE  Total(FirstN(s, n + 1)) = Total(FirstN(s, n)) + s[n + 1]
<1> DEFINE a == FirstN(s, n)
           b == FirstN(s, n + 1)
<1>1. /\ Len(s) \in Nat /\ n \in Nat /\ n \in 0..Len(s) /\ n + 1 \in 0..Len(s)
      /\ n <= n /\ n <= n + 1 /\ n \in 0..n /\ n + 1 \in 1..n + 1 /\ (n + 1) - 1 = n
  BY LenProperties
<1>2. a \in Seq(Nat) /\ Len(a) = n /\ b \in Seq(Nat) /\ Len(b) = n + 1
  BY <1>1, FirstNSeq
<1>3. (\A m \in 1..n : a[m] = b[m]) /\ b[n + 1] = s[n + 1]
  BY <1>1 DEF FirstN
<1> HIDE DEF a, b
<1>4. PICK u : TotalTurn(u, a)
  BY <1>2, TotalTurns
<1>5. PICK v : TotalTurn(v, b)
  BY <1>2, TotalTurns
<1>6. \A m \in 0..n : u[m] = v[m]
  <2>1. n \in Nat /\ Agree(a, b, n)
    BY <1>1, <1>2, <1>3 DEF Agree
  <2> QED
    BY <1>2, <1>4, <1>5, <2>1, TurnsAgree
<1>7. Total(a) = u[n] /\ Total(b) = v[n + 1] /\ v[n + 1] = v[n] + b[n + 1]
  BY <1>1, <1>2, <1>4, <1>5 DEF TotalTurn
<1>8. Total(b) = Total(a) + s[n + 1]
  BY <1>1, <1>3, <1>6, <1>7
<1> QED
  BY <1>8 DEF a, b

\* Multiple is a product, so what a rank is worth is a number.
LEMMA ContributionType ==
  ASSUME NEW rank \in Nat, rank > 0
  PROVE  Contribution(rank) \in Nat
<1> DEFINE N == MaxRank
           base == 1
           G == [r \in 1..N |-> [q \in Nat |-> (K + r) * q]]
<1>1. base \in Nat /\ N \in Nat /\ K \in Nat
  BY QueriesAssumption
<1>2. \A r \in 1..N, q \in Nat : (K + r) * q \in Nat
  BY <1>1
<1>3. \A r \in 1..N, q \in Nat : G[r][q] = (K + r) * q
  OBVIOUS
<1>4. G \in [1..N -> [Nat -> Nat]]
  BY <1>2
<1> HIDE DEF G, base, N
<1>6. PICK f \in [0..N -> Nat] : Solves(f, N, base, G)
  BY <1>1, <1>4, RecursionExists, Zenon
<1>7. ASSUME NEW r \in 1..N PROVE f[r] = (K + r) * f[r - 1]
  <2>1. r - 1 \in 0..N
    BY <1>1
  <2>2. f[r - 1] \in Nat
    BY <2>1
  <2> QED
    BY <1>3, <1>6, <2>2 DEF Solves
<1>8. \A r \in 0..N : r # 0 => r \in 1..N
  BY <1>1
<1>9. f = [r \in 0..N |-> IF r = 0 THEN 1 ELSE (K + r) * f[r - 1]]
  <2>1. \A r \in 0..N : f[r] = IF r = 0 THEN 1 ELSE (K + r) * f[r - 1]
    BY <1>6, <1>7, <1>8 DEF Solves, base
  <2> QED
    BY <2>1
<1>10. Multiple = [r \in 0..N |-> IF r = 0 THEN 1 ELSE (K + r) * Multiple[r - 1]]
  BY <1>9 DEF Multiple, N
<1>11. Multiple[0] = base /\ \A r \in 1..N : Multiple[r] = (K + r) * Multiple[r - 1]
  <2>1. \A r \in 0..N : Multiple[r] = IF r = 0 THEN 1 ELSE (K + r) * Multiple[r - 1]
    BY <1>10
  <2>2. 0 \in 0..N /\ \A r \in 1..N : r \in 0..N /\ r # 0
    BY <1>1
  <2> QED
    BY <2>1, <2>2 DEF base
<1>12. SolvesIn(Multiple, N, Nat, base, G)
  BY <1>3, <1>11 DEF SolvesIn
<1>13. \A r \in 0..N : Multiple[r] \in Nat
  BY <1>1, <1>4, <1>12, RecursionSolved, Zenon
<1>14. Multiple[MaxRank] \in Nat /\ K + rank \in Nat /\ K + rank > 0
  BY <1>1, <1>13 DEF N
<1>15. \A m, d \in Nat : d > 0 => m \div d \in Nat
  OBVIOUS
<1> QED
  BY <1>14, <1>15 DEF Contribution
-----------------------------------------------------------------------------
(* reciprocal_rank_fusion *)

ChannelsOK(ch) == ch \in Seq(Seq(Hits)) /\ \A c \in 1..Len(ch) : Len(ch[c]) <= MaxRank

\* What each place of a ranking, and each ranking, gives to a page.
Marks(ranking, p) ==
  [r \in 1..Len(ranking) |-> IF ranking[r].page = p THEN Contribution(r) ELSE 0]
Givens(ch, p) == [c \in 1..Len(ch) |-> GivenBy(ch[c], p)]

\* What the channels before c, and the first n places of channel c, give to it.
ScoreAt(ch, c, n, p) ==
  Total(FirstN(Givens(ch, p), c - 1)) + Total(FirstN(Marks(ch[c], p), n))

\* Those places, the ones that name the page, and the ones of these that have a
\* chunk of it.
Met(ch, c, n) == {x \in (1..Len(ch)) \X (1..MaxRank) :
                    /\ x[2] <= Len(ch[x[1]])
                    /\ x[1] < c \/ (x[1] = c /\ x[2] <= n)}
Naming(ch, c, n, p) == {x \in Met(ch, c, n) : ch[x[1]][x[2]].page = p}
Chunked(ch, c, n, p) == {x \in Naming(ch, c, n, p) : ch[x[1]][x[2]].chunk # None}

LEMMA EmptySum == \A s : Total(FirstN(s, 0)) = 0
<1> TAKE s
<1>1. FirstN(s, 0) = << >>
  BY DEF FirstN
<1>2. << >> \in Seq(Nat) /\ Len(<< >>) = 0
  BY EmptySeq
<1> QED
  BY <1>1, <1>2, TotalType

LEMMA MarksType ==
  ASSUME NEW ranking \in Seq(Hits), NEW p
  PROVE  /\ Marks(ranking, p) \in Seq(Nat) /\ Len(Marks(ranking, p)) = Len(ranking)
         /\ GivenBy(ranking, p) = Total(Marks(ranking, p)) /\ GivenBy(ranking, p) \in Nat
<1>1. Len(ranking) \in Nat /\ \A r \in 1..Len(ranking) : r \in Nat /\ r > 0
  BY LenProperties
<1>2. \A r \in 1..Len(ranking) : Contribution(r) \in Nat
  BY <1>1, ContributionType
<1>3. Marks(ranking, p) \in [1..Len(ranking) -> Nat]
  BY <1>2 DEF Marks
<1>4. Marks(ranking, p) \in Seq(Nat) /\ Len(Marks(ranking, p)) = Len(ranking)
  BY <1>1, <1>3
<1>5. GivenBy(ranking, p) = Total(Marks(ranking, p))
  BY DEF GivenBy, Marks
<1> QED
  BY <1>4, <1>5, TotalType

LEMMA GivensType ==
  ASSUME NEW ch, ChannelsOK(ch), NEW p
  PROVE  /\ Givens(ch, p) \in Seq(Nat) /\ Len(Givens(ch, p)) = Len(ch)
         /\ \A c \in 1..Len(ch) : Givens(ch, p)[c] = GivenBy(ch[c], p)
<1>1. Len(ch) \in Nat /\ \A c \in 1..Len(ch) : ch[c] \in Seq(Hits)
  BY LenProperties DEF ChannelsOK
<1>2. \A c \in 1..Len(ch) : GivenBy(ch[c], p) \in Nat
  BY <1>1, MarksType
<1>3. Givens(ch, p) \in [1..Len(ch) -> Nat]
  BY <1>2 DEF Givens
<1>4. Givens(ch, p) \in Seq(Nat) /\ Len(Givens(ch, p)) = Len(ch)
  BY <1>1, <1>3
<1> QED
  BY <1>4 DEF Givens

\* One place more, and one channel more.
LEMMA ScoreHit ==
  ASSUME NEW ch, ChannelsOK(ch), NEW c \in 1..Len(ch), NEW n \in 0..Len(ch[c]) - 1, NEW p
  PROVE  /\ ScoreAt(ch, c, n, p) \in Nat
         /\ ScoreAt(ch, c, n + 1, p) = ScoreAt(ch, c, n, p)
              + (IF ch[c][n + 1].page = p THEN Contribution(n + 1) ELSE 0)
<1> DEFINE g == Total(FirstN(Givens(ch, p), c - 1))
           m == Marks(ch[c], p)
<1>1. /\ ch[c] \in Seq(Hits) /\ Len(ch[c]) \in Nat /\ Len(ch) \in Nat /\ n \in 0..Len(ch[c])
      /\ c - 1 \in 0..Len(ch) /\ n + 1 \in 1..Len(ch[c])
  BY LenProperties DEF ChannelsOK
<1>2. g \in Nat
  BY <1>1, GivensType, FirstNSeq, TotalType
<1>3. m \in Seq(Nat) /\ Len(m) = Len(ch[c])
  BY <1>1, MarksType
<1>4. Total(FirstN(m, n)) \in Nat
  <2> HIDE DEF m
  <2> QED
    BY <1>1, <1>3, FirstNSeq, TotalType
<1>5. Total(FirstN(m, n + 1)) = Total(FirstN(m, n)) + m[n + 1]
  <2> HIDE DEF m
  <2> QED
    BY <1>1, <1>3, TotalStep
<1>6. m[n + 1] = IF ch[c][n + 1].page = p THEN Contribution(n + 1) ELSE 0
  BY <1>1 DEF Marks
<1>7. m[n + 1] \in Nat
  <2> HIDE DEF m
  <2> QED
    BY <1>1, <1>3
<1>8. /\ ScoreAt(ch, c, n, p) = g + Total(FirstN(m, n))
      /\ ScoreAt(ch, c, n + 1, p) = g + Total(FirstN(m, n + 1))
  BY DEF ScoreAt
<1> HIDE DEF g, m
<1>9. g + (Total(FirstN(m, n)) + m[n + 1]) = (g + Total(FirstN(m, n))) + m[n + 1]
  BY <1>2, <1>4, <1>7
<1> QED
  BY <1>2, <1>4, <1>5, <1>6, <1>8, <1>9

LEMMA ScoreNext ==
  ASSUME NEW ch, ChannelsOK(ch), NEW c \in 1..Len(ch), NEW p
  PROVE  ScoreAt(ch, c + 1, 0, p) = ScoreAt(ch, c, Len(ch[c]), p)
<1> DEFINE s == Givens(ch, p)
           m == Marks(ch[c], p)
<1>1. /\ ch[c] \in Seq(Hits) /\ Len(ch[c]) \in Nat /\ Len(ch) \in Nat
      /\ c - 1 \in 0..Len(ch) - 1 /\ (c - 1) + 1 = c /\ (c + 1) - 1 = c
      /\ Len(ch[c]) \in 0..Len(ch[c])
  BY LenProperties DEF ChannelsOK
<1>2. s \in Seq(Nat) /\ Len(s) = Len(ch) /\ s[c] = GivenBy(ch[c], p)
  BY GivensType
<1>3. m \in Seq(Nat) /\ Len(m) = Len(ch[c]) /\ s[c] = Total(m) /\ Total(m) \in Nat
  BY <1>1, <1>2, MarksType
<1>4. ScoreAt(ch, c + 1, 0, p) = Total(FirstN(s, c)) + 0
  BY <1>1, EmptySum DEF ScoreAt
<1>5. ScoreAt(ch, c, Len(ch[c]), p) = Total(FirstN(s, c - 1)) + Total(FirstN(m, Len(m)))
  BY <1>3 DEF ScoreAt
<1> HIDE DEF s, m
<1>6. Total(FirstN(s, c)) = Total(FirstN(s, c - 1)) + s[c]
  BY <1>1, <1>2, TotalStep
<1>7. FirstN(m, Len(m)) = m
  BY <1>1, <1>3, FirstNSeq
<1>8. Total(FirstN(s, c - 1)) \in Nat
  <2>1. c - 1 \in 0..Len(s)
    BY <1>1, <1>2
  <2> QED
    BY <1>2, <2>1, FirstNSeq, TotalType
<1> QED
  BY <1>3, <1>4, <1>5, <1>6, <1>7, <1>8

LEMMA MetMore ==
  ASSUME NEW ch, ChannelsOK(ch), NEW c \in 1..Len(ch), NEW n \in 0..Len(ch[c]) - 1
  PROVE  Met(ch, c, n + 1) = Met(ch, c, n) \cup {<<c, n + 1>>}
<1>1. /\ Len(ch[c]) \in Nat /\ Len(ch[c]) <= MaxRank /\ MaxRank \in Nat
      /\ n + 1 \in 1..MaxRank /\ n + 1 <= Len(ch[c]) /\ n \in Nat /\ ~ n + 1 <= n
  BY LenProperties, QueriesAssumption DEF ChannelsOK
<1>2. \A i \in 1..MaxRank : i <= n + 1 <=> i <= n \/ i = n + 1
  BY <1>1
<1>3. \A x \in (1..Len(ch)) \X (1..MaxRank) : x = <<x[1], x[2]>> /\ x[2] \in 1..MaxRank
  OBVIOUS
<1>4. <<c, n + 1>> \in Met(ch, c, n + 1)
  BY <1>1 DEF Met
<1>5. ASSUME NEW x \in (1..Len(ch)) \X (1..MaxRank)
        PROVE  x \in Met(ch, c, n + 1) <=> x \in Met(ch, c, n) \/ x = <<c, n + 1>>
  BY <1>2, <1>3, <1>4 DEF Met
<1>6. Met(ch, c, n + 1) \cup Met(ch, c, n) \subseteq (1..Len(ch)) \X (1..MaxRank)
  BY DEF Met
<1> QED
  BY <1>4, <1>5, <1>6

LEMMA MetHit ==
  ASSUME NEW ch, ChannelsOK(ch), NEW c \in 1..Len(ch), NEW n \in 0..Len(ch[c]) - 1, NEW p
  PROVE  /\ ch[c][n + 1].page = p =>
              Naming(ch, c, n + 1, p) = Naming(ch, c, n, p) \cup {<<c, n + 1>>}
         /\ ch[c][n + 1].page # p => Naming(ch, c, n + 1, p) = Naming(ch, c, n, p)
BY MetMore DEF Naming

LEMMA MetNames ==
  ASSUME NEW ch, ChannelsOK(ch), NEW c \in 1..Len(ch), NEW n \in 0..Len(ch[c]) - 1
  PROVE  Naming(ch, c, n + 1, ch[c][n + 1].page) # {}
<1>1. Met(ch, c, n + 1) = Met(ch, c, n) \cup {<<c, n + 1>>}
  BY MetMore
<1>2. <<c, n + 1>> \in Naming(ch, c, n + 1, ch[c][n + 1].page)
  BY <1>1 DEF Naming
<1> QED
  BY <1>2

LEMMA MetNext ==
  ASSUME NEW ch, ChannelsOK(ch), NEW c \in 1..Len(ch)
  PROVE  Met(ch, c + 1, 0) = Met(ch, c, Len(ch[c]))
<1>1. \A i \in 1..Len(ch) : i < c + 1 <=> i < c \/ i = c
  OBVIOUS
<1>2. \A i \in 1..MaxRank : ~ i <= 0
  OBVIOUS
<1>3. \A x \in (1..Len(ch)) \X (1..MaxRank) : x[1] \in 1..Len(ch) /\ x[2] \in 1..MaxRank
  OBVIOUS
<1> QED
  BY <1>1, <1>2, <1>3 DEF Met

\* An entry of the accumulator is right about the places met.
ChunkOK(ch, e, S) ==
  IF S = {} THEN e.chunk = None /\ e.best = 0
  ELSE \E x \in S : IsBestRank(x, S) /\ e.chunk = ch[x[1]][x[2]].chunk /\ e.best = x[2]
EntryOK(ch, c, n, e) == /\ e \in Entries /\ e.score = ScoreAt(ch, c, n, e.page)
                        /\ ChunkOK(ch, e, Chunked(ch, c, n, e.page))

\* The places met do not change for a page that the next one does not name.
LEMMA OtherEntry ==
  ASSUME NEW ch, ChannelsOK(ch), NEW c \in 1..Len(ch), NEW n \in 0..Len(ch[c]) - 1, NEW p,
         ch[c][n + 1].page # p
  PROVE  /\ ScoreAt(ch, c, n + 1, p) = ScoreAt(ch, c, n, p)
         /\ Naming(ch, c, n + 1, p) = Naming(ch, c, n, p)
         /\ Chunked(ch, c, n + 1, p) = Chunked(ch, c, n, p)
<1>1. ScoreAt(ch, c, n, p) \in Nat /\ ScoreAt(ch, c, n + 1, p) = ScoreAt(ch, c, n, p) + 0
  BY ScoreHit
<1>2. Naming(ch, c, n + 1, p) = Naming(ch, c, n, p)
  BY MetHit
<1> QED
  BY <1>1, <1>2 DEF Chunked

\* For the page that it names, the next place is one more.
LEMMA ChunkedHit ==
  ASSUME NEW ch, ChannelsOK(ch), NEW c \in 1..Len(ch), NEW n \in 0..Len(ch[c]) - 1, NEW p,
         ch[c][n + 1].page = p
  PROVE  Chunked(ch, c, n + 1, p) = IF ch[c][n + 1].chunk # None
                                    THEN Chunked(ch, c, n, p) \cup {<<c, n + 1>>}
                                    ELSE Chunked(ch, c, n, p)
<1> DEFINE N == Naming(ch, c, n, p)
           next == <<c, n + 1>>
<1>1. Naming(ch, c, n + 1, p) = N \cup {next}
  BY MetHit
<1>2. ch[next[1]][next[2]] = ch[c][n + 1]
  OBVIOUS
<1> HIDE DEF N, next
<1>3. CASE ch[c][n + 1].chunk # None
  <2>1. {x \in N \cup {next} : ch[x[1]][x[2]].chunk # None}
          = {x \in N : ch[x[1]][x[2]].chunk # None} \cup {next}
    BY <1>2, <1>3
  <2> QED
    BY <1>1, <1>3, <2>1 DEF Chunked, N, next
<1>4. CASE ch[c][n + 1].chunk = None
  <2>1. {x \in N \cup {next} : ch[x[1]][x[2]].chunk # None}
          = {x \in N : ch[x[1]][x[2]].chunk # None}
    BY <1>2, <1>4
  <2> QED
    BY <1>1, <1>4, <2>1 DEF Chunked, N
<1> QED
  BY <1>3, <1>4

LEMMA AddHitOK ==
  ASSUME NEW ch, ChannelsOK(ch), NEW c \in 1..Len(ch), NEW n \in 0..Len(ch[c]) - 1, NEW e,
         EntryOK(ch, c, n, e), e.page = ch[c][n + 1].page
  PROVE  /\ EntryOK(ch, c, n + 1, AddHit(e, ch[c][n + 1], n + 1))
         /\ AddHit(e, ch[c][n + 1], n + 1).page = e.page
<1> DEFINE hit == ch[c][n + 1]
           f == AddHit(e, hit, n + 1)
           S == Chunked(ch, c, n, e.page)
           T == Chunked(ch, c, n + 1, e.page)
           new == <<c, n + 1>>
<1>1. /\ ch[c] \in Seq(Hits) /\ Len(ch[c]) \in Nat /\ n \in Nat /\ n + 1 \in 1..Len(ch[c])
      /\ n + 1 \in Nat /\ n + 1 > 0 /\ MaxRank \in Nat /\ c \in Nat
  BY LenProperties, QueriesAssumption DEF ChannelsOK
<1>2. hit \in Hits /\ hit.chunk \in Nat \cup {None} /\ None \notin Nat
  <2>1. hit \in Hits
    BY <1>1
  <2> QED
    BY <2>1, QueriesAssumption DEF Hits
<1>3. Contribution(n + 1) \in Nat
  BY <1>1, ContributionType
<1>4. e \in Entries /\ e.score \in Nat /\ e.best \in Nat
  BY DEF EntryOK, Entries
<1>5. ScoreAt(ch, c, n + 1, e.page) = e.score + Contribution(n + 1)
  <2>1. ScoreAt(ch, c, n + 1, e.page) = ScoreAt(ch, c, n, e.page)
          + (IF ch[c][n + 1].page = e.page THEN Contribution(n + 1) ELSE 0)
    BY ScoreHit
  <2>2. e.score = ScoreAt(ch, c, n, e.page)
    BY DEF EntryOK
  <2> QED
    BY <2>1, <2>2
<1>6. T = IF hit.chunk # None THEN S \cup {new} ELSE S
  BY ChunkedHit
<1>7. \A x \in S : /\ x[1] \in Nat /\ x[2] \in Nat /\ x[2] > 0 /\ x[1] <= c
                   /\ x \in (1..Len(ch)) \X (1..MaxRank)
  BY <1>1 DEF Chunked, Naming, Met
<1>8. new[1] = c /\ new[2] = n + 1
  OBVIOUS
<1>9. ChunkOK(ch, e, S)
  BY DEF EntryOK
<1> HIDE DEF S, T, hit
<1>10. CASE hit.chunk # None /\ BestSoFar(e, n + 1)
  <2>1. f = [e EXCEPT !.score = e.score + Contribution(n + 1), !.chunk = hit.chunk,
                      !.best = n + 1]
    BY <1>4, <1>10 DEF AddHit, Entries
  <2>2. /\ f \in Entries /\ f.page = e.page /\ f.score = e.score + Contribution(n + 1)
        /\ f.chunk = hit.chunk /\ f.best = n + 1
    <3>1. e.score + Contribution(n + 1) \in Nat
      BY <1>3, <1>4
    <3> QED
      BY <1>1, <1>2, <1>4, <2>1, <3>1 DEF Entries
  <2> HIDE DEF f
  <2>3. IsBestRank(new, T)
    <3>1. ASSUME NEW y \in S PROVE n + 1 < y[2]
      <4>1. PICK x \in S : IsBestRank(x, S) /\ e.best = x[2]
        BY <1>9, <3>1 DEF ChunkOK
      <4>2. n + 1 < x[2]
        BY <1>7, <1>10, <4>1 DEF BestSoFar
      <4>3. x[2] <= y[2] /\ x[2] \in Nat /\ y[2] \in Nat
        BY <1>7, <3>1, <4>1 DEF IsBestRank
      <4> QED
        BY <1>1, <4>2, <4>3
    <3> QED
      BY <1>1, <1>6, <1>8, <1>10, <3>1 DEF IsBestRank
  <2>4. ChunkOK(ch, f, T)
    <3>1. new \in T
      BY <1>6, <1>10
    <3> QED
      BY <1>8, <2>2, <2>3, <3>1 DEF ChunkOK, hit
  <2> QED
    BY <1>5, <2>2, <2>4 DEF EntryOK, T, f, hit
<1>11. CASE ~ (hit.chunk # None /\ BestSoFar(e, n + 1))
  <2>1. f = [e EXCEPT !.score = e.score + Contribution(n + 1)]
    BY <1>11 DEF AddHit
  <2>2. /\ f \in Entries /\ f.page = e.page /\ f.score = e.score + Contribution(n + 1)
        /\ f.chunk = e.chunk /\ f.best = e.best
    BY <1>3, <1>4, <2>1 DEF Entries
  <2> HIDE DEF f
  <2>3. ChunkOK(ch, f, T)
    <3>1. CASE hit.chunk = None
      BY <1>6, <1>9, <2>2, <3>1 DEF ChunkOK
    <3>2. CASE hit.chunk # None
      <4>1. ~ BestSoFar(e, n + 1)
        BY <1>11, <3>2
      <4>2. PICK x \in S : /\ IsBestRank(x, S) /\ e.best = x[2]
                           /\ e.chunk = ch[x[1]][x[2]].chunk
        BY <1>9, <4>1 DEF ChunkOK, BestSoFar
      <4>3. x[2] <= n + 1 /\ x[1] <= c
        BY <1>1, <1>4, <1>7, <4>1, <4>2 DEF BestSoFar
      <4>4. IsBestRank(x, T)
        BY <1>1, <1>6, <1>7, <1>8, <3>2, <4>2, <4>3 DEF IsBestRank
      <4>5. x \in T
        BY <1>6
      <4> QED
        BY <2>2, <4>2, <4>4, <4>5 DEF ChunkOK
    <3> QED
      BY <3>1, <3>2
  <2> QED
    BY <1>5, <2>2, <2>3 DEF EntryOK, T, f, hit
<1> QED
  BY <1>10, <1>11

\* reciprocal_rank_fusion between two turns of its loops.
FuseShape(ch, w) ==
  /\ w \in [channel : 1..Len(ch) + 1, rank : Nat, accum : Seq(Entries)]
  /\ IF w.channel = Len(ch) + 1 THEN w.rank = 0 ELSE w.rank <= Len(ch[w.channel])
FuseEntries(ch, w) ==
  \A i \in 1..Len(w.accum) : EntryOK(ch, w.channel, w.rank, w.accum[i])
FuseDistinct(w) == \A i, j \in 1..Len(w.accum) : w.accum[i].page = w.accum[j].page => i = j

\* There is an entry exactly for the pages that a place met names, and to other
\* pages nothing was given.
FusePages(ch, w) ==
  \A p \in Pages :
    IF \E i \in 1..Len(w.accum) : w.accum[i].page = p
    THEN Naming(ch, w.channel, w.rank, p) # {}
    ELSE Naming(ch, w.channel, w.rank, p) = {} /\ ScoreAt(ch, w.channel, w.rank, p) = 0

FuseSoFar(ch, w) == /\ FuseShape(ch, w) /\ FuseEntries(ch, w)
                    /\ FuseDistinct(w) /\ FusePages(ch, w)

LEMMA NothingFused ==
  ASSUME NEW ch, ChannelsOK(ch)
  PROVE  FuseSoFar(ch, [channel |-> 1, rank |-> 0, accum |-> << >>])
<1> DEFINE w == [channel |-> 1, rank |-> 0, accum |-> << >>]
<1>1. /\ w.channel = 1 /\ w.rank = 0 /\ w.accum = << >> /\ Len(w.accum) = 0
      /\ w.accum \in Seq(Entries) /\ Len(ch) \in Nat
      /\ \A c \in 1..Len(ch) : Len(ch[c]) \in Nat
  BY EmptySeq, LenProperties DEF ChannelsOK
<1>2. w \in [channel : 1..Len(ch) + 1, rank : Nat, accum : Seq(Entries)]
  BY <1>1
<1> HIDE DEF w
<1>3. FuseShape(ch, w)
  BY <1>1, <1>2 DEF FuseShape
<1>4. ASSUME NEW p PROVE Naming(ch, 1, 0, p) = {} /\ ScoreAt(ch, 1, 0, p) = 0
  <2>1. Met(ch, 1, 0) = {}
    BY DEF Met
  <2>2. ScoreAt(ch, 1, 0, p) = Total(FirstN(Givens(ch, p), 0)) + 0
    BY EmptySum DEF ScoreAt
  <2> QED
    BY <2>1, <2>2, EmptySum DEF Naming
<1>5. FuseSoFar(ch, w)
  BY <1>1, <1>3, <1>4 DEF FuseSoFar, FuseEntries, FuseDistinct, FusePages
<1> QED
  BY <1>5 DEF w

LEMMA NextChannelFuses ==
  ASSUME NEW ch, ChannelsOK(ch), NEW w, FuseSoFar(ch, w), w.channel <= Len(ch),
         w.rank = Len(ch[w.channel])
  PROVE  FuseSoFar(ch, [w EXCEPT !.channel = @ + 1, !.rank = 0])
<1> DEFINE c == w.channel
           v == [w EXCEPT !.channel = @ + 1, !.rank = 0]
<1>1. /\ w \in [channel : 1..Len(ch) + 1, rank : Nat, accum : Seq(Entries)]
      /\ Len(ch) \in Nat /\ c \in 1..Len(ch) /\ c + 1 \in 1..Len(ch) + 1
      /\ \A i \in 1..Len(ch) : Len(ch[i]) \in Nat
  BY LenProperties DEF FuseSoFar, FuseShape, ChannelsOK
<1>2. v.channel = c + 1 /\ v.rank = 0 /\ v.accum = w.accum
  BY <1>1
<1>3. v \in [channel : 1..Len(ch) + 1, rank : Nat, accum : Seq(Entries)]
  BY <1>1
<1> HIDE DEF v
<1>4. FuseShape(ch, v)
  BY <1>1, <1>2, <1>3 DEF FuseShape
<1>5. \A p : ScoreAt(ch, c + 1, 0, p) = ScoreAt(ch, c, w.rank, p)
  BY <1>1, ScoreNext
<1>6. Met(ch, c + 1, 0) = Met(ch, c, w.rank)
  BY <1>1, MetNext
<1>7. \A p : /\ Naming(ch, c + 1, 0, p) = Naming(ch, c, w.rank, p)
             /\ Chunked(ch, c + 1, 0, p) = Chunked(ch, c, w.rank, p)
  BY <1>6 DEF Naming, Chunked
<1>8. FuseEntries(ch, v)
  BY <1>2, <1>5, <1>7 DEF FuseSoFar, FuseEntries, EntryOK
<1>9. FuseDistinct(v) /\ FusePages(ch, v)
  BY <1>2, <1>5, <1>7 DEF FuseSoFar, FuseDistinct, FusePages
<1>10. FuseSoFar(ch, v)
  BY <1>4, <1>8, <1>9 DEF FuseSoFar
<1> QED
  BY <1>10 DEF v

\* What the loop makes of an accumulator that has the page, entry by entry.
HasPage(accum, p) == \E i \in 1..Len(accum) : accum[i].page = p
AddsTo(accum, hit, rank) ==
  \A i \in 1..Len(accum) : accum[i].page = hit.page => AddHit(accum[i], hit, rank) \in Entries
IsAdded(next, accum, hit, rank) ==
  /\ next \in Seq(Entries) /\ Len(next) = Len(accum)
  /\ \A i \in 1..Len(accum) :
       next[i] = IF accum[i].page = hit.page THEN AddHit(accum[i], hit, rank) ELSE accum[i]

LEMMA AccumulateOld ==
  ASSUME NEW accum \in Seq(Entries), NEW hit, NEW rank, HasPage(accum, hit.page),
         AddsTo(accum, hit, rank)
  PROVE  IsAdded(Accumulate(accum, hit, rank), accum, hit, rank)
<1> DEFINE next == [i \in 1..Len(accum) |->
                      IF accum[i].page = hit.page THEN AddHit(accum[i], hit, rank)
                                                   ELSE accum[i]]
<1>1. Accumulate(accum, hit, rank) = next
  BY DEF Accumulate, HasPage
<1>2. Len(accum) \in Nat /\ \A i \in 1..Len(accum) : accum[i] \in Entries
  BY LenProperties
<1>3. next \in [1..Len(accum) -> Entries]
  BY <1>2 DEF AddsTo
<1>4. next \in Seq(Entries) /\ Len(next) = Len(accum)
  BY <1>2, <1>3
<1> QED
  BY <1>1, <1>4 DEF IsAdded

LEMMA HitFuses ==
  ASSUME NEW ch, ChannelsOK(ch), NEW w, FuseSoFar(ch, w), w.channel <= Len(ch),
         w.rank < Len(ch[w.channel])
  PROVE  FuseSoFar(ch, [w EXCEPT !.rank = w.rank + 1,
           !.accum = Accumulate(@, ch[w.channel][w.rank + 1], w.rank + 1)])
<1> DEFINE c == w.channel
           n == w.rank
           hit == ch[c][n + 1]
           next == Accumulate(w.accum, hit, n + 1)
           v == [w EXCEPT !.rank = n + 1, !.accum = next]
<1>1. /\ w \in [channel : 1..Len(ch) + 1, rank : Nat, accum : Seq(Entries)]
      /\ Len(ch) \in Nat /\ c \in 1..Len(ch) /\ n \in Nat
      /\ \A i \in 1..Len(ch) : ch[i] \in Seq(Hits) /\ Len(ch[i]) \in Nat
  BY LenProperties DEF FuseSoFar, FuseShape, ChannelsOK
<1>2. n \in 0..Len(ch[c]) - 1 /\ n + 1 \in 1..Len(ch[c]) /\ n + 1 \in Nat
  BY <1>1
<1>3. hit \in Hits /\ hit.page \in Pages
  <2>1. hit \in Hits
    BY <1>1, <1>2
  <2> QED
    BY <2>1 DEF Hits
<1>4. \A i \in 1..Len(w.accum) : EntryOK(ch, c, n, w.accum[i]) /\ w.accum[i] \in Entries
  BY DEF FuseSoFar, FuseEntries, EntryOK
<1>5. \A p : p # hit.page =>
        /\ ScoreAt(ch, c, n + 1, p) = ScoreAt(ch, c, n, p)
        /\ Naming(ch, c, n + 1, p) = Naming(ch, c, n, p)
        /\ Chunked(ch, c, n + 1, p) = Chunked(ch, c, n, p)
  BY <1>1, <1>2, OtherEntry
<1>6. Naming(ch, c, n + 1, hit.page) # {}
  BY <1>1, <1>2, MetNames
<1>7. \A e : EntryOK(ch, c, n, e) /\ e.page = hit.page =>
        EntryOK(ch, c, n + 1, AddHit(e, hit, n + 1)) /\ AddHit(e, hit, n + 1).page = e.page
  BY <1>1, <1>2, AddHitOK
<1>8. \A e : EntryOK(ch, c, n, e) /\ e.page # hit.page => EntryOK(ch, c, n + 1, e)
  BY <1>5 DEF EntryOK
<1> HIDE DEF hit
<1>9. ASSUME next \in Seq(Entries),
             \A i \in 1..Len(next) : EntryOK(ch, c, n + 1, next[i]),
             \A i, j \in 1..Len(next) : next[i].page = next[j].page => i = j,
             \A p \in Pages : (\E i \in 1..Len(next) : next[i].page = p) <=>
               p = hit.page \/ \E i \in 1..Len(w.accum) : w.accum[i].page = p
      PROVE  FuseSoFar(ch, v)
  <2>1. v.channel = c /\ v.rank = n + 1 /\ v.accum = next
    BY <1>1
  <2>2. v \in [channel : 1..Len(ch) + 1, rank : Nat, accum : Seq(Entries)]
    <3> HIDE DEF next
    <3> QED
      BY <1>1, <1>2, <1>9
  <2> HIDE DEF v, next
  <2>3. FuseShape(ch, v)
    BY <1>1, <1>2, <2>1, <2>2 DEF FuseShape
  <2>4. FuseEntries(ch, v) /\ FuseDistinct(v)
    BY <1>9, <2>1 DEF FuseEntries, FuseDistinct
  <2>5. FusePages(ch, v)
    <3> SUFFICES ASSUME NEW p \in Pages
                 PROVE  IF \E i \in 1..Len(next) : next[i].page = p
                        THEN Naming(ch, c, n + 1, p) # {}
                        ELSE Naming(ch, c, n + 1, p) = {} /\ ScoreAt(ch, c, n + 1, p) = 0
      BY <2>1 DEF FusePages
    <3>1. CASE p = hit.page
      BY <1>6, <1>9, <3>1
    <3>2. CASE p # hit.page
      BY <1>5, <1>9, <3>2 DEF FuseSoFar, FusePages
    <3> QED
      BY <3>1, <3>2
  <2> QED
    BY <2>3, <2>4, <2>5 DEF FuseSoFar
<1>10. CASE \E i \in 1..Len(w.accum) : w.accum[i].page = hit.page
  <2>1. AddsTo(w.accum, hit, n + 1) /\ HasPage(w.accum, hit.page)
    BY <1>4, <1>7, <1>10 DEF EntryOK, AddsTo, HasPage
  <2>2. /\ next \in Seq(Entries) /\ Len(next) = Len(w.accum)
        /\ \A i \in 1..Len(w.accum) :
             next[i] = IF w.accum[i].page = hit.page THEN AddHit(w.accum[i], hit, n + 1)
                                                      ELSE w.accum[i]
    <3>1. w.accum \in Seq(Entries)
      BY <1>1
    <3>2. IsAdded(next, w.accum, hit, n + 1)
      BY <2>1, <3>1, AccumulateOld, Zenon
    <3> QED
      BY <3>2, Zenon DEF IsAdded
  <2> HIDE DEF next
  <2>3. \A i \in 1..Len(next) : EntryOK(ch, c, n + 1, next[i]) /\ next[i].page = w.accum[i].page
    BY <1>4, <1>7, <1>8, <2>2
  <2>4. \A i, j \in 1..Len(next) : next[i].page = next[j].page => i = j
    BY <2>2, <2>3 DEF FuseSoFar, FuseDistinct
  <2>5. \A p \in Pages : (\E i \in 1..Len(next) : next[i].page = p) <=>
          p = hit.page \/ \E i \in 1..Len(w.accum) : w.accum[i].page = p
    BY <1>10, <2>2, <2>3
  <2>6. next \in Seq(Entries) /\ \A i \in 1..Len(next) : EntryOK(ch, c, n + 1, next[i])
    BY <2>2, <2>3
  <2>7. FuseSoFar(ch, v)
    BY <1>9, <2>4, <2>5, <2>6
  <2> QED
    BY <2>7 DEF v, next, hit
<1>11. CASE ~ \E i \in 1..Len(w.accum) : w.accum[i].page = hit.page
  <2> DEFINE e == NewEntry(hit.page)
             f == AddHit(e, hit, n + 1)
             L == Len(w.accum)
  <2>1. e.page = hit.page /\ EntryOK(ch, c, n, e)
    <3>1. /\ e \in Entries /\ e.page = hit.page /\ e.score = 0 /\ e.chunk = None
          /\ e.best = 0
      BY <1>3 DEF NewEntry, Entries
    <3>2. Naming(ch, c, n, hit.page) = {} /\ ScoreAt(ch, c, n, hit.page) = 0
      BY <1>3, <1>11 DEF FuseSoFar, FusePages
    <3>3. Chunked(ch, c, n, hit.page) = {}
      BY <3>2 DEF Chunked
    <3> HIDE DEF e
    <3> QED
      BY <3>1, <3>2, <3>3 DEF EntryOK, ChunkOK
  <2>2. EntryOK(ch, c, n + 1, f) /\ f.page = hit.page
    <3> HIDE DEF e
    <3> QED
      BY <1>7, <2>1
  <2>3. f \in Entries /\ next = Append(w.accum, f)
    BY <1>11, <2>2 DEF EntryOK, Accumulate
  <2> HIDE DEF f, e, next
  <2>4. /\ next \in Seq(Entries) /\ Len(next) = L + 1 /\ next[L + 1] = f /\ L \in Nat
        /\ \A i \in 1..L : next[i] = w.accum[i]
    BY <1>1, <2>3, AppendProperties, LenProperties
  <2>5. \A i \in 1..L + 1 : i \in 1..L \/ i = L + 1
    BY <2>4
  <2>6. L + 1 \in 1..L + 1 /\ \A i \in 1..L : i \in 1..L + 1
    BY <2>4
  <2>7. \A i \in 1..Len(next) : EntryOK(ch, c, n + 1, next[i])
    BY <1>4, <1>8, <1>11, <2>2, <2>4, <2>5
  <2>8. \A i, j \in 1..Len(next) : next[i].page = next[j].page => i = j
    BY <1>11, <2>2, <2>4, <2>5 DEF FuseSoFar, FuseDistinct
  <2>9. \A p \in Pages : (\E i \in 1..Len(next) : next[i].page = p) <=>
          p = hit.page \/ \E i \in 1..Len(w.accum) : w.accum[i].page = p
    BY <2>2, <2>4, <2>5, <2>6
  <2>10. FuseSoFar(ch, v)
    BY <1>9, <2>4, <2>7, <2>8, <2>9
  <2> QED
    BY <2>10 DEF v, next, hit
<1> QED
  BY <1>10, <1>11

\* There is one: an entry's place is the number of entries that go before it.
LEMMA OrderExists ==
  ASSUME NEW accum \in Seq(Entries)
  PROVE  StableOrders(accum) # {}
<1> DEFINE D == 1..Len(accum)
           Before(i, j) == \/ accum[i].score > accum[j].score
                           \/ accum[i].score = accum[j].score /\ i < j
           Ahead(i) == {j \in D : Before(j, i)}
           place == [i \in D |-> Cardinality(Ahead(i)) + 1]
<1>1. Len(accum) \in Nat /\ \A i \in D : accum[i].score \in Nat
  <2>1. \A i \in D : accum[i] \in Entries
    OBVIOUS
  <2>2. \A e \in Entries : e.score \in Nat
    BY DEF Entries
  <2> QED
    BY <2>1, <2>2, LenProperties
<1>2. \A i, j, k \in D : Before(i, j) /\ Before(j, k) => Before(i, k)
  BY <1>1
<1>3. \A i, j \in D : i # j => Before(i, j) \/ Before(j, i)
  BY <1>1
<1>4. \A i \in D : ~ Before(i, i)
  BY <1>1
<1>5. IsFiniteSet(D) /\ Cardinality(D) = Len(accum)
  <2>1. ASSUME NEW n \in Nat
        PROVE  IsFiniteSet(1..n) /\ Cardinality(1..n) = n
    BY FS_Interval
  <2> QED
    BY <1>1, <2>1
<1> HIDE DEF Before
<1>6. \A i \in D : /\ IsFiniteSet(Ahead(i)) /\ Cardinality(Ahead(i)) \in Nat
                   /\ Cardinality(Ahead(i)) <= Len(accum) - 1
  <2> SUFFICES ASSUME NEW i \in D
      PROVE /\ IsFiniteSet(Ahead(i)) /\ Cardinality(Ahead(i)) \in Nat
            /\ Cardinality(Ahead(i)) <= Len(accum) - 1
    OBVIOUS
  <2>1. Ahead(i) \in SUBSET D /\ Ahead(i) # D
    BY <1>4
  <2>2. /\ IsFiniteSet(Ahead(i)) /\ Cardinality(Ahead(i)) <= Cardinality(D)
        /\ Cardinality(Ahead(i)) # Cardinality(D)
    BY <1>5, <2>1, FS_Subset
  <2>3. Cardinality(Ahead(i)) \in Nat
    BY <2>2, FS_CardinalityType
  <2> QED
    BY <1>1, <1>5, <2>2, <2>3
<1>7. \A i, j \in D : Before(i, j) => Cardinality(Ahead(i)) < Cardinality(Ahead(j))
  <2> SUFFICES ASSUME NEW i \in D, NEW j \in D, Before(i, j)
      PROVE Cardinality(Ahead(i)) < Cardinality(Ahead(j))
    OBVIOUS
  <2>1. Ahead(i) \in SUBSET Ahead(j)
    BY <1>2
  <2>2. i \in Ahead(j) /\ i \notin Ahead(i)
    BY <1>4
  <2>3. /\ Cardinality(Ahead(i)) <= Cardinality(Ahead(j))
        /\ Cardinality(Ahead(i)) # Cardinality(Ahead(j))
    BY <1>6, <2>1, <2>2, FS_Subset
  <2>4. Cardinality(Ahead(i)) \in Nat /\ Cardinality(Ahead(j)) \in Nat
    BY <1>6
  <2> QED
    BY <2>3, <2>4
<1> HIDE DEF Ahead
<1>8. place \in [D -> D] /\ \A i \in D : place[i] = Cardinality(Ahead(i)) + 1
  BY <1>1, <1>6
<1>9. \A i, j \in D : Before(i, j) => place[i] < place[j]
  BY <1>6, <1>7, <1>8
<1> HIDE DEF place
<1>10. place \in Surjection(D, D)
  <2>1. \A i, j \in D : i # j => place[i] # place[j]
    <3> SUFFICES ASSUME NEW i \in D, NEW j \in D, i # j PROVE place[i] # place[j]
      OBVIOUS
    <3>1. place[i] < place[j] \/ place[j] < place[i]
      BY <1>3, <1>9
    <3>2. place[i] \in Nat /\ place[j] \in Nat
      BY <1>8
    <3> QED
      BY <3>1, <3>2
  <2>2. place \in Injection(D, D)
    BY <1>8, <2>1 DEF Injection, IsInjective
  <2> QED
    BY <1>5, <2>2, FS_Injection
<1>11. \A n \in D : \E i \in D : place[i] = n
  BY <1>10 DEF Surjection
<1> DEFINE o == [n \in D |-> CHOOSE i \in D : place[i] = n]
<1>12. o \in [D -> D] /\ \A n \in D : place[o[n]] = n
  BY <1>11
<1> HIDE DEF o
<1>13. \A i, j \in D : i < j => Before(o[i], o[j])
  <2> SUFFICES ASSUME NEW i \in D, NEW j \in D, i < j PROVE Before(o[i], o[j])
    OBVIOUS
  <2>1. o[i] \in D /\ o[j] \in D /\ o[i] # o[j]
    BY <1>12
  <2>2. ~ Before(o[j], o[i])
    <3>1. ~ (j < i)
      OBVIOUS
    <3> QED
      BY <1>9, <1>12, <2>1, <3>1
  <2> QED
    BY <1>3, <2>1, <2>2
<1>14. o \in StableOrders(accum)
  BY <1>12, <1>13 DEF StableOrders, Before
<1> QED
  BY <1>14

\* A stable sort leaves out no entry and repeats none.
LEMMA OrdersPermute ==
  ASSUME NEW accum \in Seq(Entries), NEW o \in StableOrders(accum)
  PROVE  /\ o \in [1..Len(accum) -> 1..Len(accum)]
         /\ \A i, j \in 1..Len(accum) : i # j => o[i] # o[j]
         /\ \A m \in 1..Len(accum) : \E i \in 1..Len(accum) : o[i] = m
<1> DEFINE D == 1..Len(accum)
<1>1. /\ o \in [D -> D] /\ Len(accum) \in Nat
      /\ \A i \in D : accum[i].score \in Nat
  <2>1. \A i \in D : accum[i] \in Entries
    OBVIOUS
  <2>2. \A e \in Entries : e.score \in Nat
    BY DEF Entries
  <2> QED
    BY <2>1, <2>2, LenProperties DEF StableOrders
<1>2. \A i \in D : o[i] \in D
  BY <1>1
<1>3. \A i, j \in D : i < j => o[i] # o[j]
  <2> SUFFICES ASSUME NEW i \in D, NEW j \in D, i < j, o[i] = o[j] PROVE FALSE
    OBVIOUS
  <2>1. \/ accum[o[i]].score > accum[o[j]].score
        \/ accum[o[i]].score = accum[o[j]].score /\ o[i] < o[j]
    BY DEF StableOrders
  <2> QED
    BY <1>1, <1>2, <2>1
<1>4. \A i, j \in D : i # j => o[i] # o[j]
  <2>1. \A i, j \in D : i # j => i < j \/ j < i
    OBVIOUS
  <2> QED
    BY <1>3, <2>1
<1>5. o \in Injection(D, D) /\ IsFiniteSet(D)
  <2>1. IsFiniteSet(D)
    BY <1>1, FS_Interval
  <2>2. DOMAIN o = D
    BY <1>1
  <2> HIDE DEF D
  <2>3. IsInjective(o)
    BY <1>4, <2>2 DEF IsInjective
  <2> QED
    BY <1>1, <2>1, <2>3 DEF Injection
<1>6. o \in Surjection(D, D)
  <2> HIDE DEF D
  <2> QED
    BY <1>5, FS_Injection
<1> QED
  BY <1>1, <1>4, <1>6 DEF Surjection

\* What hits[:n] is.
LEMMA FirstOfIsPrefix ==
  ASSUME NEW S, NEW hits \in Seq(S), NEW n \in Nat, NEW t, t = FirstOf(hits, n)
  PROVE  /\ t \in Seq(S) /\ Len(t) <= n /\ Len(t) \in Nat
         /\ Len(t) <= Len(hits) /\ (Len(t) < n => Len(t) = Len(hits))
         /\ \A i \in 1..Len(t) : i \in 1..Len(hits) /\ t[i] = hits[i]
<1> DEFINE m == IF Len(hits) < n THEN Len(hits) ELSE n
<1>1. Len(hits) \in Nat
  BY LenProperties
<1>2. m \in Nat /\ m <= Len(hits) /\ m <= n /\ (m < n => m = Len(hits))
  BY <1>1
<1>3. t = SubSeq(hits, 1, m)
  BY DEF FirstOf
<1> HIDE DEF m
<1>4. \A i \in 1..m : i \in 1..Len(hits) /\ hits[i] \in S
  BY <1>1, <1>2
<1>5. /\ SubSeq(hits, 1, m) \in Seq(S)
      /\ Len(SubSeq(hits, 1, m)) = IF 1 <= m THEN m - 1 + 1 ELSE 0
      /\ \A i \in 1..m - 1 + 1 : SubSeq(hits, 1, m)[i] = hits[1 + i - 1]
  BY <1>2, <1>4, SubSeqProperties
<1>6. Len(t) = m
  BY <1>2, <1>3, <1>5
<1>7. \A i \in 1..m : i \in 1..m - 1 + 1 /\ 1 + i - 1 = i
  BY <1>2
<1>8. \A i \in 1..m : t[i] = hits[i]
  BY <1>3, <1>5, <1>7
<1> QED
  BY <1>2, <1>3, <1>4, <1>5, <1>6, <1>8

LEMMA CutIsPrefix ==
  ASSUME NEW S, NEW hits \in Seq(S)
  PROVE  /\ Cut(hits) \in Seq(S) /\ Len(Cut(hits)) <= TopK /\ Len(Cut(hits)) \in Nat
         /\ Len(Cut(hits)) <= Len(hits) /\ (Len(Cut(hits)) < TopK => Len(Cut(hits)) = Len(hits))
         /\ \A i \in 1..Len(Cut(hits)) : i \in 1..Len(hits) /\ Cut(hits)[i] = hits[i]
<1>1. TopK \in Nat
  BY QueriesAssumption
<1> QED
  BY <1>1, FirstOfIsPrefix DEF Cut

\* When all places are met, the accumulator says what the definitions say.
LEMMA AllMet ==
  ASSUME ChannelsOK(Channels), FuseSoFar(Channels, fusion), fusion.channel > Len(Channels)
  PROVE  /\ \A i \in 1..Len(fusion.accum) :
              /\ fusion.accum[i].score = ScoreOf(fusion.accum[i].page)
              /\ ChunkOK(Channels, fusion.accum[i], {x \in RanksOf(fusion.accum[i].page) :
                                                       ChunkAt(x) # None})
         /\ \A p \in Pages : RanksOf(p) # {} => HasPage(fusion.accum, p)
<1> DEFINE ch == Channels
           N == Len(ch)
<1>1. fusion.channel = N + 1 /\ fusion.rank = 0 /\ N \in Nat
  BY LenProperties DEF FuseSoFar, FuseShape, ChannelsOK
<1>2. ASSUME NEW p PROVE ScoreAt(ch, N + 1, 0, p) = ScoreOf(p)
  <2>1. ScoreOf(p) = Total(Givens(ch, p))
    BY DEF ScoreOf, Givens
  <2>2. Givens(ch, p) \in Seq(Nat) /\ Len(Givens(ch, p)) = N /\ (N + 1) - 1 = N
    BY <1>1, GivensType
  <2>3. FirstN(Givens(ch, p), N) = Givens(ch, p)
    BY <1>1, <2>2, FirstNSeq
  <2>4. Total(Givens(ch, p)) \in Nat
    BY <2>2, TotalType
  <2>5. ScoreAt(ch, N + 1, 0, p) = Total(Givens(ch, p)) + 0
    BY <2>2, <2>3, EmptySum DEF ScoreAt
  <2> QED
    BY <2>1, <2>4, <2>5
<1>3. \A x \in (1..N) \X (1..MaxRank) : x[1] < N + 1
  BY <1>1
<1>4. \A p : Naming(ch, N + 1, 0, p) = RanksOf(p)
  BY <1>3 DEF Naming, Met, RanksOf
<1>5. \A p : Chunked(ch, N + 1, 0, p) = {x \in RanksOf(p) : ChunkAt(x) # None}
  BY <1>4 DEF Chunked, ChunkAt
<1>6. ASSUME NEW i \in 1..Len(fusion.accum)
      PROVE  /\ fusion.accum[i].score = ScoreOf(fusion.accum[i].page)
             /\ ChunkOK(Channels, fusion.accum[i], {x \in RanksOf(fusion.accum[i].page) :
                                                       ChunkAt(x) # None})
  <2>1. EntryOK(ch, N + 1, 0, fusion.accum[i])
    BY <1>1 DEF FuseSoFar, FuseEntries
  <2> QED
    BY <1>2, <1>5, <2>1 DEF EntryOK
<1>7. \A p \in Pages : RanksOf(p) # {} => HasPage(fusion.accum, p)
  BY <1>1, <1>4 DEF FuseSoFar, FusePages, HasPage
<1> QED
  BY <1>6, <1>7

\* The result of dispatch is one that FusedLists allows.
IsResult == \E fused \in FusedLists :
              result = [vector |-> Cut(VectorHits), lexical |-> Cut(LexicalHits),
                        topology |-> Cut(TopologyHits), fused |-> Cut(fused)]

LEMMA ResultIsRRF ==
  ASSUME ChannelsOK(Channels), FuseSoFar(Channels, fusion), IsResult, Len(Channels) > 1,
         fusion.channel > Len(Channels)
  PROVE  FusedIsRRF /\ Representative
<1> DEFINE accum == fusion.accum
           D == 1..Len(accum)
<1>1. accum \in Seq(Entries) /\ Len(accum) \in Nat /\ Len(Channels) \in Nat
  BY LenProperties DEF FuseSoFar, FuseShape, ChannelsOK
<1>2. PICK o \in StableOrders(accum) : result.fused = Cut([n \in D |-> accum[o[n]]])
  <2>1. FusedLists = {[n \in D |-> accum[o[n]]] : o \in StableOrders(accum)}
    <3>1. \A n \in Nat : n > 1 => n # 0 /\ n # 1
      OBVIOUS
    <3>2. Len(Channels) # 0 /\ Len(Channels) # 1
      BY <1>1, <3>1, Zenon
    <3> QED
      BY <3>2, Zenon DEF FusedLists
  <2>2. PICK g \in FusedLists : result.fused = Cut(g)
    BY DEF IsResult
  <2> QED
    BY <2>1, <2>2, Zenon
<1>3. /\ o \in [D -> D] /\ \A i, j \in D : i # j => o[i] # o[j]
      /\ \A m \in D : \E i \in D : o[i] = m
  BY <1>1, OrdersPermute
<1> DEFINE fused == [n \in D |-> accum[o[n]]]
           f == result.fused
<1>20. \A m \in D : accum[m] \in Entries
  BY <1>1
<1>4. /\ fused \in Seq(Entries) /\ Len(fused) = Len(accum)
      /\ \A n \in D : fused[n] = accum[o[n]] /\ o[n] \in D
  <2>0. \A n \in D : o[n] \in D
    BY <1>3
  <2>1. \A n \in D : o[n] \in D /\ accum[o[n]] \in Entries
    BY <1>20, <2>0
  <2>2. fused \in [D -> Entries]
    BY <2>1
  <2> QED
    BY <1>1, <2>1, <2>2
<1> HIDE DEF fused, f
<1>5. f = Cut(fused)
  BY <1>2 DEF f, fused
<1>6. /\ f \in Seq(Entries) /\ Len(f) <= TopK /\ Len(f) \in Nat
      /\ Len(f) <= Len(accum) /\ (Len(f) < TopK => Len(f) = Len(accum))
      /\ \A i \in 1..Len(f) : i \in D /\ f[i] = fused[i]
  BY <1>4, <1>5, CutIsPrefix
<1>7. \A i \in 1..Len(f) : i \in D /\ o[i] \in D /\ f[i] = accum[o[i]]
  BY <1>4, <1>6
<1>8. \A m \in D : accum[m].score \in Nat /\ accum[m].page \in Pages
  <2>1. \A e \in Entries : e.score \in Nat /\ e.page \in Pages
    BY DEF Entries
  <2> QED
    BY <1>20, <2>1
<1>9. \A i, j \in D : i < j => accum[o[i]].score >= accum[o[j]].score
  <2>1. \A i, j \in D : i < j => \/ accum[o[i]].score > accum[o[j]].score
                                 \/ accum[o[i]].score = accum[o[j]].score
    BY DEF StableOrders
  <2>2. \A i \in D : accum[o[i]].score \in Nat
    BY <1>4, <1>8
  <2>3. \A a, b \in Nat : a > b \/ a = b => a >= b
    OBVIOUS
  <2> QED
    BY <2>1, <2>2, <2>3
<1>10. /\ \A m \in D : /\ accum[m].score = ScoreOf(accum[m].page)
                       /\ ChunkOK(Channels, accum[m], {x \in RanksOf(accum[m].page) :
                                                         ChunkAt(x) # None})
       /\ \A p \in Pages : RanksOf(p) # {} => HasPage(accum, p)
  BY AllMet
<1>11. \A m, n \in D : accum[m].page = accum[n].page => m = n
  BY DEF FuseSoFar, FuseDistinct
<1> HIDE DEF accum
<1>12. \A i \in 1..Len(f) : f[i].score = ScoreOf(f[i].page)
  BY <1>7, <1>10
<1>13. ASSUME NEW i \in 1..Len(f), NEW j \in 1..Len(f), i < j
       PROVE  f[i].page # f[j].page /\ f[i].score >= f[j].score
  <2>1. i # j /\ i \in D /\ j \in D
    BY <1>7, <1>13
  <2>2. o[i] # o[j]
    BY <1>3, <2>1
  <2> QED
    <3>1. accum[o[i]].page # accum[o[j]].page
      BY <1>7, <1>11, <2>2
    <3>2. accum[o[i]].score >= accum[o[j]].score
      BY <1>9, <1>13, <2>1
    <3> QED
      BY <1>7, <3>1, <3>2
<1>14. ASSUME NEW p \in Pages, \A i \in 1..Len(f) : f[i].page # p, RanksOf(p) # {}
       PROVE  Len(f) = TopK /\ \A i \in 1..Len(f) : ScoreOf(p) <= f[i].score
  <2>1. PICK m \in D : accum[m].page = p
    BY <1>10, <1>14 DEF HasPage
  <2>2. PICK n \in D : o[n] = m
    BY <1>3
  <2>3. n \notin 1..Len(f)
    BY <1>7, <1>14, <2>1, <2>2
  <2>4. n > Len(f) /\ n \in Nat /\ n <= Len(accum)
    BY <1>1, <1>6, <2>3
  <2>5. Len(f) = TopK
    BY <1>1, <1>6, <2>4, QueriesAssumption
  <2>6. ASSUME NEW i \in 1..Len(f) PROVE ScoreOf(p) <= f[i].score
    <3>1. i < n /\ i \in D
      BY <1>6, <1>7, <2>4
    <3>2. accum[o[i]].score >= accum[m].score
      BY <1>9, <2>2, <3>1
    <3>3. f[i].score = accum[o[i]].score /\ ScoreOf(p) = accum[m].score
      BY <1>7, <1>10, <2>1
    <3> QED
      BY <1>7, <1>8, <3>2, <3>3
  <2> QED
    BY <2>5, <2>6
<1>15. FusedIsRRF
  BY <1>12, <1>13, <1>14 DEF FusedIsRRF, f
<1>16. Representative
  <2> SUFFICES ASSUME NEW i \in 1..Len(f)
      PROVE LET S == {x \in RanksOf(f[i].page) : ChunkAt(x) # None}
            IN IF S = {} THEN f[i].chunk = None
                         ELSE \E x \in S : IsBestRank(x, S) /\ f[i].chunk = ChunkAt(x)
    BY DEF Representative, f
  <2>1. ChunkOK(Channels, f[i], {x \in RanksOf(f[i].page) : ChunkAt(x) # None})
    BY <1>7, <1>10
  <2> QED
    BY <2>1 DEF ChunkOK, ChunkAt
<1> QED
  BY <1>15, <1>16

\* What a channel may answer.
Rankings == {r \in Seq(Hits) : Len(r) <= MaxRank}

\* The channels do: the lexical one has at most the hits of its input, the
\* topological one each page once.
LEMMA HitsAreOK ==
  ASSUME IsQuery(query), near.found \in Seq(Pages), IsInjective(near.found)
  PROVE  {VectorHits, LexicalHits, TopologyHits} \subseteq Rankings
<1> DEFINE s == near.found
           R == Rankings
<1>1. MaxRank \in Nat /\ Cardinality(Pages) \in Nat /\ Cardinality(Pages) <= MaxRank
  BY QueriesAssumption, PagesAssumption, FS_CardinalityType
<1>2. VectorHits \in R
  BY DEF IsQuery, VectorHits, Rankings
<1>3. LexicalHits \in R
  <2>1. query.lexical \in Seq(Hits) /\ Len(query.lexical) <= MaxRank
    BY DEF IsQuery
  <2> DEFINE I == {i \in 1..Len(query.lexical) :
                     \A j \in 1..i - 1 : query.lexical[j].page # query.lexical[i].page}
             first == FirstOfPage(query.lexical)
  <2>2. first = Kept(query.lexical, I)
    BY DEF FirstOfPage
  <2> HIDE DEF I, first
  <2>3. first \in Seq(Hits)
    BY <2>1, <2>2, KeptIsKept
  <2>4. \E h : KeptBy(h, first, query.lexical, I, Len(query.lexical))
    BY <2>1, <2>2, KeptIsKept
  <2>5. Len(first) <= Len(query.lexical)
    BY <2>4 DEF KeptBy
  <2>6. LexicalHits = FirstOf(first, 2 * TopK) /\ 2 * TopK \in Nat
    BY QueriesAssumption DEF LexicalHits, first
  <2>7. LexicalHits \in Seq(Hits) /\ Len(LexicalHits) <= Len(first)
    BY <2>3, <2>6, FirstOfIsPrefix
  <2>8. Len(LexicalHits) \in Nat /\ Len(first) \in Nat /\ Len(query.lexical) \in Nat
    BY <2>1, <2>3, <2>7, LenProperties
  <2> QED
    BY <1>1, <2>1, <2>5, <2>7, <2>8 DEF Rankings
<1>4. TopologyHits \in R
  <2>1. CASE s = << >>
    <3>1. TopologyHits = << >>
      BY <2>1 DEF TopologyHits
    <3> QED
      BY <1>1, <3>1, EmptySeq DEF Rankings
  <2>2. CASE s # << >>
    <3>1. Len(s) \in Nat /\ Len(s) > 0 /\ DOMAIN s = 1..Len(s) /\ s \in [1..Len(s) -> Pages]
      BY <2>2, LenProperties, EmptySeq
    <3>2. \A i \in 1..Len(s) - 1 : i + 1 \in 1..Len(s) /\ s[i + 1] \in Pages
      BY <3>1
    <3>3. TopologyHits = [i \in 1..Len(s) - 1 |-> [page |-> s[i + 1], chunk |-> None]]
      BY <2>2 DEF TopologyHits
    <3>4. \A q \in Pages : [page |-> q, chunk |-> None] \in Hits
      BY DEF Hits
    <3>5. TopologyHits \in [1..Len(s) - 1 -> Hits]
      BY <3>2, <3>3, <3>4
    <3>6. TopologyHits \in Seq(Hits) /\ Len(TopologyHits) = Len(s) - 1
      BY <3>1, <3>5
    <3>7. s \in Injection(1..Len(s), Pages)
      BY <3>1 DEF Injection
    <3>8. Cardinality(1..Len(s)) <= Cardinality(Pages) /\ Cardinality(1..Len(s)) = Len(s)
      BY <3>1, <3>7, PagesAssumption, FS_Injection, FS_Interval
    <3> QED
      BY <1>1, <3>1, <3>6, <3>8 DEF Rankings
  <2> QED
    BY <2>1, <2>2
<1> QED
  BY <1>2, <1>3, <1>4

LEMMA ChannelsAreOK ==
  ASSUME IsQuery(query), near.found \in Seq(Pages), IsInjective(near.found)
  PROVE  ChannelsOK(Channels)
<1> DEFINE R == Rankings
           all == <<VectorHits, LexicalHits, TopologyHits>>
<1>5. all \in Seq(R)
  BY HitsAreOK
<1> DEFINE J == {i \in 1..3 : all[i] # << >>}
<1>6. Channels = Kept(all, J)
  BY DEF Channels
<1> HIDE DEF J, all
<1>7. Channels \in Seq(R)
  BY <1>5, <1>6, KeptIsKept
<1>8. \A c \in 1..Len(Channels) : Channels[c] \in R
  BY <1>7
<1>9. Channels \in Seq(Seq(Hits))
  <2>1. R \subseteq Seq(Hits)
    BY DEF Rankings
  <2> QED
    BY <1>7, <2>1
<1> QED
  BY <1>8, <1>9 DEF ChannelsOK, Rankings

ChannelsInv == pc = "fusion" \/ Returned => ChannelsOK(Channels)

LEMMA NearTyped ==
  ASSUME QueryInv, WalkInv
  PROVE  /\ near.round \in 0..Depth /\ near.frontier \subseteq Pages
         /\ near.found \in Seq(Pages) /\ IsInjective(near.found)
<1>1. CASE Reached(Anchor, near)
  <2>1. Lists(near.found, Within(Anchor, near.round))
    BY <1>1 DEF Reached
  <2>2. Within(Anchor, near.round) \subseteq Pages
    BY DEF Within
  <2>3. near.found \in Seq(Pages) /\ IsInjective(near.found)
    BY <2>1, <2>2 DEF Lists
  <2> QED
    BY <1>1, <2>3 DEF Reached
<1>2. CASE near = [round |-> 0, frontier |-> {}, found |-> << >>]
  <2>1. << >> \in Seq(Pages) /\ IsInjective(<< >>)
    BY EmptySeq DEF IsInjective
  <2>2. 0 \in 0..Depth
    BY WalkAssumption
  <2> QED
    BY <1>2, <2>1, <2>2
<1> QED
  BY <1>1, <1>2 DEF WalkInv

LEMMA ChannelsTyped == QueryInv /\ WalkInv => ChannelsInv
BY NearTyped, ChannelsAreOK DEF ChannelsInv, QueryInv

\* What has been fused, in each part of dispatch.
FusionInv ==
  /\ pc # "fusion" /\ ~ Returned =>
       fusion = [channel |-> 1, rank |-> 0, accum |-> << >>]
  /\ pc = "fusion" \/ Returned => FuseSoFar(Channels, fusion)
  /\ result # None => IsResult /\ (Len(Channels) > 1 => fusion.channel > Len(Channels))

LEMMA InitFusion == Init => FusionInv
BY DEF Init, FusionInv, Returned

LEMMA SameChannels ==
  ASSUME UNCHANGED <<query, near>>
  PROVE  /\ Channels' = Channels /\ VectorHits' = VectorHits
         /\ LexicalHits' = LexicalHits /\ TopologyHits' = TopologyHits
<1>1. /\ VectorHits' = VectorHits /\ LexicalHits' = LexicalHits
      /\ TopologyHits' = TopologyHits
  BY DEF VectorHits, LexicalHits, TopologyHits
<1> QED
  BY <1>1, Zenon DEF Channels

LEMMA SameLists ==
  ASSUME UNCHANGED <<query, near, fusion>>
  PROVE  FusedLists' = FusedLists
<1>1. Channels' = Channels
  BY SameChannels
<1>2. fusion' = fusion
  OBVIOUS
<1> QED
  BY <1>1, <1>2 DEF FusedLists, Only, Contribution, StableOrders

LEMMA NextFusion == WalkInv /\ ChannelsInv /\ ChannelsInv' /\ FusionInv /\ [Next]_vars => FusionInv'
<1> SUFFICES ASSUME WalkInv, ChannelsInv, ChannelsInv', FusionInv, [Next]_vars PROVE FusionInv'
  OBVIOUS
<1>1. ASSUME UNCHANGED <<query, near, fusion, result>>, result = None,
             \/ pc = "idle" /\ pc' \in {"multi_hop", "assemble"} /\ query.call = pc'
             \/ pc \in {"multi_hop", "assemble"} /\ pc' = "answered" /\ query.call # "dispatch"
      PROVE  FusionInv'
  BY <1>1 DEF FusionInv, Returned
<1>2. ASSUME UNCHANGED <<query, near, fusion, result, pc>> PROVE FusionInv'
  <2>1. FusedLists' = FusedLists
    BY <1>2, SameChannels, SameLists
  <2>2. IsResult' <=> IsResult
    BY <1>2, <2>1, SameChannels, Zenon DEF IsResult
  <2> QED
    BY <1>2, <2>2, SameChannels DEF FusionInv, Returned
<1>3. ASSUME UNCHANGED <<query, near, fusion, result>>, result = None,
             pc \in {"idle", "topology"}, pc' = "fusion"
      PROVE  FusionInv'
  <2>1. Channels' = Channels /\ ChannelsOK(Channels)
    BY <1>3, SameChannels DEF ChannelsInv
  <2>2. FuseSoFar(Channels, fusion)
    BY <1>3, <2>1, NothingFused DEF FusionInv, Returned
  <2> QED
    BY <1>3, <2>1, <2>2 DEF FusionInv, Returned
<1>4. CASE Reindex \/ Trace
  BY <1>2, <1>4 DEF Reindex, Trace
<1>5. CASE Dispatch
  <2>1. pc = "idle" /\ result = None /\ UNCHANGED <<query, fusion, result>>
    BY <1>5 DEF Dispatch, WalkInv, Returned
  <2>2. CASE pc' = "topology"
    BY <2>1, <2>2 DEF FusionInv, Returned
  <2>3. CASE pc' = "fusion" /\ near' = near
    BY <1>3, <2>1, <2>3
  <2> QED
    BY <1>5, <2>2, <2>3 DEF Dispatch
<1>6. CASE Round
  <2>1. pc = "topology" /\ result = None /\ UNCHANGED <<query, fusion, result, pc>>
    BY <1>6 DEF Round, WalkInv, Returned
  <2> QED
    BY <2>1 DEF FusionInv, Returned
<1>7. CASE Near
  BY <1>3, <1>7 DEF Near, WalkInv, Returned
<1>8. CASE FuseHit
  <2>1. /\ pc = "fusion" /\ UNCHANGED <<query, near, pc, result>> /\ result = None
        /\ fusion.channel <= Len(Channels) /\ fusion.rank < Len(Channels[fusion.channel])
        /\ fusion' = [fusion EXCEPT !.rank = fusion.rank + 1,
             !.accum = Accumulate(@, Channels[fusion.channel][fusion.rank + 1],
                                  fusion.rank + 1)]
    BY <1>8 DEF FuseHit, WalkInv, Returned
  <2>2. FuseSoFar(Channels, fusion')
    BY <2>1, HitFuses DEF FusionInv, ChannelsInv
  <2> QED
    BY <2>1, <2>2, SameChannels DEF FusionInv, Returned
<1>9. CASE NextRanking
  <2>1. /\ pc = "fusion" /\ UNCHANGED <<query, near, pc, result>> /\ result = None
        /\ fusion.channel <= Len(Channels) /\ fusion.rank = Len(Channels[fusion.channel])
        /\ fusion' = [fusion EXCEPT !.channel = @ + 1, !.rank = 0]
    BY <1>9 DEF NextRanking, WalkInv, Returned
  <2>2. FuseSoFar(Channels, fusion')
    BY <2>1, NextChannelFuses DEF FusionInv, ChannelsInv
  <2> QED
    BY <2>1, <2>2, SameChannels DEF FusionInv, Returned
<1>10. CASE Fused
  <2>1. /\ pc = "fusion" /\ UNCHANGED <<query, near, fusion>>
        /\ Len(Channels) > 1 => fusion.channel > Len(Channels)
    BY <1>10 DEF Fused
  <2>2. PICK fused \in FusedLists :
          result' = [vector |-> Cut(VectorHits), lexical |-> Cut(LexicalHits),
                     topology |-> Cut(TopologyHits), fused |-> Cut(fused)]
    BY <1>10 DEF Fused
  <2>3. FusedLists' = FusedLists
    BY <2>1, SameLists
  <2>4. IsResult'
    BY <2>1, <2>2, <2>3, SameChannels, Zenon DEF IsResult
  <2>5. pc' = "answered"
    BY <1>10 DEF Fused
  <2>6. FuseSoFar(Channels, fusion)' /\ (Len(Channels) > 1 => fusion.channel > Len(Channels))'
    BY <2>1, SameChannels DEF FusionInv
  <2>7. result' # None => IsResult' /\ (Len(Channels) > 1 => fusion.channel > Len(Channels))'
    BY <2>4, <2>6
  <2>8. Returned'
    BY <1>10, <2>1, <2>5 DEF WalkInv, Returned
  <2> QED
    BY <2>6, <2>7, <2>8 DEF FusionInv
<1>11. CASE StartHops \/ EndHops \/ StartCiting \/ EndCiting
  <2>1. /\ result = None
        /\ \/ pc = "idle" /\ pc' \in {"multi_hop", "assemble"} /\ query.call = pc'
           \/ pc \in {"multi_hop", "assemble"} /\ pc' = "answered" /\ query.call # "dispatch"
    BY <1>11 DEF StartHops, EndHops, StartCiting, EndCiting, WalkInv, Returned
  <2> QED
    BY <1>1, <1>11, <2>1 DEF StartHops, EndHops, StartCiting, EndCiting, Hop, Cite
<1>12. CASE HopOn \/ CiteOn \/ Answered \/ UNCHANGED vars
  BY <1>2, <1>12 DEF HopOn, CiteOn, Hop, Cite, Answered, vars
<1> QED
  BY <1>4, <1>5, <1>6, <1>7, <1>8, <1>9, <1>10, <1>11, <1>12 DEF Next

LEMMA FusionInvariance == Spec => [](QueryInv /\ WalkInv /\ FusionInv)
<1>1. QueryInv /\ WalkInv => ChannelsInv
  BY ChannelsTyped
<1> QED
  BY <1>1, InitFusion, NextFusion, Invariance, WalkInvariance, PTL DEF Spec

LEMMA FusedResult ==
  ASSUME QueryInv, WalkInv, FusionInv, result # None, Len(Channels) > 1
  PROVE  FusedIsRRF /\ Representative
<1>1. Returned
  BY DEF WalkInv
<1>2. ChannelsOK(Channels)
  BY <1>1, ChannelsTyped DEF ChannelsInv
<1>3. FuseSoFar(Channels, fusion) /\ IsResult /\ fusion.channel > Len(Channels)
  BY <1>1 DEF FusionInv
<1> QED
  BY <1>2, <1>3, ResultIsRRF

\* Whatever the channels return, the hits that dispatch fuses are those of
\* the formula: a page once, with the sum of its contributions, best first, and
\* none left out that scores more than one that is in.
THEOREM FusionIsRRF == Spec => []FusedIsRRF
<1>1. QueryInv /\ WalkInv /\ FusionInv => FusedIsRRF
  BY FusedResult DEF FusedIsRRF
<1> QED
  BY <1>1, FusionInvariance, PTL

\* The chunk shown for a page is the one that its best rank names, of the
\* earlier channel on a tie.
THEOREM RepresentativeIsBest == Spec => []Representative
<1>1. QueryInv /\ WalkInv /\ FusionInv => Representative
  BY FusedResult DEF Representative
<1> QED
  BY <1>1, FusionInvariance, PTL
-----------------------------------------------------------------------------
(* multi_hop *)

\* What multi_hop has walked, and what it returns.
HopsInv ==
  /\ bfs # None => /\ pc \in {"multi_hop", "answered"}
                   /\ WalkSoFar(Seeds(query.vector), bfs)
  /\ hops # None => /\ bfs # None /\ pc = "answered" /\ Ended(Seeds(query.vector), bfs)
                    /\ hops = [seeds |-> Seeds(query.vector), walked |-> bfs.paths,
                               paths |-> Touching(bfs.paths, Seeds(query.vector))]

LEMMA InitHops == Init => HopsInv
BY DEF Init, HopsInv

LEMMA SameWalk ==
  ASSUME UNCHANGED <<graph, query>>
  PROVE  /\ WalkSoFar(Seeds(query.vector), bfs)' <=> WalkSoFar(Seeds(query.vector), bfs')
         /\ Seeds(query.vector)' = Seeds(query.vector)
<1>1. Seeds(query.vector)' = Seeds(query.vector)
  OBVIOUS
<1>2. \A p, seed : IsWay(p, seed)' <=> IsWay(p, seed)
  BY DEF IsWay, HasEdge
<1>3. \A seed : SimplePaths(seed)' = SimplePaths(seed)
  BY DEF SimplePaths, HasEdge
<1>4. \A s, w : QueueWays(s, w)' <=> QueueWays(s, w)
  BY <1>2, Zenon DEF QueueWays
<1>5. \A s, w : PathWays(s, w)' <=> PathWays(s, w)
  BY <1>3, Zenon DEF PathWays
<1>6. \A s, w : NoneLost(s, w)' <=> NoneLost(s, w)
  BY <1>3, Zenon DEF NoneLost
<1>7. \A s, w : WalkSoFar(s, w)' <=> WalkSoFar(s, w)
  BY <1>4, <1>5, <1>6, Zenon DEF WalkSoFar
<1> QED
  BY <1>1, <1>7

LEMMA NextHops == QueryInv /\ HopsInv /\ [Next]_vars => HopsInv'
<1> SUFFICES ASSUME QueryInv, HopsInv, [Next]_vars PROVE HopsInv'
  OBVIOUS
<1> DEFINE s == Seeds(query.vector)
<1>1. s \in Seq(Pages) /\ IsInjective(s)
  BY SeedsOnce DEF QueryInv, IsQuery, Hits
<1>2. ASSUME UNCHANGED <<bfs, hops>>, pc \notin {"multi_hop", "answered"} PROVE HopsInv'
  BY <1>2 DEF HopsInv
<1>3. CASE UNCHANGED <<graph, query, bfs, hops, pc>>
  BY <1>3, SameWalk DEF HopsInv, Ended
<1>4. CASE Reindex \/ Trace
  BY <1>2, <1>4 DEF Reindex, Trace
<1>5. CASE Dispatch \/ Round \/ Near \/ FuseHit \/ NextRanking \/ Fused
  BY <1>2, <1>5 DEF Dispatch, Round, Near, FuseHit, NextRanking, Fused
<1>6. CASE StartCiting \/ CiteOn \/ EndCiting
  BY <1>2, <1>6 DEF StartCiting, CiteOn, EndCiting, Cite
<1>7. CASE StartHops
  <2>1. /\ pc = "idle" /\ pc' = "multi_hop" /\ UNCHANGED <<graph, query, hops>>
        /\ bfs' = [seed |-> 0, queue |-> << >>, paths |-> << >>]
    BY <1>7 DEF StartHops, Hop, MultiHop, graphVars
  <2>2. WalkSoFar(s, bfs')
    BY <1>1, <2>1, NothingWalked
  <2>3. ~ hops # None
    BY <2>1 DEF HopsInv
  <2> QED
    BY <2>1, <2>2, <2>3, SameWalk DEF HopsInv
<1>8. CASE HopOn
  <2>1. /\ pc = "multi_hop" /\ pc' = pc /\ UNCHANGED <<graph, query>>
        /\ NextSeed(query.vector) \/ WalkOn
    BY <1>8 DEF HopOn, Hop, graphVars
  <2>2. UNCHANGED hops /\ bfs # None
    BY <2>1 DEF NextSeed, WalkOn
  <2>3. WalkSoFar(s, bfs) /\ ~ hops # None
    BY <2>1, <2>2 DEF HopsInv
  <2>4. CASE WalkOn
    <3>1. WalkSoFar(s, bfs')
      BY <2>3, <2>4, TurnWalks DEF WalkOn
    <3> QED
      BY <2>1, <2>2, <2>3, <3>1, SameWalk DEF HopsInv
  <2>5. CASE NextSeed(query.vector)
    <3>1. /\ bfs.queue = << >> /\ bfs.seed < Len(s)
          /\ bfs' = [bfs EXCEPT !.seed = @ + 1,
                       !.queue = IF s[bfs.seed + 1] \in graph.nodes
                                 THEN <<<<s[bfs.seed + 1]>>>> ELSE << >>]
      BY <2>5 DEF NextSeed
    <3> HIDE DEF s
    <3>2. WalkSoFar(s, bfs')
      BY <1>1, <2>3, <3>1, SeedWalks
    <3> QED
      BY <2>1, <2>2, <2>3, <3>2, SameWalk DEF HopsInv, s
  <2> QED
    BY <2>1, <2>4, <2>5
<1>9. CASE EndHops
  <2>1. /\ pc = "multi_hop" /\ pc' = "answered" /\ UNCHANGED <<graph, query, bfs>>
        /\ bfs # None
        /\ IF bfs.queue = << >> THEN bfs.seed = Len(s) ELSE Len(bfs.paths) >= MaxPaths
        /\ hops' = [seeds |-> s, walked |-> bfs.paths, paths |-> Touching(bfs.paths, s)]
    BY <1>9 DEF EndHops, Hop, Hopped, graphVars
  <2>2. WalkSoFar(s, bfs) /\ Ended(s, bfs)
    BY <2>1 DEF HopsInv, Ended
  <2>3. WalkSoFar(s, bfs) <=> WalkSoFar(s, bfs)'
    BY <2>1, SameWalk
  <2>4. Ended(s, bfs)' /\ s' = s
    BY <2>1, <2>2 DEF Ended
  <2> HIDE DEF s
  <2> QED
    BY <2>1, <2>2, <2>3, <2>4 DEF HopsInv, s
<1>10. CASE Answered \/ UNCHANGED vars
  BY <1>3, <1>10 DEF Answered, vars, graphVars
<1> QED
  BY <1>4, <1>5, <1>6, <1>7, <1>8, <1>9, <1>10 DEF Next

LEMMA HopsInvariance == Spec => [](QueryInv /\ HopsInv)
<1> QED
  BY InitHops, NextHops, Invariance, PTL DEF Spec

LEMMA HopsReturned ==
  ASSUME QueryInv, HopsInv, hops # None
  PROVE  HopsComplete /\ CapKeepsNearest
<1>1. Seeds(query.vector) \in Seq(Pages) /\ IsInjective(Seeds(query.vector))
  BY SeedsOnce DEF QueryInv, IsQuery, Hits
<1>2. /\ WalkSoFar(Seeds(query.vector), bfs) /\ Ended(Seeds(query.vector), bfs)
      /\ hops = [seeds |-> Seeds(query.vector), walked |-> bfs.paths,
                 paths |-> Touching(bfs.paths, Seeds(query.vector))]
  BY DEF HopsInv
<1> QED
  BY <1>1, <1>2, HopsAreNearest

\* On every graph, for every depth and cap, multi_hop returns ways that touch
\* two seeds only, each once, and all of them that end at a seed unless there
\* are more ways than the cap.
THEOREM HopsAreComplete == Spec => []HopsComplete
<1>1. QueryInv /\ HopsInv => HopsComplete
  BY HopsReturned DEF HopsComplete
<1> QED
  BY <1>1, HopsInvariance, PTL

\* What the cap leaves out is never nearer than what it keeps.
THEOREM CapIsNearest == Spec => []CapKeepsNearest
<1>1. QueryInv /\ HopsInv => CapKeepsNearest
  BY HopsReturned DEF CapKeepsNearest
<1> QED
  BY <1>1, HopsInvariance, PTL
-----------------------------------------------------------------------------
(* types *)

PcInv == pc \in {"idle", "topology", "fusion", "multi_hop", "assemble", "answered"}

LEMMA PcInvariance == Spec => []PcInv
<1>1. Init => PcInv
  BY DEF Init, PcInv
<1>2. PcInv /\ [Next]_vars => PcInv'
  BY DEF PcInv, Next, Reindex, Trace, Dispatch, Round, Near, FuseHit, NextRanking, Fused,
         StartHops, HopOn, EndHops, StartCiting, CiteOn, EndCiting, Answered, vars
<1> QED
  BY <1>1, <1>2, PTL DEF Spec

LEMMA HopsTyped == QueryInv /\ HopsInv => HopsTypeOK
<1> SUFFICES ASSUME QueryInv, HopsInv PROVE HopsTypeOK
  OBVIOUS
<1> DEFINE s == Seeds(query.vector)
<1>1. s \in Seq(Pages)
  BY SeedsOnce DEF QueryInv, IsQuery, Hits
<1>2. bfs # None => /\ bfs.seed \in Nat /\ Len(bfs.paths) <= MaxPaths
                    /\ bfs.queue \in Seq(Seq(Pages)) /\ bfs.paths \in Seq(Seq(Pages))
  BY DEF HopsInv, WalkSoFar, WalkShape
<1>3. ASSUME hops # None
      PROVE  /\ hops.seeds \in Seq(Pages) /\ hops.paths \in Seq(Seq(Pages))
             /\ hops.walked \in Seq(Seq(Pages))
  <2>1. /\ bfs # None
        /\ hops = [seeds |-> s, walked |-> bfs.paths, paths |-> Touching(bfs.paths, s)]
    BY <1>3 DEF HopsInv
  <2>2. Touching(bfs.paths, s) \in Seq(Seq(Pages))
    BY <1>2, <2>1, KeptIsKept DEF Touching
  <2> QED
    BY <1>1, <1>2, <2>1, <2>2
<1> QED
  BY <1>2, <1>3 DEF HopsTypeOK

LEMMA FusionTyped ==
  ASSUME FusionInv
  PROVE  fusion.channel \in Nat /\ fusion.rank \in Nat /\ fusion.accum \in Seq(Entries)
<1>1. CASE FuseSoFar(Channels, fusion)
  BY <1>1 DEF FuseSoFar, FuseShape
<1>2. CASE fusion = [channel |-> 1, rank |-> 0, accum |-> << >>]
  BY <1>2, EmptySeq
<1> QED
  BY <1>1, <1>2 DEF FusionInv

LEMMA FusedTyped ==
  ASSUME ChannelsOK(Channels), fusion.accum \in Seq(Entries), NEW fused \in FusedLists
  PROVE  fused \in Seq(Entries)
<1>1. Len(Channels) \in Nat /\ \A c \in 1..Len(Channels) : Channels[c] \in Seq(Hits)
  BY LenProperties DEF ChannelsOK
<1>2. CASE Len(Channels) = 0
  <2>1. fused = << >>
    BY <1>2 DEF FusedLists
  <2> QED
    BY <2>1, EmptySeq
<1>3. CASE Len(Channels) = 1
  <2> DEFINE r == Channels[1]
  <2>1. fused = Only(r)
    BY <1>3 DEF FusedLists
  <2>2. r \in Seq(Hits)
    BY <1>1, <1>3
  <2> HIDE DEF r
  <2>3. Len(r) \in Nat /\ \A i \in 1..Len(r) : r[i] \in Hits /\ i \in Nat /\ i > 0
    BY <2>2, LenProperties
  <2>4. \A i \in 1..Len(r) : /\ r[i].page \in Pages /\ r[i].chunk \in Nat \cup {None}
                             /\ Contribution(i) \in Nat /\ i \in Nat
    BY <2>3, ContributionType DEF Hits
  <2>5. Only(r) \in [1..Len(r) -> Entries]
    BY <2>4 DEF Only, Entries
  <2> QED
    BY <2>1, <2>3, <2>5
<1>4. CASE Len(Channels) # 0 /\ Len(Channels) # 1
  <2> DEFINE D == 1..Len(fusion.accum)
  <2>1. PICK o \in StableOrders(fusion.accum) : fused = [n \in D |-> fusion.accum[o[n]]]
    BY <1>4 DEF FusedLists
  <2>2. o \in [D -> D] /\ Len(fusion.accum) \in Nat
    BY OrdersPermute, LenProperties
  <2>3. \A n \in D : fusion.accum[o[n]] \in Entries
    BY <2>2
  <2>4. fused \in [D -> Entries]
    BY <2>1, <2>3
  <2> QED
    BY <2>2, <2>4
<1> QED
  BY <1>2, <1>3, <1>4

LEMMA ResultTyped ==
  ASSUME QueryInv, WalkInv, FusionInv, result # None
  PROVE  /\ result.fused \in Seq(Entries)
         /\ \A kind \in DOMAIN result : Len(result[kind]) <= TopK
<1>1. Returned
  BY DEF WalkInv
<1>2. ChannelsOK(Channels)
  BY <1>1, ChannelsTyped DEF ChannelsInv
<1>3. PICK fused \in FusedLists :
        result = [vector |-> Cut(VectorHits), lexical |-> Cut(LexicalHits),
                  topology |-> Cut(TopologyHits), fused |-> Cut(fused)]
  BY DEF FusionInv, IsResult
<1>4. fused \in Seq(Entries)
  BY <1>2, FusionTyped, FusedTyped
<1>5. VectorHits \in Seq(Hits) /\ LexicalHits \in Seq(Hits) /\ TopologyHits \in Seq(Hits)
  BY NearTyped, HitsAreOK DEF QueryInv, Rankings
<1>6. /\ Cut(fused) \in Seq(Entries) /\ Len(Cut(fused)) <= TopK
      /\ Len(Cut(VectorHits)) <= TopK /\ Len(Cut(LexicalHits)) <= TopK
      /\ Len(Cut(TopologyHits)) <= TopK
  BY <1>4, <1>5, CutIsPrefix
<1>7. DOMAIN result = {"vector", "lexical", "topology", "fused"}
  BY <1>3
<1>8. /\ result["vector"] = Cut(VectorHits) /\ result["lexical"] = Cut(LexicalHits)
      /\ result["topology"] = Cut(TopologyHits) /\ result["fused"] = Cut(fused)
      /\ result.fused = Cut(fused)
  BY <1>3
<1> QED
  BY <1>6, <1>7, <1>8

\* Every variable keeps its type; above all, dispatch never returns more hits of
\* a kind than it was asked for, and walk never lists more paths than its cap.
THEOREM QueryTypes == Spec => []TypeOK
<1>1. QueryInv /\ WalkInv /\ FusionInv /\ HopsInv /\ PcInv => TypeOK
  <2> SUFFICES ASSUME QueryInv, WalkInv, FusionInv, HopsInv, PcInv PROVE TypeOK
    OBVIOUS
  <2>1. CitesTypeOK
    BY DEF QueryInv, CitesSoFar, CitesShape, CitesTypeOK
  <2>2. near.round \in 0..Depth /\ near.frontier \subseteq Pages /\ near.found \in Seq(Pages)
    BY NearTyped
  <2>3. HopsTypeOK
    BY HopsTyped
  <2> QED
    BY <2>1, <2>2, <2>3, FusionTyped, ResultTyped DEF TypeOK, QueryInv, PcInv
<1> QED
  BY <1>1, FusionInvariance, HopsInvariance, PcInvariance, PTL
-----------------------------------------------------------------------------
\* The sort always has an answer: whatever has been accumulated, there is a list
\* of fused hits that Fused may return, so that dispatch never gets stuck there.
THEOREM FusionAnswers == Spec => [](pc = "fusion" => FusedLists # {})
<1>1. QueryInv /\ WalkInv /\ FusionInv => (pc = "fusion" => FusedLists # {})
  <2> SUFFICES ASSUME FusionInv PROVE FusedLists # {}
    OBVIOUS
  <2>1. PICK o \in StableOrders(fusion.accum) : TRUE
    BY FusionTyped, OrderExists
  <2> QED
    BY <2>1 DEF FusedLists
<1> QED
  BY <1>1, FusionInvariance, PTL
=============================================================================
