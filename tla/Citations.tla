----------------------------- MODULE Citations -----------------------------
(***************************************************************************)
(* citations.py, CitationAssembler.assemble: the pages of the hits, and    *)
(* the pages that their frontmatter names as sources, and so on.  The      *)
(* recursion of _walk is a stack here: what it is about to visit, first    *)
(* first.  A hit is a record [page, chunk], the chunk standing for the     *)
(* excerpt; a page reached through `sources` has none.  A raw path inside  *)
(* the vault is a property of the page alone and is left out.              *)
(***************************************************************************)
EXTENDS GraphStore

VARIABLE cites \* None, or the number of the hit under way, its stack, and `out`

Hits == [page : Pages, chunk : Nat \cup {None}]

CitesTypeOK == cites # None => /\ cites.hit \in Nat
                               /\ cites.stack \in Seq(Hits) /\ cites.out \in Seq(Hits)

Cited(w) == {w.out[i].page : i \in 1..Len(w.out)}

AsSources(p) == [i \in 1..Len(vault.sources[p]) |->
                   [page |-> vault.sources[p][i], chunk |-> None]]

\* Not the code: `seen` keeps only the hits themselves from being repeated.
VisitAgain(w) ==
  LET next == Head(w.stack)
  IN IF next.page \notin vault.pages \/ (next.chunk # None /\ next.page \in Cited(w))
     THEN [w EXCEPT !.stack = Tail(@)]
     ELSE [w EXCEPT !.stack = AsSources(next.page) \o Tail(@), !.out = Append(@, next)]

\* One call of _walk: a page that is cited already or that the vault lacks is
\* passed over; after the page come its sources.
Visit(w) ==
  LET next == Head(w.stack)
  IN IF next.page \in Cited(w) \/ next.page \notin vault.pages
     THEN [w EXCEPT !.stack = Tail(@)]
     ELSE [w EXCEPT !.stack = AsSources(next.page) \o Tail(@), !.out = Append(@, next)]

Assemble == cites = None /\ cites' = [hit |-> 0, stack |-> << >>, out |-> << >>]

\* assemble's loop calls _walk once for each hit.
CiteHit(hits) ==
  /\ cites # None /\ cites.stack = << >> /\ cites.hit < Len(hits)
  /\ cites' = [cites EXCEPT !.hit = @ + 1, !.stack = <<hits[cites.hit + 1]>>]

VisitNext == cites # None /\ cites.stack # << >> /\ cites' = Visit(cites)

Assembled(hits) == cites # None /\ cites.stack = << >> /\ cites.hit = Len(hits)
-----------------------------------------------------------------------------
\* The pages that the frontmatter of a page leads to, itself included, through
\* pages of the vault only: what every set has that has p and is closed.
Closed(S) == \A a \in S : \A i \in 1..Len(vault.sources[a]) :
               vault.sources[a][i] \in vault.pages => vault.sources[a][i] \in S

SourcesOf(p) == {q \in vault.pages : \A S \in SUBSET vault.pages :
                                       p \in S /\ Closed(S) => q \in S}

\* What a hit leads to: nothing, when its page is gone.
LedBy(hit) == IF hit.page \in vault.pages THEN SourcesOf(hit.page) ELSE {}

\* Every page that a hit leads to is cited, once, and no other, though sources
\* may name each other in circles; what the first hit leads to comes first; and
\* a page has an excerpt exactly when a hit on it is the first to lead there.
CitesFully(hits) ==
  Assembled(hits) =>
    LET First(p) == CHOOSE i \in 1..Len(hits) :
                      p \in LedBy(hits[i]) /\ \A j \in 1..i - 1 : p \notin LedBy(hits[j])
        out == cites.out
    IN /\ Cited(cites) = UNION {LedBy(hits[i]) : i \in 1..Len(hits)}
       /\ \A i, j \in 1..Len(out) : i < j => /\ out[i].page # out[j].page
                                             /\ First(out[i].page) <= First(out[j].page)
       /\ \A i \in 1..Len(out) :
            LET hit == hits[First(out[i].page)]
            IN out[i].chunk = IF hit.page = out[i].page THEN hit.chunk ELSE None
=============================================================================
