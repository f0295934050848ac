------------------------------ MODULE Chunker ------------------------------
(***************************************************************************)
(* chunker.py: chunk_page cuts a page at its H1/H2 headings into sections, *)
(* and _split_section packs the paragraphs of a section that is too long   *)
(* into chunks of a size band.  Sizes are words (`len(text.split())`), so  *)
(* a section is the word positions at which its paragraphs end, and a      *)
(* chunk is a range of words of one section: its heading is the section's. *)
(* The heading line is part of the text of its section.                    *)
(***************************************************************************)
EXTENDS Integers, Sequences

CONSTANTS MaxTokens, MinTokens,  \* chunk_max_tokens, chunk_min_tokens
          Pages                  \* the pages considered

\* A section that _HEADER and strip() leave: never without a word.
IsSection(s) == /\ s \in [ends : SUBSET (Nat \ {0}), words : Nat]
                /\ s.words \in s.ends
                /\ \A e \in s.ends : e <= s.words

\* EngineConfig checks neither size; a max of 0 makes range() raise.
ASSUME SizesAssumption == MaxTokens \in Nat \ {0} /\ MinTokens \in Nat
ASSUME PagesAssumption == \A p \in Pages :
  /\ p \in Seq([ends : SUBSET (Nat \ {0}), words : Nat])
  /\ \A i \in 1..Len(p) : IsSection(p[i])

VARIABLES page,   \* the sections of the page, raw_chunks
          sec,    \* the section being split
          pos,    \* words of it already taken from pieces
          start,  \* where `buf` begins: buf is the words start+1..pos
          sized   \* the chunks so far; idx is the position

vars == <<page, sec, pos, start, sized>>

Chunks == [section : Nat \ {0}, from : Nat, to : Nat]

TypeOK == /\ page \in Pages
          /\ sec \in 1..Len(page) + 1
          /\ start \in Nat /\ pos \in Nat /\ start <= pos
          /\ sec <= Len(page) => pos <= page[sec].words
          /\ sized \in Seq(Chunks)
-----------------------------------------------------------------------------
Init == page \in Pages /\ sec = 1 /\ pos = 0 /\ start = 0 /\ sized = << >>

Here == page[sec]
Size == pos - start                                    \* `size`
Words(lo, hi) == [section |-> sec, from |-> lo, to |-> hi]

\* A section within the cap is one chunk, whatever MinTokens is.
Fits  == Here.words <= MaxTokens
Split == sec <= Len(page) /\ ~ Fits

\* Not the code: a paragraph is never cut, as before the size cap.
ParagraphPiece == {n \in 1..Here.words : /\ pos + n \in Here.ends
                                         /\ \A e \in Here.ends :
                                              e > pos => pos + n <= e}

\* Not the code: the section is cut on words, without regard to paragraphs.
BlindPiece == {n \in 1..MaxTokens : /\ pos + n <= Here.words
                                    /\ n = MaxTokens \/ pos + n = Here.words}

\* The words of the next piece: the rest of the paragraph at pos, up to
\* MaxTokens of them.  A paragraph over the cap is thereby cut every MaxTokens
\* words from its start.
NextPiece == LET rest == {e \in Here.ends : e > pos}
             IN {n \in 1..MaxTokens : /\ \A e \in rest : pos + n <= e
                                      /\ n = MaxTokens \/ pos + n \in rest}

\* Not the code: `buf and size + n > max_tokens`, which flushes slivers.
FlushesEarly(n) == Size > 0 /\ Size + n > MaxTokens

\* The buffer is a chunk of its own before a piece of n words is added.
Flushes(n) == Size > 0 /\ Size >= MinTokens /\ Size + n > MaxTokens

\* Not the code: buf and size declared once per page instead of per section.
NextSectionKeepsBuf == sec' = sec + 1 /\ UNCHANGED <<pos, start>>

NextSection == sec' = sec + 1 /\ pos' = 0 /\ start' = 0

Whole == /\ sec <= Len(page)
         /\ Fits
         /\ sized' = Append(sized, Words(0, Here.words))
         /\ NextSection
         /\ UNCHANGED page

Pack == /\ Split /\ pos < Here.words
        /\ \E n \in NextPiece : ~ Flushes(n) /\ pos' = pos + n
        /\ UNCHANGED <<page, sec, start, sized>>

\* Not the code: the piece is added before `buf, size = [], 0`, not after.
FlushDropsPiece == /\ Split /\ pos < Here.words
                   /\ \E n \in NextPiece : Flushes(n) /\ pos' = pos + n
                   /\ sized' = Append(sized, Words(start, pos))
                   /\ start' = pos'
                   /\ UNCHANGED <<page, sec>>

Flush == /\ Split /\ pos < Here.words
         /\ \E n \in NextPiece : Flushes(n) /\ pos' = pos + n
         /\ sized' = Append(sized, Words(start, pos))
         /\ start' = pos
         /\ UNCHANGED <<page, sec>>

\* `if out and size < min_tokens`; `out` has this section's chunks only.
Folds == start > 0 /\ Size < MinTokens

Fold == /\ Split /\ pos = Here.words /\ Folds
        /\ sized' = [sized EXCEPT ![Len(sized)].to = pos]
        /\ NextSection
        /\ UNCHANGED page

Rest == /\ Split /\ pos = Here.words /\ ~ Folds
        /\ sized' = Append(sized, Words(start, pos))
        /\ NextSection
        /\ UNCHANGED page

\* The loop over raw_chunks is over.  There is no other state in which
\* chunk_page has nothing to do: a run of TLC checks that as deadlock freedom.
Return == sec > Len(page) /\ UNCHANGED vars

Next == Whole \/ Pack \/ Flush \/ Fold \/ Rest \/ Return

Spec == Init /\ [][Next]_vars
-----------------------------------------------------------------------------
\* The chunks are the page, cut: each begins where the one before it ends, or
\* at the first word of the next section when that one ends its section, and
\* so does what is yet to be cut.  Whatever is flushed, folded or hard-split,
\* no word is lost, put in two chunks or moved under another heading.
After(c) == IF c.to = page[c.section].words
            THEN [section |-> c.section + 1, from |-> 0]
            ELSE [section |-> c.section, from |-> c.to]

Begin(i) == IF i <= Len(sized)
            THEN [section |-> sized[i].section, from |-> sized[i].from]
            ELSE [section |-> sec, from |-> start]

Covers == /\ Begin(1) = [section |-> 1, from |-> 0]
          /\ \A i \in 1..Len(sized) : /\ Begin(i + 1) = After(sized[i])
                                      /\ sized[i].from < sized[i].to

\* What the cap amounts to: a short leading paragraph that is not flushed and
\* a short remainder that is folded back may both be added to a full piece.
Excess == IF MinTokens = 0 THEN 0 ELSE MinTokens - 1
SizeBand == \A i \in 1..Len(sized) :
              sized[i].to - sized[i].from <= MaxTokens + 2 * Excess

\* min_tokens "bounds sliver chunks produced by splitting": a chunk shorter
\* than that is a whole section.
NoSlivers == \A i \in 1..Len(sized) :
               \/ sized[i].to - sized[i].from >= MinTokens
               \/ /\ sized[i].from = 0
                  /\ sized[i].to = page[sized[i].section].words

\* A chunk ends inside a paragraph only when that paragraph is over the cap.
Inside(a, p, b) == a < p /\ p < b
OnBoundary(s, p) ==
  \A a \in s.ends \cup {0}, b \in s.ends :
    Inside(a, p, b) /\ b - a <= MaxTokens => \E e \in s.ends : Inside(a, e, b)

WholeParagraphs == \A i \in 1..Len(sized) :
                     OnBoundary(page[sized[i].section], sized[i].to)
-----------------------------------------------------------------------------
\* The inductive invariant.  The buffer itself stays under MaxTokens + Excess,
\* and when the section has a chunk already, so does that chunk.
Buffer ==
  sec <= Len(page) =>
    /\ Fits => pos = 0
    /\ pos > 0 => start < pos
    /\ Size <= MaxTokens + Excess
    /\ OnBoundary(Here, pos)
    /\ start > 0 => LET c == sized[Len(sized)] IN
                      /\ sized # << >>
                      /\ c.section = sec /\ c.to = start
                      /\ c.to - c.from \in MinTokens..MaxTokens + Excess

Inv == TypeOK /\ Covers /\ SizeBand /\ NoSlivers /\ WholeParagraphs /\ Buffer
=============================================================================
