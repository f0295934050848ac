--------------------------- MODULE ChunkerProofs ---------------------------
(***************************************************************************)
(* Theorems about Chunker for every page, whatever its paragraphs, and for *)
(* every MaxTokens > 0 and MinTokens, MinTokens > MaxTokens included: no   *)
(* check of EngineConfig excludes it.                                      *)
(***************************************************************************)
EXTENDS Chunker, TLAPS

LEMMA ElementOfSeq ==
  ASSUME NEW S, NEW s \in Seq(S), NEW i \in 1..Len(s)
  PROVE  s[i] \in S
OBVIOUS

\* A chunk appended to the list.
LEMMA AppendedChunk ==
  ASSUME NEW s \in Seq(Chunks), NEW c \in Chunks
  PROVE  /\ Append(s, c) \in Seq(Chunks)
         /\ Append(s, c) # << >>
         /\ Len(Append(s, c)) = Len(s) + 1
         /\ Len(s) \in Nat
         /\ \A i \in 1..Len(s) : Append(s, c)[i] = s[i]
         /\ Append(s, c)[Len(s) + 1] = c
OBVIOUS

\* The last chunk of the list prolonged.
LEMMA ProlongedChunk ==
  ASSUME NEW s \in Seq(Chunks), s # << >>, NEW p \in Nat
  PROVE  LET f == [s EXCEPT ![Len(s)].to = p]
             c == s[Len(s)]
         IN /\ f \in Seq(Chunks)
            /\ Len(f) = Len(s)
            /\ Len(s) \in Nat \ {0}
            /\ c \in Chunks
            /\ \A i \in 1..Len(s) - 1 : f[i] = s[i]
            /\ f[Len(s)] = [section |-> c.section, from |-> c.from, to |-> p]
<1>1. Len(s) \in Nat \ {0} /\ s[Len(s)] \in Chunks /\ DOMAIN s = 1..Len(s)
  OBVIOUS
<1>2. [s EXCEPT ![Len(s)].to = p] =
        [i \in 1..Len(s) |-> IF i = Len(s) THEN [s[Len(s)] EXCEPT !.to = p]
                                           ELSE s[i]]
  BY <1>1
<1>3. [s[Len(s)] EXCEPT !.to = p] =
        [section |-> s[Len(s)].section, from |-> s[Len(s)].from, to |-> p]
  BY <1>1 DEF Chunks
<1>4. [s[Len(s)] EXCEPT !.to = p] \in Chunks
  BY <1>1 DEF Chunks
<1> QED
  BY <1>1, <1>2, <1>3, <1>4

\* What the assumption on Pages says of the section in hand.
LEMMA HereIsSection ==
  ASSUME TypeOK, sec <= Len(page)
  PROVE  /\ Here \in [ends : SUBSET (Nat \ {0}), words : Nat]
         /\ Here.words \in Here.ends
         /\ \A e \in Here.ends : e \in Nat \ {0} /\ e <= Here.words
         /\ sec \in 1..Len(page)
         /\ Len(page) \in Nat
<1>1. page \in Seq([ends : SUBSET (Nat \ {0}), words : Nat])
  BY PagesAssumption DEF TypeOK
<1>2. Len(page) \in Nat /\ sec \in 1..Len(page)
  BY <1>1 DEF TypeOK
<1>3. IsSection(Here)
  BY <1>2, PagesAssumption DEF TypeOK, Here
<1> QED
  BY <1>2, <1>3 DEF IsSection

\* A piece is not empty, stays in the section and ends where a chunk may end.
LEMMA PieceFits ==
  ASSUME TypeOK, Split, pos < Here.words, NEW n \in NextPiece
  PROVE  /\ n \in 1..MaxTokens
         /\ pos + n <= Here.words
         /\ OnBoundary(Here, pos + n)
<1> USE SizesAssumption
<1>1. /\ Here.words \in Here.ends
      /\ \A e \in Here.ends : e \in Nat \ {0}
  BY HereIsSection DEF Split
<1>2. /\ n \in 1..MaxTokens
      /\ \A e \in Here.ends : e > pos => pos + n <= e
      /\ n = MaxTokens \/ pos + n \in Here.ends
  BY DEF NextPiece
<1>3. pos + n <= Here.words
  BY <1>1, <1>2
<1>4. ASSUME NEW a \in Here.ends \cup {0}, NEW b \in Here.ends,
             Inside(a, pos + n, b), b - a <= MaxTokens
      PROVE  \E e \in Here.ends : Inside(a, e, b)
  <2>1. pos \in Nat /\ a \in Nat /\ b \in Nat
    BY <1>1 DEF TypeOK
  <2>2. CASE pos + n \in Here.ends
    BY <1>4, <2>2
  <2>3. CASE n = MaxTokens
    <3>1. a <= pos
      BY <1>2, <1>4, <2>1 DEF Inside
    <3> QED
      BY <1>4, <2>1, <2>3, <3>1 DEF Inside
  <2> QED
    BY <1>2, <2>2, <2>3
<1> QED
  BY <1>2, <1>3, <1>4 DEF OnBoundary
-----------------------------------------------------------------------------
\* What Covers, SizeBand, NoSlivers and WholeParagraphs ask of one chunk.
InBand(c)     == c.to - c.from <= MaxTokens + 2 * Excess
NoSliver(c)   == \/ c.to - c.from >= MinTokens
                 \/ c.from = 0 /\ c.to = page[c.section].words
ChunkOK(c)    == /\ c.from < c.to /\ InBand(c) /\ NoSliver(c)
                 /\ OnBoundary(page[c.section], c.to)
Start(c)      == [section |-> c.section, from |-> c.from]
Position(s, p) == [section |-> s, from |-> p]

\* Appending a chunk that begins where the list ends, is good in itself and
\* leaves the rest of the section or the next section to be cut, preserves
\* the properties of the list.
LEMMA AppendPreserves ==
  ASSUME Inv, page' = page, NEW c \in Chunks,
         sized' = Append(sized, c),
         Start(c) = Position(sec, start), ChunkOK(c),
         After(c) = Position(sec', start')
  PROVE  Covers' /\ SizeBand' /\ NoSlivers' /\ WholeParagraphs'
         /\ sized' \in Seq(Chunks)
<1> DEFINE n == Len(sized)
<1>1. /\ sized' \in Seq(Chunks) /\ Len(sized') = n + 1 /\ n \in Nat
      /\ \A i \in 1..n : sized'[i] = sized[i]
      /\ sized'[n + 1] = c
  BY AppendedChunk DEF Inv, TypeOK
<1>2. \A i \in 1..n + 1 : i \in 1..n \/ i = n + 1
  BY <1>1
<1>3. ASSUME NEW i \in 1..n + 1 PROVE Begin(i)' = Begin(i)
  <2>1. CASE i \in 1..n
    BY <1>1, <2>1 DEF Begin
  <2>2. CASE i = n + 1
    BY <1>1, <2>2 DEF Begin, Start, Position
  <2> QED
    BY <1>2, <2>1, <2>2
<1>5. \A d : After(d)' = After(d)
  BY DEF After
<1>6. Covers'
  <2>1. Begin(1)' = [section |-> 1, from |-> 0]
    BY <1>1, <1>3 DEF Inv, Covers
  <2>2. ASSUME NEW i \in 1..n
        PROVE  Begin(i + 1)' = After(sized[i])' /\ sized'[i].from < sized'[i].to
    BY <1>1, <1>3, <1>5 DEF Inv, Covers, After
  <2>3. ASSUME NEW i \in 1..n + 1, i = n + 1
        PROVE  Begin(i + 1)' = After(sized[i])' /\ sized'[i].from < sized'[i].to
    <3>1. sized'[i] = c
      BY <1>1, <2>3
    <3>2. After(sized[i])' = After(c)
      BY <3>1 DEF After
    <3>3. Begin(i + 1)' = After(c)
      BY <1>1, <2>3 DEF Begin, Position
    <3> QED
      BY <3>1, <3>2, <3>3 DEF ChunkOK
  <2>4. ASSUME NEW i \in 1..n + 1
        PROVE  Begin(i + 1)' = After(sized[i])' /\ sized'[i].from < sized'[i].to
    BY <1>2, <2>2, <2>3
  <2> QED
    BY <1>1, <2>1, <2>4 DEF Covers
<1>7. SizeBand'
  BY <1>1, <1>2 DEF Inv, SizeBand, ChunkOK, InBand, Excess
<1>8. NoSlivers'
  BY <1>1, <1>2 DEF Inv, NoSlivers, ChunkOK, NoSliver
<1>9. WholeParagraphs'
  BY <1>1, <1>2 DEF Inv, WholeParagraphs, ChunkOK, OnBoundary, Inside
<1> QED
  BY <1>1, <1>6, <1>7, <1>8, <1>9

\* The buffer of a section that is begun is empty.
LEMMA NextSectionBuffer ==
  ASSUME Inv, page' = page, sec <= Len(page), NextSection
  PROVE  /\ Buffer'
         /\ sec' \in 1..Len(page') + 1
         /\ start' \in Nat /\ pos' \in Nat /\ start' <= pos'
         /\ sec' <= Len(page') => pos' <= page'[sec'].words
<1> USE SizesAssumption
<1>1. sec \in 1..Len(page) /\ Len(page) \in Nat
  BY HereIsSection DEF Inv
<1>2. ASSUME sec' <= Len(page)
      PROVE  page[sec'] \in [ends : SUBSET (Nat \ {0}), words : Nat]
  <2>1. page \in Seq([ends : SUBSET (Nat \ {0}), words : Nat])
    BY PagesAssumption DEF Inv, TypeOK
  <2>2. sec' \in 1..Len(page)
    BY <1>1, <1>2 DEF NextSection
  <2> QED
    BY <2>1, <2>2, ElementOfSeq
<1>3. ASSUME sec' <= Len(page)
      PROVE  OnBoundary(Here, pos)'
  BY <1>2, <1>3 DEF OnBoundary, Inside, Here, NextSection
<1>4. Excess \in Nat
  BY DEF Excess
<1> QED
  BY <1>1, <1>2, <1>3, <1>4 DEF NextSection, Buffer, Size

LEMMA WholeInv == ASSUME Inv, Whole PROVE Inv'
<1> USE SizesAssumption
<1> DEFINE c == Words(0, Here.words)
<1>1. /\ Here.words \in Nat \ {0} /\ Here.words \in Here.ends
      /\ \A e \in Here.ends : e \in Nat \ {0} /\ e <= Here.words
      /\ sec \in 1..Len(page)
  BY HereIsSection DEF Inv, Whole
<1>2. pos = 0 /\ start = 0
  BY DEF Inv, TypeOK, Buffer, Whole
<1>3. c \in Chunks /\ c.section = sec /\ c.from = 0 /\ c.to = Here.words
  BY <1>1 DEF Words, Chunks
<1>4. OnBoundary(page[sec], Here.words)
  BY <1>1 DEF OnBoundary, Inside, Here
<1>5. ChunkOK(c)
  BY <1>1, <1>3, <1>4 DEF ChunkOK, InBand, NoSliver, Excess, Here, Whole, Fits
<1>6. Start(c) = Position(sec, start) /\ After(c) = Position(sec', start')
  BY <1>2, <1>3 DEF Start, Position, After, Here, Whole, NextSection
<1>7. /\ Covers' /\ SizeBand' /\ NoSlivers' /\ WholeParagraphs'
      /\ sized' \in Seq(Chunks)
  BY <1>3, <1>5, <1>6, AppendPreserves DEF Whole
<1>8. Buffer' /\ TypeOK'
  BY <1>7, NextSectionBuffer DEF Inv, TypeOK, Whole
<1> QED
  BY <1>7, <1>8 DEF Inv

\* What is true of the buffer holds when a piece is added that is not flushed.
LEMMA PackInv == ASSUME Inv, Pack PROVE Inv'
<1> USE SizesAssumption
<1>1. PICK n \in NextPiece : ~ Flushes(n) /\ pos' = pos + n
  BY DEF Pack
<1>2. n \in 1..MaxTokens /\ pos' <= Here.words /\ OnBoundary(Here, pos')
  BY <1>1, PieceFits DEF Inv, Pack
<1>3. /\ Here.words \in Nat /\ page[sec] = Here
      /\ pos \in Nat /\ start \in Nat /\ start <= pos /\ sec <= Len(page)
  BY HereIsSection DEF Inv, TypeOK, Pack, Split, Here
<1>4. TypeOK'
  BY <1>1, <1>2, <1>3 DEF Inv, TypeOK, Pack
<1>5. (Covers /\ SizeBand /\ NoSlivers /\ WholeParagraphs)'
  <2>1. \A i : Begin(i)' = Begin(i)
    BY DEF Begin, Pack
  <2> QED
    BY <2>1 DEF Inv, Covers, After, SizeBand, NoSlivers, WholeParagraphs,
                OnBoundary, Inside, Excess, Pack
<1>6. pos' - start' <= MaxTokens + Excess
  BY <1>1, <1>2, <1>3 DEF Flushes, Size, Excess, Pack, Inv, Buffer
<1>7. OnBoundary(Here, pos)'
  BY <1>2 DEF OnBoundary, Inside, Here, Pack
<1>8. Buffer'
  BY <1>1, <1>2, <1>3, <1>6, <1>7
     DEF Inv, Buffer, Pack, Split, Fits, Here, Size, Excess
<1> QED
  BY <1>4, <1>5, <1>8 DEF Inv

\* A flush takes the buffer as it was before the piece.
LEMMA FlushInv == ASSUME Inv, Flush PROVE Inv'
<1> USE SizesAssumption
<1> DEFINE c == Words(start, pos)
<1>1. PICK n \in NextPiece : Flushes(n) /\ pos' = pos + n
  BY DEF Flush
<1>2. n \in 1..MaxTokens /\ pos' <= Here.words /\ OnBoundary(Here, pos')
  BY <1>1, PieceFits DEF Inv, Flush
<1>3. /\ Here.words \in Nat /\ page[sec] = Here
      /\ pos \in Nat /\ start \in Nat /\ start < pos /\ pos < Here.words
      /\ sec <= Len(page) /\ sec \in 1..Len(page)
  BY <1>1, HereIsSection
     DEF Inv, TypeOK, Buffer, Flush, Flushes, Size, Split, Here
<1>4. c \in Chunks /\ c.section = sec /\ c.from = start /\ c.to = pos
  BY <1>3 DEF Words, Chunks
<1>5. /\ c.to - c.from <= MaxTokens + Excess
      /\ c.to - c.from >= MinTokens
  BY <1>1, <1>3, <1>4 DEF Inv, Buffer, Size, Flushes
<1>6. ChunkOK(c)
  BY <1>3, <1>4, <1>5
     DEF ChunkOK, InBand, NoSliver, Excess, Inv, Buffer
<1>7. Start(c) = Position(sec, start) /\ After(c) = Position(sec', start')
  BY <1>3, <1>4 DEF Start, Position, After, Flush
<1>8. /\ Covers' /\ SizeBand' /\ NoSlivers' /\ WholeParagraphs'
      /\ sized' \in Seq(Chunks)
  BY <1>4, <1>6, <1>7, AppendPreserves DEF Flush
<1>9. TypeOK'
  BY <1>1, <1>2, <1>3, <1>8 DEF Inv, TypeOK, Flush
<1>10. OnBoundary(Here, pos)'
  BY <1>2 DEF OnBoundary, Inside, Here, Flush
<1>11. sized' # << >> /\ sized'[Len(sized')] = c
  BY <1>4, AppendedChunk DEF Flush, Inv, TypeOK
<1>12. Buffer'
  BY <1>1, <1>2, <1>3, <1>4, <1>5, <1>10, <1>11
     DEF Buffer, Flush, Split, Fits, Here, Size, Excess
<1> QED
  BY <1>8, <1>9, <1>12 DEF Inv

LEMMA RestInv == ASSUME Inv, Rest PROVE Inv'
<1> USE SizesAssumption
<1> DEFINE c == Words(start, pos)
<1>1. /\ Here.words \in Nat \ {0} /\ page[sec] = Here
      /\ pos \in Nat /\ start \in Nat /\ start < pos /\ pos = Here.words
      /\ sec <= Len(page) /\ sec \in 1..Len(page)
  BY HereIsSection DEF Inv, TypeOK, Buffer, Rest, Split, Here
<1>2. c \in Chunks /\ c.section = sec /\ c.from = start /\ c.to = pos
  BY <1>1 DEF Words, Chunks
<1>3. ChunkOK(c)
  BY <1>1, <1>2 DEF ChunkOK, InBand, NoSliver, Excess, Inv, Buffer, Size,
                    Rest, Folds
<1>4. Start(c) = Position(sec, start) /\ After(c) = Position(sec', start')
  BY <1>1, <1>2 DEF Start, Position, After, Rest, NextSection
<1>5. /\ Covers' /\ SizeBand' /\ NoSlivers' /\ WholeParagraphs'
      /\ sized' \in Seq(Chunks)
  BY <1>2, <1>3, <1>4, AppendPreserves DEF Rest
<1>6. Buffer' /\ TypeOK'
  BY <1>1, <1>5, NextSectionBuffer DEF Inv, TypeOK, Rest
<1> QED
  BY <1>5, <1>6 DEF Inv

\* The fold prolongs the last chunk, which is of the same section and ends
\* where the buffer begins.
LEMMA FoldInv == ASSUME Inv, Fold PROVE Inv'
<1> USE SizesAssumption
<1> DEFINE m == Len(sized)
           c == sized[m]
           d == [section |-> sec, from |-> c.from, to |-> pos]
<1>0. page' = page /\ sec' = sec + 1 /\ start' = 0
  BY DEF Fold, NextSection
<1>1. /\ Here.words \in Nat \ {0} /\ page[sec] = Here
      /\ pos \in Nat /\ start \in Nat \ {0} /\ start < pos /\ pos = Here.words
      /\ sec <= Len(page) /\ sec \in 1..Len(page)
  BY HereIsSection DEF Inv, TypeOK, Buffer, Fold, Folds, Split, Here
<1>2. /\ sized # << >> /\ c.section = sec /\ c.to = start
      /\ c.to - c.from >= MinTokens /\ c.to - c.from <= MaxTokens + Excess
  BY <1>1 DEF Inv, Buffer, Excess
<1>3. /\ sized' \in Seq(Chunks) /\ Len(sized') = m /\ m \in Nat \ {0}
      /\ c \in Chunks
      /\ \A i \in 1..m - 1 : sized'[i] = sized[i]
      /\ sized'[m] = d
  BY <1>1, <1>2, ProlongedChunk DEF Fold, Inv, TypeOK
<1>4. c.from < c.to
  BY <1>3 DEF Inv, Covers
<1>5. d.section = sec /\ d.from = c.from /\ d.to = pos
  OBVIOUS
<1>6. c.from \in Nat /\ c.to \in Nat
  BY <1>3 DEF Chunks
<1> HIDE DEF d
<1>7. ChunkOK(d)
  BY <1>1, <1>2, <1>4, <1>5, <1>6
     DEF ChunkOK, InBand, NoSliver, Excess, Inv, Buffer, Size, Fold, Folds
<1>8. \A i \in 1..m : i \in 1..m - 1 \/ i = m
  BY <1>3
<1>9. ASSUME NEW i \in 1..m PROVE Begin(i)' = Begin(i)
  BY <1>2, <1>3, <1>5, <1>8 DEF Begin
<1>10. Covers'
  <2>1. Begin(1)' = [section |-> 1, from |-> 0]
    BY <1>3, <1>9 DEF Inv, Covers
  <2>2. ASSUME NEW i \in 1..m - 1
        PROVE  Begin(i + 1)' = After(sized[i])' /\ sized'[i].from < sized'[i].to
    <3>1. i + 1 \in 1..m /\ i \in 1..m
      BY <1>3
    <3>2. After(sized[i])' = After(sized[i])
      BY <1>0, <1>3 DEF After
    <3>3. Begin(i + 1) = After(sized[i]) /\ sized[i].from < sized[i].to
      BY <3>1 DEF Inv, Covers
    <3> QED
      BY <1>3, <1>9, <3>1, <3>2, <3>3
  <2>3. ASSUME NEW i \in 1..m, i = m
        PROVE  Begin(i + 1)' = After(sized[i])' /\ sized'[i].from < sized'[i].to
    <3>1. sized'[i] = d
      BY <1>3, <2>3
    <3>2. After(sized[i])' = [section |-> sec + 1, from |-> 0]
      BY <3>1, <1>0, <1>1, <1>5 DEF After
    <3>3. Begin(i + 1)' = [section |-> sec + 1, from |-> 0]
      BY <1>0, <1>3, <2>3 DEF Begin
    <3> QED
      BY <3>1, <3>2, <3>3, <1>7 DEF ChunkOK
  <2>4. ASSUME NEW i \in 1..m
        PROVE  Begin(i + 1)' = After(sized[i])' /\ sized'[i].from < sized'[i].to
    BY <1>8, <2>2, <2>3
  <2> QED
    BY <1>3, <2>1, <2>4 DEF Covers
<1>11. SizeBand'
  BY <1>3, <1>7, <1>8 DEF Inv, SizeBand, ChunkOK, InBand, Excess
<1>12. NoSlivers'
  BY <1>0, <1>3, <1>7, <1>8 DEF Inv, NoSlivers, ChunkOK, NoSliver
<1>13. WholeParagraphs'
  BY <1>0, <1>3, <1>7, <1>8
     DEF Inv, WholeParagraphs, ChunkOK, OnBoundary, Inside
<1>14. Buffer' /\ TypeOK'
  BY <1>1, <1>3, NextSectionBuffer DEF Inv, TypeOK, Fold
<1> QED
  BY <1>10, <1>11, <1>12, <1>13, <1>14 DEF Inv
-----------------------------------------------------------------------------
LEMMA InitInv == Init => Inv
<1> SUFFICES ASSUME Init PROVE Inv
  OBVIOUS
<1> USE SizesAssumption
<1>1. /\ page \in Seq([ends : SUBSET (Nat \ {0}), words : Nat])
      /\ Len(page) \in Nat
  BY PagesAssumption DEF Init
<1>2. ASSUME sec <= Len(page)
      PROVE  Here \in [ends : SUBSET (Nat \ {0}), words : Nat]
  <2>1. sec \in 1..Len(page)
    BY <1>1, <1>2 DEF Init
  <2>2. page[sec] \in [ends : SUBSET (Nat \ {0}), words : Nat]
    BY <1>1, <2>1, ElementOfSeq
  <2> QED
    BY <2>2 DEF Here
<1>3. TypeOK
  BY <1>1, <1>2 DEF Init, TypeOK, Here
<1>4. Buffer
  BY <1>1, <1>2 DEF Init, Buffer, Size, Excess, OnBoundary, Inside
<1> QED
  BY <1>3, <1>4
     DEF Init, Inv, Covers, Begin, SizeBand, NoSlivers, WholeParagraphs

LEMMA StepInv == Inv /\ [Next]_vars => Inv'
<1>1. ASSUME Inv, UNCHANGED vars PROVE Inv'
  BY <1>1 DEF vars, Inv, TypeOK, Covers, Begin, After, SizeBand, NoSlivers,
              WholeParagraphs, OnBoundary, Inside, Buffer, Fits, Here, Size,
              Excess
<1> QED
  BY <1>1, WholeInv, PackInv, FlushInv, FoldInv, RestInv DEF Next, Return

\* Inv is an invariant of the chunker.
THEOREM Invariance == Spec => []Inv
BY InitInv, StepInv, PTL DEF Spec

\* The loop variables stay in range, whatever the page.
THEOREM TypeCorrect == Spec => []TypeOK
BY Invariance, PTL DEF Inv

\* No page loses a word, or has it in two chunks or under another heading.
THEOREM ChunksCoverPage == Spec => []Covers
BY Invariance, PTL DEF Inv

\* No chunk is longer than MaxTokens plus two slivers.
THEOREM ChunksInBand == Spec => []SizeBand
BY Invariance, PTL DEF Inv

\* A chunk shorter than MinTokens is a whole section.
THEOREM SplittingLeavesNoSlivers == Spec => []NoSlivers
BY Invariance, PTL DEF Inv

\* Only a paragraph over the cap is cut inside.
THEOREM ParagraphsStayWhole == Spec => []WholeParagraphs
BY Invariance, PTL DEF Inv
=============================================================================
