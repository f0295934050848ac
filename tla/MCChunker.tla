----------------------------- MODULE MCChunker -----------------------------
\* Every page of one section of up to MaxWords words, however it is cut into
\* paragraphs, and every page of two sections of up to ShortWords words.
EXTENDS Chunker

CONSTANTS MaxWords, ShortWords

MCSections(n) == UNION {{[ends |-> e \cup {w}, words |-> w] :
                           e \in SUBSET (1..w - 1)} : w \in 1..n}

MCPages == {<<s>> : s \in MCSections(MaxWords)}
             \cup {<<s, t>> : s, t \in MCSections(ShortWords)}
=============================================================================
