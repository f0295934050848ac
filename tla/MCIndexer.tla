----------------------------- MODULE MCIndexer -----------------------------
\* Small instances of Indexer.
EXTENDS Indexer

CONSTANTS foo, bar, a, b

\* A page without chunks, one of one chunk, and one of two whose first differs.
MCBodies == { {},
              {[idx |-> 0, sum |-> a]},
              {[idx |-> 0, sum |-> b], [idx |-> 1, sum |-> a]} }

\* Every file has its own stem.
OwnStems == <<foo, bar>>

\* Two files have the same stem: a page can be moved between two directories.
SharedStems == <<foo, foo>>

\* Nothing happens to the vault but one rename.
MoveSpec == /\ Init /\ disk[1] \in Bodies \ {{}} /\ disk[2] = Absent
            /\ [][Move(1, 2) \/ Start \/ Work]_vars

OneBody == { {}, {[idx |-> 0, sum |-> a]} }
=============================================================================
