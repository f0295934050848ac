----------------------------- MODULE MCVecStore -----------------------------
\* Small instances of VecStore: two processes with the database open.
EXTENDS VecStore
=============================================================================
