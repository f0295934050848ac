------------------------------ MODULE MCIngest ------------------------------
\* Small instances of Ingest: two commands at a time, about two documents of
\* one title that may differ in type.  Files of different slugs have different
\* names, so no command about one slug touches those of another.
EXTENDS Ingest
=============================================================================
