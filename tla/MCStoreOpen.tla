---------------------------- MODULE MCStoreOpen ----------------------------
\* Two models whose vectors differ in length, 384 and 1024 say.
EXTENDS StoreOpen

CONSTANTS m1, m2

MCDimOf == [m \in Models |-> IF m = m1 THEN 1 ELSE 2]
=============================================================================
