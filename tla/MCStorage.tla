----------------------------- MODULE MCStorage ------------------------------
EXTENDS Storage

CONSTANTS fa, fb, da, db, d1, d2

MCSize == [d \in Data |-> IF d = d1 THEN 1 ELSE 2]

Names == Permutations({fa, fb}) \cup Permutations({da, db})
=============================================================================
