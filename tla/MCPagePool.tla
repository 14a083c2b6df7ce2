----------------------------- MODULE MCPagePool -----------------------------
EXTENDS PagePool, TLC

\* The rows are interchangeable.
RowSymmetry == Permutations(Rows)
=============================================================================
