------------------------------ MODULE MCStorage ------------------------------
EXTENDS Storage, TLC

TwoStatuses == {"downloading", "completed"}
TwoIndexes == {0, 1}
TwoBytes == {0, 2}
NoBytes == {0}
CallerSymmetry == Permutations(Callers)
=============================================================================
