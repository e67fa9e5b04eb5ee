------------------------------ MODULE MC_Moby -------------------------------
EXTENDS Moby, TLC

CONSTANTS c1, c2, c3, f1

\* Three IDs for ghost containers (this run's, and as many earlier ones as
\* can be left beside it plus one) and one container of another image.
MC_Ids == {c1, c2, c3, f1}
MC_Foreign == {f1}

\* The ghost IDs are interchangeable: the daemon hands out any free one.
MC_Symmetry == Permutations({c1, c2, c3})
=============================================================================
