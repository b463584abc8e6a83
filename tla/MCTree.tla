------------------------------- MODULE MCTree -------------------------------
EXTENDS TreeProperties, TLC

\* A dataset for the hierarchy only (mountpoint none) with a child, and a
\* dataset beside it.
MCKids == {<<"usr">>, <<"usr", "local">>}
MCUnmanaged == {<<"usr">>}
MCNames == {<<e>> \o k : e \in Envs, k \in Paths}

\* Three environments and two child datasets among them, or two and three; one
\* dataset less after a failing call.
FewDatasets == Cardinality(fs) + faults <= 5

Symmetry == Permutations(Envs) \cup Permutations(Suffixes)
=============================================================================
