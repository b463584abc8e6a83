------------------------------ MODULE MCZectl ------------------------------
EXTENDS ZectlProperties, TLC

Symmetry == Permutations(Names) \cup Permutations(Suffixes) \cup Permutations(Procs)
=============================================================================
