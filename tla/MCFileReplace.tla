--------------------------- MODULE MCFileReplace ---------------------------
(***************************************************************************)
(* The symmetry of FileReplace's processes and names.                      *)
(***************************************************************************)
EXTENDS FileBackups, TLC

Symmetry == Permutations(Names) \cup Permutations(Procs)
=============================================================================
