--------------------------- MODULE MCSystemdBoot ---------------------------
(***************************************************************************)
(* SystemdBoot for TLC: the names are interchangeable.                     *)
(***************************************************************************)
EXTENDS SystemdBoot, TLC

Symmetry == Permutations(Names)
=============================================================================
