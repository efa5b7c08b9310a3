------------------------ MODULE MCRepositoryOperations ------------------------
(***************************************************************************)
(* Instances of RepositoryOperations for TLC.                              *)
(***************************************************************************)
EXTENDS RepositoryOperations, TLC

CONSTANTS r1, r2, o1, o2, o3

Symmetry == Permutations(Repo) \cup Permutations(Operation)
=============================================================================
