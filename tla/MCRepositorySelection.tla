------------------------ MODULE MCRepositorySelection ------------------------
(***************************************************************************)
(* Instances of RepositorySelection for TLC.                               *)
(***************************************************************************)
EXTENDS RepositorySelection, TLC

CONSTANTS r1, r2

RepoSymmetry == Permutations(Repo)
=============================================================================
