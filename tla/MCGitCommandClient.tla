------------------------- MODULE MCGitCommandClient -------------------------
(***************************************************************************)
(* Instances of GitCommandClient for TLC.                                  *)
(***************************************************************************)
EXTENDS GitCommandClient, TLC

CONSTANTS c1, c2

CommandSymmetry == Permutations(Command)
=============================================================================
