---------------------------- MODULE Repositories ----------------------------
(***************************************************************************)
(* The repositories, which most modules have in common.                    *)
(***************************************************************************)
CONSTANTS Repo,  \* the repositories
          None   \* no repository

ASSUME RepositoriesAssumption == None \notin Repo
=============================================================================
