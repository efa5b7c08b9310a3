-------------------------------- MODULE Window --------------------------------
(***************************************************************************)
(* The repository that is selected in the window: all that its panels      *)
(* have in common.  RepositorySelection has the whole of a selection; for  *)
(* a panel it is one step, in which resetPerRepositoryState resets it.     *)
(***************************************************************************)
EXTENDS Repositories

VARIABLE selectedRepository

\* Another repository is selected, or the selected one forgotten.
Selects(r) == selectedRepository # r /\ selectedRepository' = r
===============================================================================
