------------------------------- MODULE MCPanels -------------------------------
(***************************************************************************)
(* The panels of the main window for TLC.  A behaviour exercises one of    *)
(* them, the one that it was begun with, and leaves the others alone.      *)
(* Every property is about one panel, and what a panel does in the window  *)
(* is what it does alone (WindowIsItsPanels in GitPanels_proofs).          *)
(***************************************************************************)
EXTENDS MainWindow, TLC

CONSTANTS r1, r2, p1, p2, b1, c1   \* p1 and p2 name the paths, the files and the stashes

VARIABLE panel

PanelSymmetry == Permutations(Repo) \cup Permutations(Path)

ThreeHistories == {<<>>, <<2, 1>>, <<3, 2, 1>>}
FilesOfThree   == <<<<"f">>, <<"f", "g">>, <<>>>>

Panels == {"commit", "diff", "history", "stash", "branches", "conflicts"}

PanelInit == panel \in Panels /\ WindowInit

PanelNext ==
  /\ UNCHANGED panel
  /\ \/ panel = "commit" /\ CommitActs
     \/ panel = "diff" /\ DiffActs
     \/ panel = "history" /\ HistoryActs
     \/ panel = "stash" /\ StashActs
     \/ panel = "branches" /\ BranchesActs
     \/ panel = "conflicts" /\ SheetActs

PanelSpec == PanelInit /\ [][PanelNext]_<<panel, windowVars>>

\* What the docs and the comments say of the panels: the files of a commit are those of
\* the anchor (HistoryHandler.swift:8), the stash that is dropped is the one that was
\* named (StashManagementViewController.swift:276), no list of branches is that of
\* another repository (docs/queue/bugs.md:303), the list of conflicts is the live set
\* (RepositoryStoreViewModel.swift:98), and a conflicted operation can be resumed
\* (RepositoryStoreViewModel+Conflicts.swift:54).
PanelsAreTrue ==
  FilesAreOfAnchor /\ ChosenStashIsDropped /\ ListIsOfRepository /\ ListIsLive /\ ResumeIsPossible
================================================================================
