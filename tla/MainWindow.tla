------------------------------ MODULE MainWindow ------------------------------
(***************************************************************************)
(* The main window: the panels side by side.  What they have in common is  *)
(* the repository that is selected.  When another one is, or it is         *)
(* removed, resetPerRepositoryState resets all of them in one step;        *)
(* otherwise each goes on by itself, and their steps interleave.           *)
(*                                                                         *)
(* Of a repository each panel has the part that it shows (changes and      *)
(* history, stashes, branches, unmerged files), and what the panels ask    *)
(* git to do concerns the part of another panel only as what somebody else *)
(* does there.  So does a refresh that fills several of them, one after    *)
(* the other.                                                              *)
(***************************************************************************)
EXTENDS CommitFlow, DiffPanel, HistoryPanel, StashPanels, BranchesPanel, ConflictSheet

\* commitPanel is all of the commit form but the repository that is selected.
commitPanel == <<git, commits, changedFiles, hasUnresolvedConflicts, checkedPaths,
                 form, outcome, committing, undoing>>

windowVars == <<selectedRepository, commitPanel, diffVars, historyVars, stashVars,
                branchVars, conflictVars>>

WindowInit ==
  /\ GitInit([r \in Repo |-> <<>>]) /\ CommitInit
  /\ DiffInit /\ HistoryInit /\ StashInit
  /\ BranchesInit /\ ConflictInit

\* Another repository is selected, or the selected one is removed.
SwitchRepository(r) ==
  /\ SelectRepository(r) /\ UNCHANGED git
  /\ SwitchDiff(r) /\ SwitchHistory(r) /\ SwitchStash(r)
  /\ SwitchBranches(r) /\ SwitchSheet(r)

CommitActs == CommitNext /\ UNCHANGED <<diffVars, historyVars, stashVars, branchVars, conflictVars>>
DiffActs == DiffNext /\ UNCHANGED <<commitPanel, historyVars, stashVars, branchVars, conflictVars>>
HistoryActs == HistoryNext /\ UNCHANGED <<commitPanel, diffVars, stashVars, branchVars, conflictVars>>
StashActs == StashNext /\ UNCHANGED <<commitPanel, diffVars, historyVars, branchVars, conflictVars>>
BranchesActs == BranchesNext /\ UNCHANGED <<commitPanel, diffVars, historyVars, stashVars, conflictVars>>
SheetActs == ConflictNext /\ UNCHANGED <<commitPanel, diffVars, historyVars, stashVars, branchVars>>

WindowNext ==
  \/ \E r \in Repo \cup {None} : SwitchRepository(r)
  \/ /\ UNCHANGED selectedRepository
     /\ \/ CommitActs \/ DiffActs \/ HistoryActs
        \/ StashActs \/ BranchesActs \/ SheetActs

WindowSpec == WindowInit /\ [][WindowNext]_windowVars

-----------------------------------------------------------------------------

\* The type invariant: every panel has its own.
PanelTypeOK ==
  /\ CommitTypeOK /\ DiffTypeOK /\ HistoryTypeOK
  /\ StashTypeOK /\ BranchesTypeOK /\ ConflictTypeOK
=============================================================================
