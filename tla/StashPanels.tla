------------------------------ MODULE StashPanels ------------------------------
(***************************************************************************)
(* The stashes: the panel of the window, which shows the newest one and    *)
(* restores or discards it (applyStash, dropStash and stashAllChanges of   *)
(* RepositoryStoreViewModel), and the sheet that lists them all            *)
(* (StashManagementViewModel).  Git names a stash by its position, and so  *)
(* do both of them: the panel takes the newest one there is, the sheet     *)
(* the position that the stash had when the list was read.                 *)
(*                                                                         *)
(* What is kept of an operation is what becomes of the stashes, not of the *)
(* working tree.  The messages and their resets are left out.              *)
(***************************************************************************)
EXTENDS Window, Naturals, SequencesExt

CONSTANTS Stash,    \* the stashes; each is made once
          MaxCalls  \* bound: the calls of the panel and the sheets under way

ASSUME StashAssumption == None \notin Stash /\ MaxCalls \in Nat

VARIABLES stack,       \* git: of each repository, its stashes, newest first
          stashEntry,  \* what the panel shows
          isWorkingTreeMutationInProgress,
          panelOps,    \* the calls of applyStash, dropStash and stashAllChanges
          sheet,       \* the sheet that is open, with its action
          leftOver,    \* actions of sheets that were closed
          disturbed,   \* history: since the sheet is open, its list may not be the stack
          mistaken     \* history: the stashes that were dropped instead of others

stashVars == <<stack, stashEntry, isWorkingTreeMutationInProgress, panelOps, sheet, leftOver,
               disturbed, mistaken>>

Closed == [at |-> "closed"]
Kind == {"apply", "pop", "drop"}

PanelOp == [kind : {"pop", "drop", "push"}, at : {"git", "refreshing"}, repo : Repo,
            chosen : Stash \cup {None}]
SheetAction == [kind : Kind, repo : Repo, position : Nat \ {0}, chosen : Stash]

StashTypeOK ==
  /\ stack \in [Repo -> Seq(Stash)] /\ \A r \in Repo : IsInjective(stack[r])
  /\ stashEntry \in Stash \cup {None}
  /\ isWorkingTreeMutationInProgress \in BOOLEAN
  /\ panelOps \in SUBSET PanelOp
  /\ sheet \in {Closed} \cup [at : {"loading", "idle", "reloading"}, repo : Repo, list : Seq(Stash)]
                 \cup [at : {"acting"}, repo : Repo, list : Seq(Stash), action : SheetAction]
  /\ leftOver \in SUBSET SheetAction
  /\ disturbed \in BOOLEAN
  /\ mistaken \in SUBSET Stash

StashInit ==
  /\ selectedRepository = None
  /\ stack = [r \in Repo |-> <<>>]
  /\ stashEntry = None
  /\ isWorkingTreeMutationInProgress = FALSE
  /\ panelOps = {}
  /\ sheet = Closed
  /\ leftOver = {}
  /\ disturbed = FALSE
  /\ mistaken = {}

calls == Cardinality(panelOps) + Cardinality(leftOver) + IF sheet.at = "acting" THEN 1 ELSE 0

-----------------------------------------------------------------------------
\* Git.  Drop counts a stash that was not the chosen one.

IsNew(s) == \A r \in Repo : s \notin Range(stack[r]) \cup mistaken

Push(r, s) == IsNew(s) /\ stack' = [stack EXCEPT ![r] = <<s>> \o @] /\ UNCHANGED mistaken

\* Pop and drop take the stash at a position off the stack, if there is one.
TakeOff(r, i, kind, chosen) ==
  /\ i \in DOMAIN stack[r]
  /\ stack' = [stack EXCEPT ![r] = RemoveAt(@, i)]
  /\ mistaken' = IF kind = "drop" /\ stack[r][i] # chosen THEN mistaken \cup {stack[r][i]} ELSE mistaken

\* Whoever else changes the stack of the sheet's repository disturbs it.
Disturbs(r) == disturbed' = (disturbed \/ (sheet # Closed /\ sheet.repo = r /\ stack' # stack))

\* git stash in a terminal.
OthersStash(r) ==
  /\ \/ \E s \in Stash : Push(r, s)
     \/ TakeOff(r, 1, "pop", None)
  /\ Disturbs(r)
  /\ UNCHANGED <<selectedRepository, stashEntry, isWorkingTreeMutationInProgress, panelOps, sheet,
                 leftOver>>

-----------------------------------------------------------------------------
\* The panel.

Newest(r) == IF stack[r] = <<>> THEN None ELSE stack[r][1]

\* The end of a refresh fetches the newest stash, or fails.
StashIsFetched ==
  /\ selectedRepository # None
  /\ stashEntry' \in {Newest(selectedRepository), None}
  /\ UNCHANGED <<selectedRepository, stack, isWorkingTreeMutationInProgress, panelOps, sheet,
                 leftOver, disturbed, mistaken>>

\* resetPerRepositoryState
SwitchStash(r) ==
  /\ Selects(r)
  /\ stashEntry' = None
  /\ isWorkingTreeMutationInProgress' = FALSE
  /\ UNCHANGED <<stack, panelOps, sheet, leftOver, disturbed, mistaken>>

isStashOperationInProgress == \E o \in panelOps : o.kind # "push"

\* Restore, Discard, and Stash All Changes.
BeginPanelOp(kind) ==
  /\ calls < MaxCalls
  /\ selectedRepository # None
  /\ ~isWorkingTreeMutationInProgress
  /\ kind # "push" => stashEntry # None /\ ~isStashOperationInProgress
  /\ isWorkingTreeMutationInProgress' = TRUE
  /\ panelOps' = panelOps \cup {[kind |-> kind, at |-> "git", repo |-> selectedRepository,
                                 chosen |-> IF kind = "push" THEN None ELSE stashEntry]}
  /\ UNCHANGED <<selectedRepository, stack, stashEntry, sheet, leftOver, disturbed, mistaken>>

PanelEffect(o) ==
  /\ IF o.kind = "push" THEN \E s \in Stash : Push(o.repo, s) ELSE TakeOff(o.repo, 1, o.kind, o.chosen)
  /\ Disturbs(o.repo)

\* git returns; a refresh follows, which does not wait for the stash.  (With nothing
\* to stash, git succeeds too.)
PanelOpSucceeds(o) ==
  /\ o \in panelOps /\ o.at = "git"
  /\ PanelEffect(o) \/ (o.kind = "push" /\ UNCHANGED <<stack, disturbed, mistaken>>)
  /\ panelOps' = (panelOps \ {o}) \cup {[o EXCEPT !.at = "refreshing"]}
  /\ UNCHANGED <<selectedRepository, stashEntry, isWorkingTreeMutationInProgress, sheet, leftOver>>

\* It fails, or is killed when it is done.
PanelOpFails(o) ==
  /\ o \in panelOps /\ o.at = "git"
  /\ PanelEffect(o) \/ UNCHANGED <<stack, disturbed, mistaken>>
  /\ panelOps' = panelOps \ {o}
  /\ isWorkingTreeMutationInProgress' = FALSE
  /\ UNCHANGED <<selectedRepository, stashEntry, sheet, leftOver>>

\* The refresh is over.
PanelOpReturns(o) ==
  /\ o \in panelOps /\ o.at = "refreshing"
  /\ panelOps' = panelOps \ {o}
  /\ isWorkingTreeMutationInProgress' = FALSE
  /\ UNCHANGED <<selectedRepository, stack, stashEntry, sheet, leftOver, disturbed, mistaken>>

-----------------------------------------------------------------------------
\* The sheet, with a view model of its own.

OpenSheet ==
  /\ sheet = Closed /\ selectedRepository # None
  /\ sheet' = [at |-> "loading", repo |-> selectedRepository, list |-> <<>>]
  /\ UNCHANGED <<selectedRepository, stack, stashEntry, isWorkingTreeMutationInProgress, panelOps,
                 leftOver, disturbed, mistaken>>

\* load is over.  If it fails the list stays as it was.
SheetIsLoaded(isRead) ==
  /\ sheet.at \in {"loading", "reloading"}
  /\ sheet' = [at |-> "idle", repo |-> sheet.repo,
               list |-> IF isRead THEN stack[sheet.repo] ELSE sheet.list]
  /\ disturbed' = ((disturbed /\ ~isRead) \/ sheet'.list # stack[sheet.repo])
  /\ UNCHANGED <<selectedRepository, stack, stashEntry, isWorkingTreeMutationInProgress, panelOps,
                 leftOver, mistaken>>

\* perform, for the stash in a row of the list.
BeginSheetAction(kind, row) ==
  /\ calls < MaxCalls
  /\ sheet.at = "idle" /\ row \in DOMAIN sheet.list
  /\ sheet' = [at |-> "acting", repo |-> sheet.repo, list |-> sheet.list,
               action |-> [kind |-> kind, repo |-> sheet.repo, position |-> row,
                           chosen |-> sheet.list[row]]]
  /\ UNCHANGED <<selectedRepository, stack, stashEntry, isWorkingTreeMutationInProgress, panelOps,
                 leftOver, disturbed, mistaken>>

SheetEffect(a) ==
  IF a.kind = "apply" THEN a.position \in DOMAIN stack[a.repo] /\ UNCHANGED <<stack, mistaken>>
                      ELSE TakeOff(a.repo, a.position, a.kind, a.chosen)

\* Faulty variant: the list is not loaded again before the next action.
SheetActionSucceeds_NoReload ==
  /\ sheet.at = "acting"
  /\ SheetEffect(sheet.action)
  /\ sheet' = [at |-> "idle", repo |-> sheet.repo, list |-> sheet.list]
  /\ UNCHANGED <<selectedRepository, stashEntry, isWorkingTreeMutationInProgress, panelOps,
                 leftOver, disturbed>>

\* git returns; activeAction stays until the list is loaded again.
SheetActionSucceeds ==
  /\ sheet.at = "acting"
  /\ SheetEffect(sheet.action)
  /\ sheet' = [at |-> "reloading", repo |-> sheet.repo, list |-> sheet.list]
  /\ UNCHANGED <<selectedRepository, stashEntry, isWorkingTreeMutationInProgress, panelOps,
                 leftOver, disturbed>>

\* It fails, or is killed when it is done; the list is not loaded.
SheetActionFails ==
  /\ sheet.at = "acting"
  /\ \/ SheetEffect(sheet.action) /\ disturbed' = (disturbed \/ stack' # stack)
     \/ UNCHANGED <<stack, mistaken, disturbed>>
  /\ sheet' = [at |-> "idle", repo |-> sheet.repo, list |-> sheet.list]
  /\ UNCHANGED <<selectedRepository, stashEntry, isWorkingTreeMutationInProgress, panelOps, leftOver>>

\* Done: an action that is under way goes on.
CloseSheet ==
  /\ sheet # Closed
  /\ leftOver' = IF sheet.at = "acting" THEN leftOver \cup {sheet.action} ELSE leftOver
  /\ sheet' = Closed
  /\ disturbed' = FALSE
  /\ UNCHANGED <<selectedRepository, stack, stashEntry, isWorkingTreeMutationInProgress, panelOps,
                 mistaken>>

\* It ends, with or without an effect.
LeftOverEnds(a) ==
  /\ a \in leftOver
  /\ \/ SheetEffect(a) /\ Disturbs(a.repo)
     \/ UNCHANGED <<stack, mistaken, disturbed>>
  /\ leftOver' = leftOver \ {a}
  /\ UNCHANGED <<selectedRepository, stashEntry, isWorkingTreeMutationInProgress, panelOps, sheet>>

StashNext ==
  \/ \E r \in Repo : OthersStash(r)
  \/ \E r \in Repo \cup {None} : SwitchStash(r)
  \/ StashIsFetched
  \/ \E kind \in {"pop", "drop", "push"} : BeginPanelOp(kind)
  \/ \E o \in panelOps : PanelOpSucceeds(o) \/ PanelOpFails(o) \/ PanelOpReturns(o)
  \/ OpenSheet \/ CloseSheet
  \/ \E isRead \in BOOLEAN : SheetIsLoaded(isRead)
  \/ sheet.at = "idle" /\ \E kind \in Kind, row \in DOMAIN sheet.list : BeginSheetAction(kind, row)
  \/ SheetActionSucceeds \/ SheetActionFails
  \/ \E a \in leftOver : LeftOverEnds(a)

StashSpec == StashInit /\ [][StashNext]_<<selectedRepository, stashVars>>

-----------------------------------------------------------------------------

\* Action after action, the list of the sheet is the stack whose positions it names,
\* unless somebody else changes the stack, a load fails or git is killed too late.
SheetIsInStep ==
  sheet.at = "idle" /\ ~disturbed => sheet.list = stack[sheet.repo]

\* What is dropped is the stash that the panel or the sheet showed: "... will be
\* permanently removed" names it (StashManagementViewController.swift:276).
ChosenStashIsDropped == mistaken = {}
================================================================================
