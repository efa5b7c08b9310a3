----------------------------- MODULE ConflictSheet -----------------------------
(***************************************************************************)
(* The sheet in which conflicts are resolved, and the operation that they  *)
(* stopped is continued or aborted: RepositoryStoreViewModel+Conflicts,    *)
(* with GitConflictService, GitMergeService and GitRebaseService.          *)
(*                                                                         *)
(* A cherry-pick behaves like a rebase here: when it is continued it may   *)
(* stop again.  The messages, the merge tool's name, the file that was     *)
(* resolved last and the ways to resolve a file are left out.  The sheet   *)
(* is closed when another repository is selected, but its calls go on, and *)
(* their loads are those of whatever is selected by then.                  *)
(***************************************************************************)
EXTENDS Window, Naturals, FiniteSets

CONSTANTS ConflictPath,      \* the files that may conflict
          MaxStops,          \* bound: how often an operation stops at conflicts
          MaxConflictCalls   \* bound: calls under way

ASSUME ConflictAssumption == /\ IsFiniteSet(ConflictPath) /\ None \notin ConflictPath
                             /\ MaxStops \in Nat /\ MaxConflictCalls \in Nat

VARIABLES unmerged,           \* git: of each repository, its unmerged files
          operation,          \* git: what is in progress
          stops,              \* how often an operation has stopped
          conflictOperation,  \* what the screen shows to be in progress
          isResolvingConflicts, conflictedFiles, initialConflictCount,
          isConflictActionInProgress,
          isContinued,        \* conflictContinueOutcome is success
          conflictCalls,
          strayed             \* history: why conflictedFiles may not be what is unmerged

sheetVars == <<isResolvingConflicts, conflictedFiles, initialConflictCount>>
conflictVars == <<unmerged, operation, stops, conflictOperation, sheetVars,
                  isConflictActionInProgress, isContinued, conflictCalls, strayed>>

Operation == {"merge", "rebase"}

\* A call waits for git, for a refresh (when a rebase has stopped, and in the end),
\* for git status, for its turn with what is listed, or for its success to be seen.
ConflictCall ==
  [kind : {"begin", "resolve", "continue", "abort"},
   at : {"git", "stopped", "refreshing", "listing", "listed", "shown"},
   repo : Repo, path : ConflictPath \cup {None}, operation : Operation \cup {"none"},
   listed : SUBSET ConflictPath]

ConflictTypeOK ==
  /\ unmerged \in [Repo -> SUBSET ConflictPath]
  /\ operation \in [Repo -> Operation \cup {"none"}]
  /\ stops \in 0 .. MaxStops
  /\ conflictOperation \in Operation \cup {"none"}
  /\ isResolvingConflicts \in BOOLEAN
  /\ conflictedFiles \in SUBSET ConflictPath
  /\ initialConflictCount \in 0 .. Cardinality(ConflictPath)
  /\ isConflictActionInProgress \in BOOLEAN /\ isContinued \in BOOLEAN
  /\ conflictCalls \in SUBSET ConflictCall
  /\ strayed \in {"no", "overtaken", "disturbed"}

ConflictInit ==
  /\ selectedRepository = None
  /\ unmerged = [r \in Repo |-> {}] /\ operation = [r \in Repo |-> "none"]
  /\ stops = 0
  /\ conflictOperation = "none"
  /\ isResolvingConflicts = FALSE /\ conflictedFiles = {} /\ initialConflictCount = 0
  /\ isConflictActionInProgress = FALSE /\ isContinued = FALSE
  /\ conflictCalls = {}
  /\ strayed = "no"

\* Faulty variant: an action that is under way does not count.
CanContinue_NoFlag == conflictedFiles = {} /\ initialConflictCount > 0

\* canContinueConflictOperation
CanContinue == ~isConflictActionInProgress /\ conflictedFiles = {} /\ initialConflictCount > 0

-----------------------------------------------------------------------------
\* Git.

\* An operation stops at conflicts in the files S.
StopsAt(r, S) ==
  /\ stops < MaxStops /\ stops' = stops + 1
  /\ S # {} /\ unmerged' = [unmerged EXCEPT ![r] = S]

IsOver(r) ==
  /\ operation' = [operation EXCEPT ![r] = "none"]
  /\ unmerged' = [unmerged EXCEPT ![r] = {}]
  /\ UNCHANGED stops

Resolved(r, p) == unmerged' = [unmerged EXCEPT ![r] = @ \ {p}] /\ UNCHANGED <<operation, stops>>

\* A merge or a rebase begins, here or in a terminal; there the conflicts are resolved
\* as well, and the operation is continued or aborted.
OthersOperate(r) ==
  /\ \/ /\ operation[r] = "none"
        /\ \E S \in SUBSET ConflictPath : StopsAt(r, S)
        /\ \E o \in Operation : operation' = [operation EXCEPT ![r] = o]
     \/ \E p \in unmerged[r] : Resolved(r, p)
     \/ operation[r] # "none" /\ IsOver(r)
  /\ strayed' = IF r = selectedRepository THEN "disturbed" ELSE strayed
  /\ UNCHANGED <<selectedRepository, conflictOperation, sheetVars, isConflictActionInProgress,
                 isContinued, conflictCalls>>

\* What git does for a call.  A merge is committed, and a rebase goes on, when nothing
\* is unmerged; git commit also works in the middle of a rebase.
GitDoes(c) ==
  CASE c.kind = "resolve"  -> Resolved(c.repo, c.path)
    [] c.kind = "abort"    -> c.operation = operation[c.repo] /\ IsOver(c.repo)
    [] c.kind = "continue" -> /\ unmerged[c.repo] = {}
                              /\ \/ c.operation = operation[c.repo] /\ IsOver(c.repo)
                                 \/ c.operation = "merge" /\ operation[c.repo] = "rebase"
                                      /\ UNCHANGED <<unmerged, operation, stops>>

-----------------------------------------------------------------------------

OtherCalls(c) == conflictCalls \ {c}

\* Call c, which is done with git, waits at another place, for r.
GoesTo(c, at, r) ==
  OtherCalls(c) \cup {[c EXCEPT !.at = at, !.repo = r, !.path = None, !.operation = "none"]}

\* loadConflicts of a call up to its await: for the repository that is selected now.
Loads(c) ==
  IF selectedRepository = None
    THEN conflictCalls' = OtherCalls(c) /\ isConflictActionInProgress' = FALSE
    ELSE /\ conflictCalls' = GoesTo(c, "listing", selectedRepository)
         /\ UNCHANGED isConflictActionInProgress

\* No call of C is that of a button.
NoAction(C) == \A c \in C : c.kind = "begin"

\* The user selects another repository: resetPerRepositoryState.  (A call that is under
\* way loses its flag, and the sheet is not to be trusted before it is over.)
SwitchSheet(r) ==
  /\ Selects(r)
  /\ conflictOperation' = "none"
  /\ isResolvingConflicts' = FALSE /\ conflictedFiles' = {} /\ initialConflictCount' = 0
  /\ isConflictActionInProgress' = FALSE /\ isContinued' = FALSE
  /\ strayed' = IF NoAction(conflictCalls) \/ strayed = "disturbed" THEN strayed ELSE "overtaken"
  /\ UNCHANGED <<unmerged, operation, stops, conflictCalls>>

\* A refresh shows what is in progress.
RefreshShows ==
  /\ selectedRepository # None
  /\ conflictOperation' = operation[selectedRepository]
  /\ UNCHANGED <<selectedRepository, unmerged, operation, stops, sheetVars,
                 isConflictActionInProgress, isContinued, conflictCalls, strayed>>

\* beginConflictResolution, by the primary button or at the end of a merge or a rebase
\* that the user has begun, wherever.
BeginConflictResolution ==
  /\ selectedRepository # None /\ Cardinality(conflictCalls) < MaxConflictCalls
  /\ isResolvingConflicts' = TRUE
  /\ conflictCalls' = conflictCalls \cup
       {[kind |-> "begin", at |-> "listing", repo |-> selectedRepository, path |-> None,
         operation |-> "none", listed |-> {}]}
  /\ UNCHANGED <<selectedRepository, unmerged, operation, stops, conflictOperation, conflictedFiles,
                 initialConflictCount, isConflictActionInProgress, isContinued, strayed>>

\* The user closes the sheet.
CancelConflictResolution ==
  /\ isResolvingConflicts
  /\ isResolvingConflicts' = FALSE /\ isContinued' = FALSE
  /\ UNCHANGED <<selectedRepository, unmerged, operation, stops, conflictOperation, conflictedFiles,
                 initialConflictCount, isConflictActionInProgress, conflictCalls, strayed>>

\* A button of the sheet: a file is resolved, or the operation continued or aborted.
BeginAction(kind, p) ==
  /\ isResolvingConflicts /\ Cardinality(conflictCalls) < MaxConflictCalls
  /\ selectedRepository # None /\ ~isConflictActionInProgress
  /\ CASE kind = "resolve"  -> p \in conflictedFiles
       [] kind = "continue" -> p = None /\ CanContinue /\ ~isContinued /\ conflictOperation # "none"
       [] kind = "abort"    -> p = None /\ conflictOperation # "none"
  /\ isConflictActionInProgress' = TRUE
  /\ conflictCalls' = conflictCalls \cup
       {[kind |-> kind, at |-> "git", repo |-> selectedRepository, path |-> p,
         operation |-> conflictOperation, listed |-> {}]}
  /\ UNCHANGED <<selectedRepository, unmerged, operation, stops, conflictOperation, sheetVars,
                 isContinued, strayed>>

\* Faulty variant: the list is not loaded again.
ActionSucceeds_NoReload(c) ==
  /\ c \in conflictCalls /\ c.at = "git"
  /\ GitDoes(c)
  /\ conflictCalls' = OtherCalls(c) /\ isConflictActionInProgress' = FALSE
  /\ isResolvingConflicts' = (isResolvingConflicts /\ c.kind = "resolve")
  /\ UNCHANGED <<selectedRepository, conflictOperation, conflictedFiles, initialConflictCount,
                 isContinued, strayed>>

\* git returns: the list is loaded again; the success of a continue is shown for a
\* while; an abort closes the sheet, and a refresh follows.
ActionSucceeds(c) ==
  /\ c \in conflictCalls /\ c.at = "git"
  /\ GitDoes(c)
  /\ CASE c.kind = "resolve"  -> Loads(c) /\ UNCHANGED <<isResolvingConflicts, isContinued>>
       [] c.kind = "continue" -> /\ conflictCalls' = GoesTo(c, "shown", c.repo)
                                 /\ isContinued' = TRUE
                                 /\ UNCHANGED <<isResolvingConflicts, isConflictActionInProgress>>
       [] c.kind = "abort"    -> /\ conflictCalls' = GoesTo(c, "refreshing", c.repo)
                                 /\ isResolvingConflicts' = FALSE
                                 /\ UNCHANGED <<isContinued, isConflictActionInProgress>>
  /\ UNCHANGED <<selectedRepository, conflictOperation, conflictedFiles, initialConflictCount, strayed>>

\* A rebase that is continued stops at the next conflicts, or has some left: a refresh
\* follows, and the list is loaded again.
ContinueStops(c) ==
  /\ c \in conflictCalls /\ c.at = "git" /\ c.kind = "continue"
  /\ c.operation = "rebase" /\ operation[c.repo] = "rebase"
  /\ \/ unmerged[c.repo] # {} /\ UNCHANGED <<unmerged, stops>>
     \/ unmerged[c.repo] = {} /\ \E S \in SUBSET ConflictPath : StopsAt(c.repo, S)
  /\ isContinued' = FALSE
  /\ conflictCalls' = GoesTo(c, "stopped", c.repo)
  /\ UNCHANGED <<selectedRepository, operation, conflictOperation, sheetVars,
                 isConflictActionInProgress, strayed>>

\* git fails, or is killed when it is done; a message is shown.
ActionFails(c) ==
  /\ c \in conflictCalls /\ c.at = "git"
  /\ \/ GitDoes(c) /\ strayed' = "disturbed"
     \/ UNCHANGED <<unmerged, operation, stops, strayed>>
  /\ conflictCalls' = OtherCalls(c) /\ isConflictActionInProgress' = FALSE
  /\ UNCHANGED <<selectedRepository, conflictOperation, sheetVars, isContinued>>

\* 800 ms later the sheet is closed, whosever it is.
SuccessWasShown(c) ==
  /\ c \in conflictCalls /\ c.at = "shown"
  /\ isResolvingConflicts' = FALSE
  /\ conflictCalls' = GoesTo(c, "refreshing", c.repo)
  /\ UNCHANGED <<selectedRepository, unmerged, operation, stops, conflictOperation, conflictedFiles,
                 initialConflictCount, isConflictActionInProgress, isContinued, strayed>>

\* The refresh of a call is over, or has failed; if the rebase has stopped, the list is
\* loaded.
CallIsRefreshed(c) ==
  /\ c \in conflictCalls
  /\ conflictOperation' \in {conflictOperation} \cup
       IF selectedRepository = None THEN {} ELSE {operation[selectedRepository]}
  /\ \/ c.at = "stopped" /\ Loads(c)
     \/ c.at = "refreshing" /\ conflictCalls' = OtherCalls(c) /\ isConflictActionInProgress' = FALSE
  /\ UNCHANGED <<selectedRepository, unmerged, operation, stops, sheetVars, isContinued, strayed>>

\* git status has read what is unmerged.
FilesAreListed(c) ==
  /\ c \in conflictCalls /\ c.at = "listing"
  /\ conflictCalls' = OtherCalls(c) \cup {[c EXCEPT !.at = "listed", !.listed = unmerged[c.repo]]}
  /\ UNCHANGED <<selectedRepository, unmerged, operation, stops, conflictOperation, sheetVars,
                 isConflictActionInProgress, isContinued, strayed>>

\* The call ends: only the calls of the buttons hold the flag.
Ends(c) ==
  /\ conflictCalls' = OtherCalls(c)
  /\ isConflictActionInProgress' = (isConflictActionInProgress /\ c.kind = "begin")

\* loadConflicts goes on with what was listed, whatever is selected by now.  The count
\* begins anew with the sheet, and when a rebase has stopped.
FilesAreLoaded(c) ==
  /\ c \in conflictCalls /\ c.at = "listed"
  /\ conflictedFiles' = c.listed
  /\ initialConflictCount' = IF c.kind = "resolve" THEN initialConflictCount ELSE Cardinality(c.listed)
  /\ strayed' = IF /\ c.repo = selectedRepository /\ c.listed = unmerged[c.repo]
                   /\ NoAction(OtherCalls(c)) THEN "no"
                ELSE IF strayed = "disturbed" THEN strayed ELSE "overtaken"
  /\ Ends(c)
  /\ UNCHANGED <<selectedRepository, unmerged, operation, stops, conflictOperation,
                 isResolvingConflicts, isContinued>>

\* git status fails: the list stays what it was.
LoadFails(c) ==
  /\ c \in conflictCalls /\ c.at = "listing"
  /\ strayed' = "disturbed"
  /\ Ends(c)
  /\ UNCHANGED <<selectedRepository, unmerged, operation, stops, conflictOperation, sheetVars,
                 isContinued>>

\* 1.2 s after it was signalled, the success is cleared.
OutcomeClears ==
  /\ isContinued /\ isContinued' = FALSE
  /\ UNCHANGED <<selectedRepository, unmerged, operation, stops, conflictOperation, sheetVars,
                 isConflictActionInProgress, conflictCalls, strayed>>

ConflictNext ==
  \/ \E r \in Repo : OthersOperate(r)
  \/ \E r \in Repo \cup {None} : SwitchSheet(r)
  \/ RefreshShows \/ BeginConflictResolution \/ CancelConflictResolution \/ OutcomeClears
  \/ \E p \in ConflictPath : BeginAction("resolve", p)
  \/ \E kind \in {"continue", "abort"} : BeginAction(kind, None)
  \/ \E c \in conflictCalls :
       \/ ActionSucceeds(c) \/ ContinueStops(c) \/ ActionFails(c)
       \/ SuccessWasShown(c) \/ CallIsRefreshed(c)
       \/ FilesAreListed(c) \/ FilesAreLoaded(c) \/ LoadFails(c)

ConflictSpec == ConflictInit /\ [][ConflictNext]_<<selectedRepository, conflictVars>>

-----------------------------------------------------------------------------

ConflictIsQuiet == isResolvingConflicts /\ conflictCalls = {}

ListIsUnmerged == conflictedFiles = unmerged[selectedRepository]

\* When no call is under way, the list of an open sheet is what is unmerged in the
\* selected repository, unless somebody else has resolved or stopped something, git
\* or a load has failed, or a load came late, or after another one was selected.
ListFollowsGit == ConflictIsQuiet /\ strayed = "no" => ListIsUnmerged

\* The button that continues, and "All conflicts resolved.", are shown only when
\* nothing is unmerged, with the same exceptions, also while calls are under way:
\* between the next stop of a rebase and the load of its list.
ContinueMeansResolved ==
  CanContinue /\ selectedRepository # None /\ strayed = "no" => unmerged[selectedRepository] = {}

\* "conflictedFiles is the live unresolved set" (RepositoryStoreViewModel.swift:98):
\* no load that came late or after a switch is what the sheet shows in the end.
ListIsLive == ConflictIsQuiet /\ strayed # "disturbed" => ListIsUnmerged

\* "The user can resume from the primary action button" (RepositoryStoreViewModel+
\* Conflicts.swift:54): when everything is resolved, the sheet that it opens can
\* continue.
ResumeIsPossible ==
  /\ ConflictIsQuiet /\ strayed = "no" /\ conflictOperation # "none"
  /\ conflictOperation = operation[selectedRepository] /\ unmerged[selectedRepository] = {}
  => CanContinue
=============================================================================
