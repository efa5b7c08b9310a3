------------------------------ MODULE CommitFlow ------------------------------
(***************************************************************************)
(* Making a commit: the form and the list of changed files, commitChanges, *)
(* undoCommit and toggleAmendMode of RepositoryStoreViewModel, the staging *)
(* of GitCommitProvider, and the outcome that clears itself.               *)
(*                                                                         *)
(* All of it lives on the main actor: a step is what runs from one await   *)
(* to the next.  The form is one for all repositories, and selecting       *)
(* another one resets it, but a commit that is under way goes on.          *)
(*                                                                         *)
(* Of the texts in the form only this is kept: whether the summary is      *)
(* blank.  Which paths are unmerged is not modelled; whether the screen    *)
(* shows any is what a refresh happens to find.                            *)
(***************************************************************************)
EXTENDS GitRepository, Window

CONSTANT MaxUndos   \* bound: calls of undoCommit under way in a repository

ASSUME CommitAssumption == MaxUndos \in Nat

VARIABLES commits,       \* the history that the screen shows
          changedFiles, hasUnresolvedConflicts,
          checkedPaths,
          hasSummary,    \* trimmedSummary is not empty
          isAmendMode,
          commitOutcome,
          resetTask,     \* the task that clears it, commitOutcomeResetTask
          lateReset,     \* one that was replaced when its sleep was over
          committing,    \* the call of commitChanges, which isCommitting keeps one
          undoing        \* of each repository: calls of undoCommit

screen  == <<selectedRepository, commits, changedFiles, hasUnresolvedConflicts, checkedPaths>>
form    == <<hasSummary, isAmendMode>>
outcome == <<commitOutcome, resetTask, lateReset>>
commitVars == <<screen, form, outcome, committing, undoing>>

Idle == [at |-> "none"]

CommitCall ==
  [at : {"staging", "committing", "grace", "refreshing"}, repo : Repo, amend : BOOLEAN,
   paths : SUBSET Path, left : SUBSET Path, failed : BOOLEAN]

\* The type invariant, git's part included.
CommitTypeOK ==
  /\ GitTypeOK
  /\ selectedRepository \in Repo \cup {None}
  /\ commits \in Seq(SUBSET Path)
  /\ changedFiles \in SUBSET Path /\ hasUnresolvedConflicts \in BOOLEAN
  /\ checkedPaths \in SUBSET changedFiles
  /\ hasSummary \in BOOLEAN /\ isAmendMode \in BOOLEAN
  /\ commitOutcome \in {"none", "success", "failure"}
  /\ resetTask \in {"none", "sleeping", "due"} /\ lateReset \in BOOLEAN
  /\ committing \in {Idle} \cup CommitCall
  /\ undoing \in [Repo -> 0 .. MaxUndos]

CommitInit ==
  /\ selectedRepository = None
  /\ commits = <<>>
  /\ changedFiles = {} /\ hasUnresolvedConflicts = FALSE
  /\ checkedPaths = {}
  /\ hasSummary = FALSE /\ isAmendMode = FALSE
  /\ commitOutcome = "none" /\ resetTask = "none" /\ lateReset = FALSE
  /\ committing = Idle
  /\ undoing = [r \in Repo |-> 0]

isCommitting == committing.at # "none"

-----------------------------------------------------------------------------

\* signalCommitOutcome.  Cancelling a task whose sleep is over changes nothing:
\* it will still reset the outcome, whosever that is.
SignalCommitOutcome(o) ==
  /\ commitOutcome' = o
  /\ resetTask' = "sleeping"
  /\ lateReset' = (lateReset \/ resetTask = "due")

\* resetOperationOutcomes
ResetOutcomes ==
  /\ commitOutcome' = "none"
  /\ resetTask' = "none"
  /\ lateReset' = (lateReset \/ resetTask = "due")

ResetForm == hasSummary' = FALSE /\ isAmendMode' = FALSE

\* A refresh shows the selected repository, and checks every path of it.
ShowScreen ==
  /\ commits' = log[selectedRepository]
  /\ changedFiles' = changed[selectedRepository]
  /\ checkedPaths' = changed[selectedRepository]
  /\ hasUnresolvedConflicts' \in IF changed[selectedRepository] = {} THEN {FALSE} ELSE BOOLEAN
  /\ UNCHANGED selectedRepository

\* canCommitChanges
CanCommitChanges ==
  /\ ~isCommitting
  /\ selectedRepository # None
  /\ ~hasUnresolvedConflicts
  /\ isAmendMode \/ checkedPaths # {}
  /\ hasSummary

-----------------------------------------------------------------------------

\* Faulty variant: the checked paths stay.
SelectRepository_KeepsChecked(r) ==
  /\ Selects(r)
  /\ commits' = <<>> /\ changedFiles' = {} /\ hasUnresolvedConflicts' = FALSE
  /\ ResetForm
  /\ ResetOutcomes
  /\ UNCHANGED <<checkedPaths, committing, undoing>>

\* The user selects another repository, or removes the one that is selected.
SelectRepository(r) ==
  /\ Selects(r)
  /\ commits' = <<>> /\ changedFiles' = {} /\ hasUnresolvedConflicts' = FALSE
  /\ checkedPaths' = {}
  /\ ResetForm
  /\ ResetOutcomes
  /\ UNCHANGED <<committing, undoing>>

\* Whatever has refreshed the screen: a selection, the user, an operation.
RefreshReturns ==
  /\ selectedRepository # None
  /\ ShowScreen
  /\ UNCHANGED <<form, outcome, committing, undoing>>

\* toggle, or selectAll and deselectAll
Check(S) ==
  /\ selectedRepository # None
  /\ S \subseteq changedFiles
  /\ checkedPaths' = S
  /\ UNCHANGED <<selectedRepository, commits, changedFiles, hasUnresolvedConflicts,
                 form, outcome, committing, undoing>>

\* The user types or erases the summary.
Type ==
  /\ hasSummary' = ~hasSummary
  /\ UNCHANGED <<screen, isAmendMode, outcome, committing, undoing>>

\* toggleAmendMode: if there is a commit to amend, the reset that makes room for
\* its message takes the mode back.
ToggleAmendMode ==
  /\ IF ~isAmendMode /\ commits # <<>>
       THEN hasSummary' = TRUE /\ isAmendMode' = FALSE
       ELSE isAmendMode' = ~isAmendMode /\ UNCHANGED hasSummary
  /\ UNCHANGED <<screen, outcome, committing, undoing>>

\* commitChanges up to its first await; without a path git commit comes first.
BeginCommit ==
  /\ CanCommitChanges
  /\ commitOutcome # "success"
  /\ committing' = [at     |-> IF checkedPaths = {} THEN "committing" ELSE "staging",
                    repo   |-> selectedRepository, amend |-> isAmendMode,
                    paths  |-> checkedPaths, left |-> checkedPaths, failed |-> FALSE]
  /\ UNCHANGED <<screen, form, outcome, undoing>>

\* The click's task finds that a commit is not possible any more.
RejectCommit ==
  /\ ~isCommitting /\ ~CanCommitChanges
  /\ SignalCommitOutcome("failure")
  /\ UNCHANGED <<screen, form, committing, undoing>>

\* Faulty variant: what could be staged is committed.
StagingGoesOn_Partial(left, failed) ==
  /\ committing' = [committing EXCEPT !.at = IF left = {} THEN "committing" ELSE @,
                                      !.left = left, !.failed = failed]
  /\ UNCHANGED outcome

\* The next path is staged; after the last one git commit follows, unless a path
\* has failed.
StagingGoesOn(left, failed) ==
  IF left = {} /\ failed
    THEN committing' = Idle /\ SignalCommitOutcome("failure")
    ELSE /\ committing' = [committing EXCEPT !.at = IF left = {} THEN "committing" ELSE @,
                                             !.left = left, !.failed = failed]
         /\ UNCHANGED outcome

\* git add returns for a path.
StageSucceeds(p) ==
  /\ committing.at = "staging" /\ p \in committing.left
  /\ Add(committing.repo, p)
  /\ StagingGoesOn(committing.left \ {p}, committing.failed)
  /\ UNCHANGED <<screen, form, undoing>>

\* It fails, or is killed when it has staged the path.
StageFails(p) ==
  /\ committing.at = "staging" /\ p \in committing.left
  /\ Add(committing.repo, p) \/ UNCHANGED git
  /\ StagingGoesOn(committing.left \ {p}, TRUE)
  /\ UNCHANGED <<screen, form, undoing>>

\* What git commit does, in the way that was chosen when the call began.
GitCommits ==
  IF committing.amend THEN AmendCommit(committing.repo)
                      ELSE CommitSet(committing.repo, staged[committing.repo])

\* git commit returns.
CommitSucceeds ==
  /\ committing.at = "committing"
  /\ GitCommits
  /\ committing' = [committing EXCEPT !.at = "grace"]
  /\ SignalCommitOutcome("success")
  /\ UNCHANGED <<screen, form, undoing>>

\* It fails, or is killed when it has committed, in a hook that follows.
CommitFails ==
  /\ committing.at = "committing"
  /\ GitCommits \/ UNCHANGED git
  /\ committing' = Idle
  /\ SignalCommitOutcome("failure")
  /\ UNCHANGED <<screen, form, undoing>>

\* 650 ms later the form is reset, whosever draft it holds by now, and the screen
\* is refreshed.
GraceEnds ==
  /\ committing.at = "grace"
  /\ IF commitOutcome = "success" THEN ResetForm ELSE UNCHANGED form
  /\ committing' = IF selectedRepository = None THEN Idle
                                                ELSE [committing EXCEPT !.at = "refreshing"]
  /\ UNCHANGED <<git, screen, outcome, undoing>>

\* The refresh is over, with or without success: isCommitting ends.
CommitReturns ==
  /\ committing.at = "refreshing"
  /\ committing' = Idle
  /\ (selectedRepository # None /\ ShowScreen) \/ UNCHANGED screen
  /\ UNCHANGED <<git, form, outcome, undoing>>

\* undoCommit; the button asks for no commit under way, but not for no undo.
BeginUndo ==
  /\ ~isCommitting /\ selectedRepository # None /\ commits # <<>>
  /\ undoing[selectedRepository] < MaxUndos
  /\ undoing' = [undoing EXCEPT ![selectedRepository] = @ + 1]
  /\ UNCHANGED <<git, screen, form, outcome, committing>>

\* git reset returns, or fails.  (The refresh that follows is RefreshReturns.)
UndoReturns(r) ==
  /\ undoing[r] > 0
  /\ undoing' = [undoing EXCEPT ![r] = @ - 1]
  /\ ResetSoft(r) \/ UNCHANGED git
  /\ UNCHANGED <<screen, form, outcome, committing>>

\* The sleep of the reset task is over, and it waits for the main actor.
ResetIsDue ==
  /\ resetTask = "sleeping"
  /\ resetTask' = "due"
  /\ UNCHANGED <<git, screen, form, commitOutcome, lateReset, committing, undoing>>

\* The reset task runs.
ResetFires ==
  /\ resetTask = "due"
  /\ commitOutcome' = "none" /\ resetTask' = "none"
  /\ UNCHANGED <<git, screen, form, lateReset, committing, undoing>>

\* One that was replaced too late runs as well, and asks nobody.
LateResetFires ==
  /\ lateReset
  /\ commitOutcome' = "none" /\ lateReset' = FALSE
  /\ UNCHANGED <<git, screen, form, resetTask, committing, undoing>>

CommitNext ==
  \/ /\ \/ \E r \in Repo \cup {None} : SelectRepository(r)
        \/ RefreshReturns
        \/ \E S \in SUBSET Path : Check(S)
        \/ Type \/ ToggleAmendMode \/ BeginCommit \/ RejectCommit
     /\ UNCHANGED git
  \/ \E p \in Path : StageSucceeds(p) \/ StageFails(p)
  \/ CommitSucceeds \/ CommitFails \/ GraceEnds \/ CommitReturns
  \/ BeginUndo \/ \E r \in Repo : UndoReturns(r)
  \/ ResetIsDue \/ ResetFires \/ LateResetFires
  \/ (\E r \in Repo : Outside(r)) /\ UNCHANGED commitVars

CommitSpec == GitInit([r \in Repo |-> <<>>]) /\ CommitInit /\ [][CommitNext]_<<git, commitVars>>

-----------------------------------------------------------------------------

\* When git commit runs for the user, every path that was checked and is still a
\* change of the working tree is in the index, whatever else stages, undoes,
\* discards or commits meanwhile: "do not commit a partial selection"
\* (GitCommitProvider.swift:53).
WholeSelection ==
  committing.at = "committing" =>
    committing.paths \cap changed[committing.repo] \subseteq staged[committing.repo]

\* An outcome that is shown has a task that will clear it: the commit button,
\* which a success disables, comes back.
OutcomeIsCleared == commitOutcome # "none" => resetTask # "none"

\* What the app does to a repository when it commits and undoes is what the
\* module of rewritings takes others to do.  (Proved, see CommitFlow_proofs.)
CommitsAreOthers == [][\E r \in Repo : Others(r)]_git
=============================================================================
