----------------------------- MODULE BranchesPanel -----------------------------
(***************************************************************************)
(* The branches of the toolbar: BranchesViewModel, with the button that    *)
(* points it at a repository (BranchToolbarButton).  A call of the view    *)
(* model asks, after an await, whether the panel is still pointed at the   *)
(* repository it began with; some of them do not ask.                      *)
(*                                                                         *)
(* What a list holds is kept as the number of changes that were made to    *)
(* the branches before it was read.  The messages and lastOutcome are left *)
(* out.                                                                    *)
(***************************************************************************)
EXTENDS Window, Naturals, FiniteSets

CONSTANTS Branch,          \* names of branches
          MaxGenerations,  \* bound: repositoryGeneration
          MaxChanges,      \* bound: changes of the branches of a repository
          MaxBranchCalls   \* bound: calls under way

ASSUME BranchesAssumption == /\ None \notin Branch
                             /\ MaxGenerations \in Nat /\ MaxChanges \in Nat /\ MaxBranchCalls \in Nat

VARIABLES head,     \* git: the branch that is checked out
          changes,  \* git: how often the branches were changed
          repositoryURL, repositoryGeneration,
          currentBranchName,
          branches,  \* localBranches and remoteBranches
          isLoading, stashGuardNeeded, pendingBranchName,
          branchCalls

branchVars == <<head, changes, repositoryURL, repositoryGeneration, currentBranchName, branches,
                isLoading, stashGuardNeeded, pendingBranchName, branchCalls>>

Target == [repo : Repo, generation : 0 .. MaxGenerations]

\* A call waits for git: for the list of the branches, at the end of every call, or
\* for what it is about.  Only a switch asks for the status first.
BranchCall ==
  {c \in [kind : {"load", "switch", "resolve", "rename", "edit", "update"},
          at : {"status", "git", "listing", "listed"}, target : Target,
          branch : Branch \cup {None}, cancelled : BOOLEAN, list : 0 .. MaxChanges] :
     /\ c.at = "status" => c.kind = "switch"
     /\ IF c.kind = "load" THEN c.at \in {"listing", "listed"} ELSE c.branch \in Branch}

BranchesTypeOK ==
  /\ head \in [Repo -> Branch] /\ changes \in [Repo -> 0 .. MaxChanges]
  /\ repositoryURL \in Repo \cup {None} /\ repositoryGeneration \in 0 .. MaxGenerations
  /\ currentBranchName \in Branch \cup {None}
  /\ branches \in [repo : Repo, list : 0 .. MaxChanges] \cup {None}
  /\ isLoading \in BOOLEAN
  /\ stashGuardNeeded \in [repo : Repo, pendingBranch : Branch] \cup {None}
  /\ pendingBranchName \in Branch \cup {None}
  /\ branchCalls \in SUBSET BranchCall

BranchesInit ==
  /\ selectedRepository = None
  /\ head \in [Repo -> Branch] /\ changes = [r \in Repo |-> 0]
  /\ repositoryURL = None /\ repositoryGeneration = 0
  /\ currentBranchName = None
  /\ branches = None
  /\ isLoading = FALSE /\ stashGuardNeeded = None /\ pendingBranchName = None
  /\ branchCalls = {}

-----------------------------------------------------------------------------

IsCurrentTarget(c) ==
  repositoryGeneration = c.target.generation /\ repositoryURL = c.target.repo

\* A list that is back is not taken away from the call that waits for it.
CancelLoads(calls) ==
  {IF c.at = "listing" THEN [c EXCEPT !.cancelled = TRUE] ELSE c : c \in calls}

Call(kind, at, b) ==
  [kind |-> kind, at |-> at, branch |-> b, cancelled |-> FALSE, list |-> 0,
   target |-> [repo |-> repositoryURL', generation |-> repositoryGeneration']]

\* loadBranches for a call, up to its await; calls are the others.
LoadBranches(calls, kind, b) ==
  IF repositoryURL' = None
    THEN branchCalls' = calls /\ UNCHANGED isLoading
    ELSE branchCalls' = CancelLoads(calls) \cup {Call(kind, "listing", b)} /\ isLoading' = TRUE

\* Faulty variant: the branch that is acted on stays.
PointAt_KeepsPending(r) ==
  /\ repositoryGeneration < MaxGenerations /\ repositoryGeneration' = repositoryGeneration + 1
  /\ repositoryURL' = r
  /\ currentBranchName' \in {None} \cup (IF r = None THEN {} ELSE {head[r]})
  /\ stashGuardNeeded' = None /\ UNCHANGED pendingBranchName

\* setRepository, with the branch that the store has found so far.  (What it does to
\* a load is left to those that call it.)
PointAt(r) ==
  /\ repositoryGeneration < MaxGenerations /\ repositoryGeneration' = repositoryGeneration + 1
  /\ repositoryURL' = r
  /\ currentBranchName' \in {None} \cup (IF r = None THEN {} ELSE {head[r]})
  /\ stashGuardNeeded' = None /\ pendingBranchName' = None

\* The repository is selected in the window: the panel is pointed at it and loads.
SwitchBranches(r) ==
  /\ Selects(r)
  /\ PointAt(r)
  /\ LoadBranches(CancelLoads(branchCalls), "load", None)
  /\ UNCHANGED <<head, changes, branches>>

\* The store has found another tip: the panel is pointed at the same repository again,
\* which cancels the load.
TipChanges ==
  /\ repositoryURL # None
  /\ PointAt(repositoryURL)
  /\ branchCalls' = CancelLoads(branchCalls)
  /\ UNCHANGED <<selectedRepository, head, changes, branches, isLoading>>

Begins == repositoryURL # None /\ Cardinality(branchCalls) < MaxBranchCalls

\* The menu opens.
OpenMenu ==
  /\ Begins
  /\ UNCHANGED <<repositoryURL, repositoryGeneration>>
  /\ LoadBranches(branchCalls, "load", None)
  /\ UNCHANGED <<selectedRepository, head, changes, currentBranchName, branches, stashGuardNeeded,
                 pendingBranchName>>

\* Git has listed the branches.
ListIsRead(c) ==
  /\ c \in branchCalls /\ c.at = "listing" /\ ~c.cancelled
  /\ branchCalls' = (branchCalls \ {c}) \cup {[c EXCEPT !.at = "listed", !.list = changes[c.target.repo]]}
  /\ UNCHANGED <<selectedRepository, head, changes, repositoryURL, repositoryGeneration,
                 currentBranchName, branches, isLoading, stashGuardNeeded, pendingBranchName>>

\* What the defers of the call, and of its load, do.
CallEnds(c) ==
  /\ branchCalls' = branchCalls \ {c}
  /\ isLoading' = (isLoading /\ c.kind # "update" /\ ~(c.at \in {"listing", "listed"} /\ IsCurrentTarget(c)))
  /\ CASE c.kind = "update"                                        -> pendingBranchName' = None
       [] c.kind \in {"switch", "resolve"} /\ IsCurrentTarget(c) -> pendingBranchName' = None
       [] OTHER                                                    -> UNCHANGED pendingBranchName
  /\ stashGuardNeeded' = IF c.kind = "resolve" /\ IsCurrentTarget(c) THEN None ELSE stashGuardNeeded

\* Faulty variant: a list is shown, wherever the panel is pointed at.
ListAfter_Any(c) == [repo |-> c.target.repo, list |-> c.list]

ListAfter(c) ==
  IF IsCurrentTarget(c) THEN [repo |-> c.target.repo, list |-> c.list] ELSE branches

\* The call goes on with the list, first come first served.
ListReturns(c) ==
  /\ c \in branchCalls /\ c.at = "listed"
  /\ branches' = ListAfter(c)
  /\ CallEnds(c)
  /\ UNCHANGED <<selectedRepository, head, changes, repositoryURL, repositoryGeneration,
                 currentBranchName>>

\* The user chooses a branch of the list; git status begins.
SwitchBranch(b) ==
  /\ Begins /\ branches # None
  /\ UNCHANGED <<repositoryURL, repositoryGeneration>>
  /\ branchCalls' = branchCalls \cup {Call("switch", "status", b)}
  /\ pendingBranchName' = b
  /\ UNCHANGED <<selectedRepository, head, changes, currentBranchName, branches, isLoading,
                 stashGuardNeeded>>

\* Faulty variant: a dirty tree asks for the sheet, whichever repository is shown.
AsksForSheet_Any(c) == TRUE

AsksForSheet(c) == IsCurrentTarget(c)

\* The tree is clean, and git switch begins; or it is dirty, and the sheet asks what
\* to do with the changes.
StatusReturns(c, isClean) ==
  /\ c \in branchCalls /\ c.at = "status"
  /\ IF isClean /\ IsCurrentTarget(c)
       THEN /\ branchCalls' = (branchCalls \ {c}) \cup {[c EXCEPT !.at = "git"]}
            /\ UNCHANGED <<isLoading, stashGuardNeeded, pendingBranchName>>
       ELSE /\ branchCalls' = branchCalls \ {c}
            /\ pendingBranchName' = IF IsCurrentTarget(c) THEN None ELSE pendingBranchName
            /\ stashGuardNeeded' = IF ~isClean /\ AsksForSheet(c)
                                     THEN [repo |-> c.target.repo, pendingBranch |-> c.branch]
                                     ELSE stashGuardNeeded
            /\ UNCHANGED isLoading
  /\ UNCHANGED <<selectedRepository, head, changes, repositoryURL, repositoryGeneration,
                 currentBranchName, branches>>

\* The user cancels the sheet, or has the changes stashed or discarded.
ResolveStashGuard(isCancelled) ==
  /\ stashGuardNeeded # None /\ Begins
  /\ ~ \E c \in branchCalls : c.kind = "resolve" /\ IsCurrentTarget(c)
  /\ UNCHANGED <<repositoryURL, repositoryGeneration>>
  /\ IF isCancelled
       THEN stashGuardNeeded' = None /\ UNCHANGED <<branchCalls, pendingBranchName>>
       ELSE /\ branchCalls' = branchCalls \cup {Call("resolve", "git", stashGuardNeeded.pendingBranch)}
            /\ pendingBranchName' = stashGuardNeeded.pendingBranch
            /\ UNCHANGED stashGuardNeeded
  /\ UNCHANGED <<selectedRepository, head, changes, currentBranchName, branches, isLoading>>

\* The user renames a branch, creates or deletes one, or updates the current one from
\* the default branch.
BeginBranchOp(kind, b) ==
  /\ Begins /\ kind \in {"rename", "edit", "update"}
  /\ UNCHANGED <<repositoryURL, repositoryGeneration>>
  /\ branchCalls' = branchCalls \cup {Call(kind, "git", b)}
  /\ isLoading' = (isLoading \/ kind = "update")
  /\ pendingBranchName' = IF kind = "update" THEN b ELSE pendingBranchName
  /\ UNCHANGED <<selectedRepository, head, changes, currentBranchName, branches, stashGuardNeeded>>

\* What git does for the call; n is the new name of a branch that is renamed.
GitChanges(c, n) ==
  LET r == c.target.repo IN
  \/ c.kind \in {"switch", "resolve"} /\ head' = [head EXCEPT ![r] = c.branch] /\ UNCHANGED changes
  \/ /\ c.kind \in {"rename", "edit", "update"}
     /\ head' = [head EXCEPT ![r] = IF c.kind = "rename" /\ @ = c.branch THEN n ELSE @]
     /\ changes[r] < MaxChanges /\ changes' = [changes EXCEPT ![r] = @ + 1]

\* git returns, and the branches are loaded: a switch is over if the panel is pointed
\* elsewhere by now, the others load whatever it is pointed at.  A rename asks for
\* the name of the current branch, not for its repository.
GitReturns(c, n) ==
  /\ c \in branchCalls /\ c.at = "git"
  /\ GitChanges(c, n)
  /\ UNCHANGED <<repositoryURL, repositoryGeneration>>
  /\ IF repositoryURL = None \/ (c.kind \in {"switch", "resolve"} /\ ~IsCurrentTarget(c))
       THEN CallEnds(c) /\ UNCHANGED currentBranchName
       ELSE /\ currentBranchName' = CASE c.kind \in {"switch", "resolve"} -> c.branch
                                      [] c.kind = "rename" /\ currentBranchName = c.branch -> n
                                      [] OTHER -> currentBranchName
            /\ LoadBranches(branchCalls \ {c}, c.kind, c.branch)
            /\ UNCHANGED <<stashGuardNeeded, pendingBranchName>>
  /\ UNCHANGED <<selectedRepository, branches>>

\* git fails, with or without having done it; a load that was cancelled does.
GitFails(c, n) ==
  /\ c \in branchCalls /\ c.at # "listed"
  /\ (c.at = "git" /\ GitChanges(c, n)) \/ UNCHANGED <<head, changes>>
  /\ CallEnds(c)
  /\ UNCHANGED <<selectedRepository, repositoryURL, repositoryGeneration, currentBranchName, branches>>

\* Branches are changed in a terminal.
OthersBranch(r) ==
  /\ changes[r] < MaxChanges /\ changes' = [changes EXCEPT ![r] = @ + 1]
  /\ \E b \in Branch : head' = [head EXCEPT ![r] = b]
  /\ UNCHANGED <<selectedRepository, repositoryURL, repositoryGeneration, currentBranchName, branches,
                 isLoading, stashGuardNeeded, pendingBranchName, branchCalls>>

\* The main actor serves the tasks in order: what was listed before comes first.
BranchesNext ==
  \/ \E r \in Repo \cup {None} : SwitchBranches(r)
  \/ TipChanges \/ OpenMenu
  \/ \E b \in Branch : SwitchBranch(b) \/ \E kind \in {"rename", "edit", "update"} : BeginBranchOp(kind, b)
  \/ \E isCancelled \in BOOLEAN : ResolveStashGuard(isCancelled)
  \/ \E c \in branchCalls :
       \/ (\A d \in branchCalls : d.at # "listed") /\ ListIsRead(c)
       \/ ListReturns(c)
       \/ \E isClean \in BOOLEAN : StatusReturns(c, isClean)
       \/ \E n \in Branch : GitReturns(c, n) \/ GitFails(c, n)
  \/ \E r \in Repo : OthersBranch(r)

BranchesSpec == BranchesInit /\ [][BranchesNext]_<<selectedRepository, branchVars>>

-----------------------------------------------------------------------------

\* The sheet that asks what to do with the changes asks for the repository that the
\* panel is pointed at: no other one is stashed, discarded or switched by the answer.
GuardIsOfRepository == stashGuardNeeded # None => stashGuardNeeded.repo = repositoryURL

WillUnmark(c) == c.kind = "update" \/ (c.kind \in {"switch", "resolve"} /\ IsCurrentTarget(c))

\* A branch that is marked as acted on has a call that will take the mark back.
PendingHasCall == pendingBranchName # None => \E c \in branchCalls : WillUnmark(c)

\* While the panel is pointed at a repository, its list never becomes that of another
\* one, nor an older one.
ListNeverGoesBack ==
  [][ branches # None /\ branches.repo = repositoryURL /\ repositoryURL' = repositoryURL
      => branches'.repo = repositoryURL /\ branches'.list >= branches.list
    ]_<<selectedRepository, branchVars>>

\* When no call is under way, the list is that of the repository: "No stale
\* repository, branch, or diff data is displayed after a repository switch or
\* refresh" (docs/queue/bugs.md:303).
ListIsOfRepository ==
  branchCalls = {} /\ repositoryURL # None /\ branches # None => branches.repo = repositoryURL
================================================================================
