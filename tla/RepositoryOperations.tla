------------------------- MODULE RepositoryOperations -------------------------
(***************************************************************************)
(* The operations of RepositoryStoreViewModel that run git on the selected *)
(* repository, and the flags that keep them apart.  Each operation looks   *)
(* at some flags and sets some before its first await, runs git on the     *)
(* repository that was selected then, reloads the screen, and clears its   *)
(* flags in a defer.  resetPerRepositoryState, which runs when another     *)
(* repository is selected, clears two of the flags as well.                *)
(***************************************************************************)
EXTENDS Naturals, FiniteSets

CONSTANTS Repo,      \* the repositories
          Operation  \* bound: the operations that are under way at any moment

VARIABLES selectedRepository,
          inspected,  \* its inspection has succeeded, or is under way
          busy,       \* the flags that are set, see Flag
          operation,  \* what each operation does, see Call
          switched    \* history: the user has selected a repository since

selected == <<selectedRepository, inspected, switched>>
vars == <<selected, busy, operation>>

\* isWorkingTreeMutationInProgress, isStashOperationInProgress,
\* isConflictActionInProgress, isSyncInProgress, isCommitting; and isSquashing,
\* isReverting, isCherryPicking, isTagging, isCreatingBranchFromCommit,
\* isResetting or isReordering, of which no operation shares one.
Flag == {"workingTree", "stash", "conflict", "sync", "committing", "history"}

\* mutate    discardChanges, discardAllChanges, appendIgnore, stashAllChanges
\* unstash   applyStash, dropStash
\* resolve   runConflictAction, continueConflictOperation, abortConflictOperation
\* sync      fetch, pull, performForcePush
\* primary   performPrimaryAction
\* commit    commitChanges
\* undo      undoCommit
\* rewrite   squashSelectedCommits ... reorderCommits, of the history screen
Kind == {"mutate", "unstash", "resolve", "sync", "primary", "commit", "undo", "rewrite"}

\* The flags that an operation sets and clears.
FlagsOf(kind) ==
  CASE kind = "mutate"  -> {"workingTree"}
    [] kind = "unstash" -> {"workingTree", "stash"}
    [] kind = "resolve" -> {"conflict"}
    [] kind \in {"sync", "primary"} -> {"sync"}
    [] kind = "commit"  -> {"committing"}
    [] kind = "undo"    -> {}
    [] kind = "rewrite" -> {"history"}

\* The flags that must be clear for it to begin: the same, but for those that
\* set their flag without a look at it.
GuardsOf(kind) == IF kind \in {"primary", "rewrite"} THEN {} ELSE FlagsOf(kind)

\* No operation; git, or the reload after it.
Call == {[at |-> "none"]} \cup [at : {"git", "reload"}, kind : Kind, repo : Repo]

TypeOK ==
  /\ selectedRepository \in Repo /\ inspected \in BOOLEAN
  /\ busy \subseteq Flag
  /\ operation \in [Operation -> Call]
  /\ switched \in BOOLEAN

Init ==
  /\ selectedRepository \in Repo /\ inspected = TRUE
  /\ busy = {}
  /\ operation = [o \in Operation |-> [at |-> "none"]]
  /\ switched = FALSE

-----------------------------------------------------------------------------

\* Faulty variants: the flags are not looked at; another flag is set.
Begin_NoGuard(o, kind) ==
  /\ operation[o].at = "none"
  /\ busy' = busy \cup FlagsOf(kind)
  /\ operation' = [operation EXCEPT ![o] = [at |-> "git", kind |-> kind, repo |-> selectedRepository]]
  /\ UNCHANGED selected

Begin_WrongFlag(o, kind) ==
  /\ operation[o].at = "none"
  /\ GuardsOf(kind) \cap busy = {}
  /\ busy' = busy \cup {kind}
  /\ operation' = [operation EXCEPT ![o] = [at |-> "git", kind |-> kind, repo |-> selectedRepository]]
  /\ UNCHANGED selected

\* An operation is asked for, and the flags it looks at are clear.
Begin(o, kind) ==
  /\ operation[o].at = "none"
  /\ GuardsOf(kind) \cap busy = {}
  /\ busy' = busy \cup FlagsOf(kind)
  /\ operation' = [operation EXCEPT ![o] = [at |-> "git", kind |-> kind, repo |-> selectedRepository]]
  /\ UNCHANGED selected

\* git has succeeded, and the screen of the selected repository is reloaded.
GitSucceeds(o) ==
  /\ operation[o].at = "git"
  /\ operation' = [operation EXCEPT ![o].at = "reload"]
  /\ UNCHANGED <<selected, busy>>

\* Faulty variant: the flags are cleared only on success.
End_Leaks(o) ==
  /\ operation[o].at \in {"git", "reload"}
  /\ busy' = IF operation[o].at = "reload" THEN busy \ FlagsOf(operation[o].kind) ELSE busy
  /\ operation' = [operation EXCEPT ![o] = [at |-> "none"]]
  /\ UNCHANGED selected

\* git has failed, or the screen is reloaded: the defer clears the flags.
End(o) ==
  /\ operation[o].at \in {"git", "reload"}
  /\ busy' = busy \ FlagsOf(operation[o].kind)
  /\ operation' = [operation EXCEPT ![o] = [at |-> "none"]]
  /\ UNCHANGED selected

\* Faulty variant: every flag is cleared.
Switch_ClearsAll(r) ==
  /\ r # selectedRepository \/ ~inspected
  /\ selectedRepository' = r
  /\ inspected' \in BOOLEAN
  /\ switched' = TRUE
  /\ busy' = {}
  /\ UNCHANGED operation

\* selectRepository, of another repository or of one whose inspection failed:
\* resetPerRepositoryState clears two of the flags.
Switch(r) ==
  /\ r # selectedRepository \/ ~inspected
  /\ selectedRepository' = r
  /\ inspected' \in BOOLEAN
  /\ switched' = TRUE
  /\ busy' = busy \ {"workingTree", "conflict"}
  /\ UNCHANGED operation

Next ==
  \/ \E o \in Operation :
       \/ \E kind \in Kind : Begin(o, kind)
       \/ GitSucceeds(o) \/ End(o)
  \/ \E r \in Repo : Switch(r)

Spec == Init /\ [][Next]_vars

-----------------------------------------------------------------------------

UnderWay == {o \in Operation : operation[o].at # "none"}
InGit    == {o \in Operation : operation[o].at = "git"}

\* A flag that is set has an operation that will clear it, on every path, after
\* any switches and although some operations set a flag that is set already: no
\* button stays disabled for ever.
BusyHasOwner ==
  \A f \in busy : \E o \in UnderWay : f \in FlagsOf(operation[o].kind)

\* Restoring and dropping the stash exclude each other, and so do commits, on
\* one repository or two: a switch clears the flag of the working tree under
\* them, but not the flags that are theirs alone.
ExclusiveOperations ==
  \A o, p \in UnderWay :
    operation[o].kind = operation[p].kind /\ operation[o].kind \in {"unstash", "commit"} => o = p

\* The inductive invariant: a flag that only guarded operations set and no
\* switch clears stays set under its owner; and so does the flag of the working
\* tree until a repository is selected.
IInv ==
  /\ TypeOK
  /\ BusyHasOwner
  /\ ExclusiveOperations
  /\ \A o \in UnderWay :
       /\ operation[o].kind = "unstash" => "stash" \in busy
       /\ operation[o].kind = "commit" => "committing" \in busy
  /\ ~switched => \A o \in UnderWay : "workingTree" \in FlagsOf(operation[o].kind) =>
       /\ "workingTree" \in busy
       /\ \A p \in UnderWay : "workingTree" \in FlagsOf(operation[p].kind) => o = p

\* "Serializes destructive working-tree mutations so refreshes and git
\* operations do not overlap when the user triggers them repeatedly": no two
\* operations that take that flag run git on the same repository.
MutationsDoNotOverlap ==
  \A o, p \in InGit :
    /\ operation[o].repo = operation[p].repo
    /\ "workingTree" \in FlagsOf(operation[o].kind) \cap FlagsOf(operation[p].kind)
    => o = p

\* They do not as long as the user selects no repository, however operations
\* of all kinds come, fail and end.
MutationsAreSerialized == ~switched => MutationsDoNotOverlap
=============================================================================
