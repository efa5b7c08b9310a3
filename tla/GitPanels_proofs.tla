-------------------------- MODULE GitPanels_proofs --------------------------
(***************************************************************************)
(* Proofs about the panels that work with git: BranchesPanel, StashPanels  *)
(* and ConflictSheet, for any repositories, branches, stashes and files,   *)
(* and any number of calls.  And about MainWindow, which has all panels.   *)
(***************************************************************************)
EXTENDS MainWindow, CommitFlow_proofs, DiffPanels_proofs, FiniteSetTheorems, SequenceTheorems, TLAPS

-----------------------------------------------------------------------------
(* BranchesPanel.                                                          *)

\* A list that is shown, or that is about to be, is not from the future; one that is
\* about to be shown is not older than the one that is, and there is only one.
ListsAreInOrder ==
  /\ branches # None => branches.list <= changes[branches.repo]
  /\ \A c \in branchCalls : c.at = "listed" =>
       /\ c.list <= changes[c.target.repo]
       /\ branches # None /\ branches.repo = c.target.repo => branches.list <= c.list
  /\ \A c, d \in branchCalls : c.at = "listed" /\ d.at = "listed" => c = d

BranchesIInv == BranchesTypeOK /\ GuardIsOfRepository /\ PendingHasCall /\ ListsAreInOrder

-----------------------------------------------------------------------------
(* The parts of the invariant.                                             *)

\* Loads that are cancelled are calls as they were, but for the cancellation.
LEMMA CancelLoadsFacts ==
  ASSUME NEW others \in SUBSET BranchCall
  PROVE  /\ CancelLoads(others) \in SUBSET BranchCall
         /\ \A c \in others : \E d \in CancelLoads(others) : d.kind = c.kind /\ d.target = c.target
         /\ \A d \in CancelLoads(others) : d.at = "listed" => d \in others
<1>1. \A c \in BranchCall : /\ [c EXCEPT !.cancelled = TRUE] \in BranchCall
                            /\ [c EXCEPT !.cancelled = TRUE].at = c.at
                            /\ [c EXCEPT !.cancelled = TRUE].kind = c.kind
                            /\ [c EXCEPT !.cancelled = TRUE].target = c.target
  BY DEF BranchCall
<1> QED BY <1>1 DEF CancelLoads

\* A call that begins is one, and is about what the panel is pointed at.
LEMMA CallFacts ==
  ASSUME NEW kind \in {"load", "switch", "resolve", "rename", "edit", "update"},
         NEW at \in {"status", "git", "listing"}, NEW b \in Branch \cup {None},
         at = "status" => kind = "switch", IF kind = "load" THEN at = "listing" ELSE b \in Branch,
         repositoryURL' \in Repo, repositoryGeneration' \in 0 .. MaxGenerations
  PROVE  /\ Call(kind, at, b) \in BranchCall
         /\ Call(kind, at, b).kind = kind /\ Call(kind, at, b).at = at
         /\ Call(kind, at, b).target = [repo |-> repositoryURL', generation |-> repositoryGeneration']
BY BranchesAssumption DEF Call, BranchCall, Target

\* As long as no call is listed anew and the list stays, the order is kept.
LEMMA OrderIsKept ==
  ASSUME BranchesIInv, branches' = branches,
         \A r \in Repo : changes'[r] \in Nat /\ changes[r] <= changes'[r],
         \A d \in branchCalls' : d.at = "listed" => d \in branchCalls
  PROVE  ListsAreInOrder'
<1>1. \A c \in branchCalls : c.target.repo \in Repo /\ c.list \in Nat
  BY DEF BranchesIInv, BranchesTypeOK, BranchCall, Target
<1>2. branches # None => branches.repo \in Repo /\ branches.list \in Nat
  BY DEF BranchesIInv, BranchesTypeOK
<1>3. \A r \in Repo : changes[r] \in Nat
  BY BranchesAssumption DEF BranchesIInv, BranchesTypeOK
<1> QED BY <1>1, <1>2, <1>3 DEF BranchesIInv, ListsAreInOrder

\* So is the mark, as long as the calls that will take it back stay as they are.
LEMMA MarkIsKept ==
  ASSUME BranchesIInv, UNCHANGED <<repositoryURL, repositoryGeneration>>,
         pendingBranchName' \in {None, pendingBranchName},
         pendingBranchName' # None =>
           \A c \in branchCalls : WillUnmark(c) =>
             \E d \in branchCalls' : d.kind = c.kind /\ d.target = c.target
  PROVE  PendingHasCall'
BY DEF BranchesIInv, PendingHasCall, WillUnmark, IsCurrentTarget

\* A call that is added, or goes on, keeps the others.
LEMMA LoadBranchesKeeps ==
  ASSUME NEW others \in SUBSET BranchCall, NEW b \in Branch \cup {None},
         NEW kind \in {"load", "switch", "resolve", "rename", "edit", "update"}, kind # "load" => b \in Branch,
         repositoryURL' \in Repo \cup {None}, repositoryGeneration' \in 0 .. MaxGenerations,
         isLoading \in BOOLEAN, LoadBranches(others, kind, b)
  PROVE  /\ branchCalls' \in SUBSET BranchCall /\ isLoading' \in BOOLEAN
         /\ \A c \in others : \E d \in branchCalls' : d.kind = c.kind /\ d.target = c.target
         /\ \A d \in branchCalls' : d.at = "listed" => d \in others
         /\ repositoryURL' # None =>
              \E d \in branchCalls' : /\ d.kind = kind
                                      /\ d.target = [repo |-> repositoryURL', generation |-> repositoryGeneration']
<1>1. CASE repositoryURL' = None
  BY <1>1 DEF LoadBranches
<1>2. CASE repositoryURL' # None
  <2> DEFINE new == Call(kind, "listing", b)
  <2>1. branchCalls' = CancelLoads(others) \cup {new} /\ isLoading' = TRUE
    BY <1>2 DEF LoadBranches
  <2>2. /\ new \in BranchCall /\ new.kind = kind /\ new.at = "listing"
        /\ new.target = [repo |-> repositoryURL', generation |-> repositoryGeneration']
    BY <1>2, CallFacts
  <2> HIDE DEF new
  <2> QED BY <2>1, <2>2, CancelLoadsFacts
<1> QED BY <1>1, <1>2

\* The end of a call.
LEMMA EndKeeps ==
  ASSUME BranchesIInv, NEW c \in branchCalls, CallEnds(c), UNCHANGED <<repositoryURL, repositoryGeneration>>
  PROVE  /\ branchCalls' \in SUBSET BranchCall /\ isLoading' \in BOOLEAN
         /\ pendingBranchName' \in Branch \cup {None}
         /\ stashGuardNeeded' \in [repo : Repo, pendingBranch : Branch] \cup {None}
         /\ GuardIsOfRepository' /\ PendingHasCall'
<1>1. branchCalls' = branchCalls \ {c} /\ isLoading' \in BOOLEAN
  BY DEF CallEnds, BranchesIInv, BranchesTypeOK
<1>2. pendingBranchName' = (IF WillUnmark(c) THEN None ELSE pendingBranchName)
  BY DEF CallEnds, WillUnmark
<1>3. stashGuardNeeded' \in {None, stashGuardNeeded}
  BY DEF CallEnds
<1>4. PendingHasCall'
  BY <1>1, <1>2, MarkIsKept
<1>5. GuardIsOfRepository'
  BY <1>3 DEF BranchesIInv, GuardIsOfRepository
<1>6. pendingBranchName' \in Branch \cup {None}
  BY <1>2 DEF BranchesIInv, BranchesTypeOK
<1>7. stashGuardNeeded' \in [repo : Repo, pendingBranch : Branch] \cup {None}
  BY <1>3 DEF BranchesIInv, BranchesTypeOK
<1>8. branchCalls' \in SUBSET BranchCall
  BY <1>1 DEF BranchesIInv, BranchesTypeOK
<1> QED BY <1>1, <1>4, <1>5, <1>6, <1>7, <1>8

-----------------------------------------------------------------------------
(* The actions.                                                            *)

\* At the start the panel is pointed at nothing.
LEMMA InitBranchesIInv == BranchesInit => BranchesIInv
<1> SUFFICES ASSUME BranchesInit PROVE BranchesIInv
  OBVIOUS
<1>1. BranchesTypeOK
  <2>1. 0 \in 0 .. MaxGenerations /\ 0 \in 0 .. MaxChanges
    BY BranchesAssumption
  <2> QED BY <2>1 DEF BranchesInit, BranchesTypeOK
<1>2. GuardIsOfRepository /\ PendingHasCall /\ ListsAreInOrder
  BY DEF BranchesInit, GuardIsOfRepository, PendingHasCall, ListsAreInOrder
<1> QED BY <1>1, <1>2 DEF BranchesIInv

\* When the panel is pointed at a repository, nothing is marked and nothing asked.
LEMMA PointingSteps ==
  ASSUME BranchesIInv, (\E r \in Repo \cup {None} : SwitchBranches(r)) \/ TipChanges
  PROVE  BranchesIInv'
<1>1. PICK r \in Repo \cup {None} : PointAt(r)
  BY DEF SwitchBranches, TipChanges, BranchesIInv, BranchesTypeOK
<1>2. /\ repositoryURL' \in Repo \cup {None} /\ repositoryGeneration' \in 0 .. MaxGenerations
      /\ stashGuardNeeded' = None /\ pendingBranchName' = None
      /\ currentBranchName' \in Branch \cup {None}
  BY <1>1, BranchesAssumption DEF PointAt, BranchesIInv, BranchesTypeOK
<1>3. UNCHANGED <<head, changes, branches>>
  BY DEF SwitchBranches, TipChanges
<1>4. /\ CancelLoads(branchCalls) \in SUBSET BranchCall
      /\ \A d \in CancelLoads(branchCalls) : d.at = "listed" => d \in branchCalls
  BY CancelLoadsFacts DEF BranchesIInv, BranchesTypeOK
<1>5. /\ branchCalls' \in SUBSET BranchCall /\ isLoading' \in BOOLEAN
      /\ \A d \in branchCalls' : d.at = "listed" => d \in branchCalls
  <2>1. ASSUME NEW q \in Repo \cup {None}, SwitchBranches(q)
        PROVE  /\ branchCalls' \in SUBSET BranchCall /\ isLoading' \in BOOLEAN
               /\ \A d \in branchCalls' : d.at = "listed" => d \in CancelLoads(branchCalls)
    <3>1. LoadBranches(CancelLoads(branchCalls), "load", None) /\ isLoading \in BOOLEAN
      BY <2>1 DEF SwitchBranches, BranchesIInv, BranchesTypeOK
    <3> QED BY <1>2, <1>4, <3>1, LoadBranchesKeeps
  <2>2. CASE TipChanges
    BY <1>4, <2>2 DEF TipChanges, BranchesIInv, BranchesTypeOK
  <2> QED BY <1>4, <2>1, <2>2
<1>6. BranchesTypeOK'
  BY <1>2, <1>3, <1>5 DEF BranchesIInv, BranchesTypeOK
<1>7. ListsAreInOrder'
  BY <1>3, <1>5, OrderIsKept, BranchesAssumption DEF BranchesIInv, BranchesTypeOK
<1> QED BY <1>2, <1>6, <1>7 DEF BranchesIInv, GuardIsOfRepository, PendingHasCall

\* A call that begins without loading.
LEMMA BeginKeeps ==
  ASSUME BranchesIInv, UNCHANGED <<repositoryURL, repositoryGeneration, branches, changes>>, repositoryURL # None,
         NEW kind \in {"switch", "resolve", "rename", "edit", "update"},
         NEW at \in {"status", "git"}, NEW b \in Branch, at = "status" => kind = "switch",
         branchCalls' = branchCalls \cup {Call(kind, at, b)}
  PROVE  /\ branchCalls' \in SUBSET BranchCall
         /\ ListsAreInOrder'
         /\ kind \in {"switch", "resolve", "update"} => PendingHasCall'
         /\ pendingBranchName' \in {None, pendingBranchName} => PendingHasCall'
<1> DEFINE new == Call(kind, at, b)
<1>1. repositoryURL' \in Repo /\ repositoryGeneration' \in 0 .. MaxGenerations
  BY DEF BranchesIInv, BranchesTypeOK
<1>2. /\ new \in BranchCall /\ new.kind = kind /\ new.at = at
      /\ new.target = [repo |-> repositoryURL', generation |-> repositoryGeneration']
  BY <1>1, CallFacts
<1> HIDE DEF new
<1>3. branchCalls' \in SUBSET BranchCall
  BY <1>2 DEF new, BranchesIInv, BranchesTypeOK
<1>4. ListsAreInOrder'
  <2>1. \A d \in branchCalls' : d.at = "listed" => d \in branchCalls
    BY <1>2 DEF new
  <2>2. \A r \in Repo : changes'[r] \in Nat /\ changes[r] <= changes'[r]
    BY BranchesAssumption DEF BranchesIInv, BranchesTypeOK
  <2> QED BY <2>1, <2>2, OrderIsKept
<1>5. ASSUME kind \in {"switch", "resolve", "update"} PROVE PendingHasCall'
  BY <1>2, <1>5 DEF new, PendingHasCall, WillUnmark, IsCurrentTarget
<1>6. ASSUME pendingBranchName' \in {None, pendingBranchName} PROVE PendingHasCall'
  BY <1>6, MarkIsKept
<1> QED BY <1>3, <1>4, <1>5, <1>6

\* What the user begins.
LEMMA BeginningSteps ==
  ASSUME BranchesIInv,
         \/ OpenMenu
         \/ \E b \in Branch : SwitchBranch(b) \/ \E kind \in {"rename", "edit", "update"} : BeginBranchOp(kind, b)
         \/ \E isCancelled \in BOOLEAN : ResolveStashGuard(isCancelled)
  PROVE  BranchesIInv'
<1>0. /\ UNCHANGED <<repositoryURL, repositoryGeneration>> /\ repositoryURL # None
      /\ UNCHANGED <<head, changes, branches, currentBranchName>>
  BY DEF OpenMenu, SwitchBranch, BeginBranchOp, ResolveStashGuard, Begins
<1>1. CASE OpenMenu
  <2>1. LoadBranches(branchCalls, "load", None) /\ UNCHANGED <<stashGuardNeeded, pendingBranchName>>
    BY <1>1 DEF OpenMenu
  <2>2. /\ branchCalls' \in SUBSET BranchCall /\ isLoading' \in BOOLEAN
        /\ \A c \in branchCalls : \E d \in branchCalls' : d.kind = c.kind /\ d.target = c.target
        /\ \A d \in branchCalls' : d.at = "listed" => d \in branchCalls
    BY <1>0, <2>1, LoadBranchesKeeps DEF BranchesIInv, BranchesTypeOK
  <2>3. BranchesTypeOK'
    BY <1>0, <2>1, <2>2 DEF BranchesIInv, BranchesTypeOK
  <2>4. PendingHasCall'
    BY <1>0, <2>1, <2>2, MarkIsKept
  <2>5. ListsAreInOrder'
    BY <1>0, <2>2, OrderIsKept, BranchesAssumption DEF BranchesIInv, BranchesTypeOK
  <2>6. GuardIsOfRepository'
    BY <1>0, <2>1 DEF BranchesIInv, GuardIsOfRepository
  <2> QED BY <2>3, <2>4, <2>5, <2>6 DEF BranchesIInv
<1>2. ASSUME NEW b \in Branch, SwitchBranch(b) PROVE BranchesIInv'
  <2>1. /\ branchCalls' = branchCalls \cup {Call("switch", "status", b)} /\ pendingBranchName' = b
        /\ UNCHANGED <<isLoading, stashGuardNeeded>>
    BY <1>2 DEF SwitchBranch
  <2>2. branchCalls' \in SUBSET BranchCall /\ ListsAreInOrder' /\ PendingHasCall'
    BY <1>0, <2>1, BeginKeeps
  <2>3. BranchesTypeOK'
    BY <1>0, <2>1, <2>2 DEF BranchesIInv, BranchesTypeOK
  <2> QED BY <1>0, <2>1, <2>2, <2>3 DEF BranchesIInv, GuardIsOfRepository
<1>3. ASSUME NEW b \in Branch, NEW kind \in {"rename", "edit", "update"}, BeginBranchOp(kind, b) PROVE BranchesIInv'
  <2>1. /\ branchCalls' = branchCalls \cup {Call(kind, "git", b)}
        /\ pendingBranchName' = IF kind = "update" THEN b ELSE pendingBranchName
        /\ isLoading' = (isLoading \/ kind = "update") /\ UNCHANGED stashGuardNeeded
    BY <1>3 DEF BeginBranchOp
  <2>2. branchCalls' \in SUBSET BranchCall /\ ListsAreInOrder' /\ PendingHasCall'
    BY <1>0, <2>1, BeginKeeps
  <2>3. BranchesTypeOK'
    BY <1>0, <2>1, <2>2 DEF BranchesIInv, BranchesTypeOK
  <2> QED BY <1>0, <2>1, <2>2, <2>3 DEF BranchesIInv, GuardIsOfRepository
<1>4. CASE ResolveStashGuard(TRUE)
  <2>1. stashGuardNeeded' = None /\ UNCHANGED <<branchCalls, pendingBranchName, isLoading>>
    BY <1>4 DEF ResolveStashGuard
  <2>2. BranchesTypeOK'
    BY <1>0, <2>1 DEF BranchesIInv, BranchesTypeOK
  <2>3. PendingHasCall'
    BY <1>0, <2>1, MarkIsKept
  <2>4. ListsAreInOrder'
    BY <1>0, <2>1, OrderIsKept, BranchesAssumption DEF BranchesIInv, BranchesTypeOK
  <2> QED BY <2>1, <2>2, <2>3, <2>4 DEF BranchesIInv, GuardIsOfRepository
<1>5. CASE ResolveStashGuard(FALSE)
  <2> DEFINE b == stashGuardNeeded.pendingBranch
  <2>1. /\ branchCalls' = branchCalls \cup {Call("resolve", "git", b)} /\ pendingBranchName' = b
        /\ UNCHANGED <<isLoading, stashGuardNeeded>> /\ stashGuardNeeded # None
    BY <1>5 DEF ResolveStashGuard
  <2>2. b \in Branch
    BY <2>1 DEF BranchesIInv, BranchesTypeOK
  <2> HIDE DEF b
  <2>3. branchCalls' \in SUBSET BranchCall /\ ListsAreInOrder' /\ PendingHasCall'
    BY <1>0, <2>1, <2>2, BeginKeeps
  <2>4. BranchesTypeOK'
    BY <1>0, <2>1, <2>2, <2>3 DEF BranchesIInv, BranchesTypeOK
  <2> QED BY <1>0, <2>1, <2>3, <2>4 DEF BranchesIInv, GuardIsOfRepository
<1> QED BY <1>1, <1>2, <1>3, <1>4, <1>5

\* Git has listed the branches: the list is the newest, and the only one.
LEMMA ListingStep ==
  ASSUME BranchesIInv, NEW c \in branchCalls, \A d \in branchCalls : d.at # "listed", ListIsRead(c)
  PROVE  BranchesIInv'
<1> DEFINE r == c.target.repo
           new == [c EXCEPT !.at = "listed", !.list = changes[r]]
<1>1. c \in BranchCall /\ r \in Repo /\ changes[r] \in 0 .. MaxChanges
  BY DEF BranchesIInv, BranchesTypeOK, BranchCall, Target
<1>2. /\ new \in BranchCall /\ new.kind = c.kind /\ new.target = c.target
      /\ new.at = "listed" /\ new.list = changes[r]
  BY <1>1 DEF BranchCall
<1>3. branchCalls' = (branchCalls \ {c}) \cup {new}
  BY DEF ListIsRead
<1> HIDE DEF new
<1>4. UNCHANGED <<head, changes, repositoryURL, repositoryGeneration, currentBranchName, branches,
                  isLoading, stashGuardNeeded, pendingBranchName>>
  BY DEF ListIsRead
<1>5. BranchesTypeOK'
  BY <1>2, <1>3, <1>4 DEF BranchesIInv, BranchesTypeOK
<1>6. PendingHasCall'
  BY <1>2, <1>3, <1>4, MarkIsKept
<1>7. ListsAreInOrder'
  BY <1>1, <1>2, <1>3, <1>4, BranchesAssumption DEF BranchesIInv, BranchesTypeOK, ListsAreInOrder
<1> QED BY <1>4, <1>5, <1>6, <1>7 DEF BranchesIInv, GuardIsOfRepository

\* The list that is shown then was read after the one that was.
LEMMA ListStep ==
  ASSUME BranchesIInv, NEW c \in branchCalls, ListReturns(c)
  PROVE  BranchesIInv'
<1>1. /\ c.at = "listed" /\ branches' = ListAfter(c) /\ CallEnds(c)
      /\ UNCHANGED <<head, changes, repositoryURL, repositoryGeneration, currentBranchName>>
  BY DEF ListReturns
<1>2. /\ branchCalls' \in SUBSET BranchCall /\ isLoading' \in BOOLEAN
      /\ pendingBranchName' \in Branch \cup {None}
      /\ stashGuardNeeded' \in [repo : Repo, pendingBranch : Branch] \cup {None}
      /\ GuardIsOfRepository' /\ PendingHasCall'
  BY <1>1, EndKeeps
<1>3. c.target.repo \in Repo /\ c.list \in 0 .. MaxChanges
  BY DEF BranchesIInv, BranchesTypeOK, BranchCall, Target
<1>4. branches' \in [repo : Repo, list : 0 .. MaxChanges] \cup {None}
  BY <1>1, <1>3 DEF ListAfter, BranchesIInv, BranchesTypeOK
<1>5. BranchesTypeOK'
  BY <1>1, <1>2, <1>4 DEF BranchesIInv, BranchesTypeOK
<1>6. branchCalls' = branchCalls \ {c}
  BY <1>1 DEF CallEnds
<1>7. \A d \in branchCalls' : d.at # "listed"
  BY <1>1, <1>6 DEF BranchesIInv, ListsAreInOrder
<1>8. branches' # None => branches'.list <= changes'[branches'.repo]
  BY <1>1 DEF ListAfter, BranchesIInv, ListsAreInOrder
<1> QED BY <1>2, <1>5, <1>7, <1>8 DEF BranchesIInv, ListsAreInOrder

\* The tree is clean, or the sheet asks about the repository the panel is pointed at.
LEMMA StatusStep ==
  ASSUME BranchesIInv, NEW c \in branchCalls, NEW isClean \in BOOLEAN, StatusReturns(c, isClean)
  PROVE  BranchesIInv'
<1>1. /\ c.at = "status" /\ isLoading' = isLoading
      /\ UNCHANGED <<head, changes, repositoryURL, repositoryGeneration, currentBranchName, branches>>
  BY DEF StatusReturns
<1>2. c \in BranchCall /\ c.target.repo \in Repo
  BY DEF BranchesIInv, BranchesTypeOK, BranchCall, Target
<1>3. \A r \in Repo : changes'[r] \in Nat /\ changes[r] <= changes'[r]
  BY <1>1, BranchesAssumption DEF BranchesIInv, BranchesTypeOK
<1>4. CASE isClean /\ IsCurrentTarget(c)
  <2> DEFINE new == [c EXCEPT !.at = "git"]
  <2>1. /\ branchCalls' = (branchCalls \ {c}) \cup {new}
        /\ UNCHANGED <<stashGuardNeeded, pendingBranchName>>
    BY <1>4 DEF StatusReturns
  <2>2. new \in BranchCall /\ new.kind = c.kind /\ new.target = c.target /\ new.at = "git"
    BY <1>1, <1>2 DEF BranchCall
  <2> HIDE DEF new
  <2>3. BranchesTypeOK'
    BY <1>1, <2>1, <2>2 DEF BranchesIInv, BranchesTypeOK
  <2>4. PendingHasCall'
    BY <1>1, <2>1, <2>2, MarkIsKept
  <2>5. ListsAreInOrder'
    BY <1>1, <1>3, <2>1, <2>2, OrderIsKept
  <2> QED BY <1>1, <2>1, <2>3, <2>4, <2>5 DEF BranchesIInv, GuardIsOfRepository
<1>5. CASE ~(isClean /\ IsCurrentTarget(c))
  <2>1. /\ branchCalls' = branchCalls \ {c}
        /\ pendingBranchName' = IF IsCurrentTarget(c) THEN None ELSE pendingBranchName
        /\ stashGuardNeeded' = IF ~isClean /\ AsksForSheet(c)
                                 THEN [repo |-> c.target.repo, pendingBranch |-> c.branch]
                                 ELSE stashGuardNeeded
    BY <1>5 DEF StatusReturns
  <2>2. c.kind = "switch" /\ c.branch \in Branch
    BY <1>1 DEF BranchesIInv, BranchesTypeOK, BranchCall
  <2>3. stashGuardNeeded' \in [repo : Repo, pendingBranch : Branch] \cup {None}
    BY <1>2, <2>1, <2>2 DEF BranchesIInv, BranchesTypeOK
  <2>4. BranchesTypeOK'
    BY <1>1, <2>1, <2>3 DEF BranchesIInv, BranchesTypeOK
  <2>5. GuardIsOfRepository'
    BY <1>1, <2>1 DEF AsksForSheet, IsCurrentTarget, BranchesIInv, GuardIsOfRepository
  <2>6. PendingHasCall'
    BY <1>1, <2>1, <2>2, MarkIsKept DEF WillUnmark
  <2>7. ListsAreInOrder'
    BY <1>1, <1>3, <2>1, OrderIsKept
  <2> QED BY <2>4, <2>5, <2>6, <2>7 DEF BranchesIInv
<1> QED BY <1>4, <1>5

\* What git does to a repository keeps the types, and no change is taken back.
LEMMA GitChangesFacts ==
  ASSUME BranchesIInv, NEW c \in branchCalls, NEW n \in Branch, c.at = "git",
         GitChanges(c, n) \/ UNCHANGED <<head, changes>>
  PROVE  /\ head' \in [Repo -> Branch] /\ changes' \in [Repo -> 0 .. MaxChanges]
         /\ \A r \in Repo : changes'[r] \in Nat /\ changes[r] <= changes'[r]
<1>1. c.target.repo \in Repo /\ c.branch \in Branch
  BY DEF BranchesIInv, BranchesTypeOK, BranchCall, Target
<1>2. head \in [Repo -> Branch] /\ changes \in [Repo -> 0 .. MaxChanges] /\ MaxChanges \in Nat
  BY BranchesAssumption DEF BranchesIInv, BranchesTypeOK
<1>3. \/ head' = head \/ head' = [head EXCEPT ![c.target.repo] = c.branch]
      \/ head' = [head EXCEPT ![c.target.repo] = IF c.kind = "rename" /\ @ = c.branch THEN n ELSE @]
  BY <1>1 DEF GitChanges
<1>4. \/ changes' = changes
      \/ changes[c.target.repo] < MaxChanges /\ changes' = [changes EXCEPT ![c.target.repo] = @ + 1]
  BY <1>1 DEF GitChanges
<1>5. head' \in [Repo -> Branch]
  BY <1>1, <1>2, <1>3
<1>6. /\ changes' \in [Repo -> 0 .. MaxChanges]
      /\ \A r \in Repo : changes'[r] \in Nat /\ changes[r] <= changes'[r]
  BY <1>1, <1>2, <1>4
<1> QED BY <1>5, <1>6

\* git returns for a call, which ends or goes on to load.
LEMMA GitReturnsStep ==
  ASSUME BranchesIInv, NEW c \in branchCalls, NEW n \in Branch, GitReturns(c, n)
  PROVE  BranchesIInv'
<1>1. c.at = "git" /\ UNCHANGED <<repositoryURL, repositoryGeneration, branches>>
  BY DEF GitReturns
<1>2. /\ head' \in [Repo -> Branch] /\ changes' \in [Repo -> 0 .. MaxChanges]
      /\ \A r \in Repo : changes'[r] \in Nat /\ changes[r] <= changes'[r]
  BY <1>1, GitChangesFacts DEF GitReturns
<1>3. /\ c \in BranchCall /\ c.branch \in Branch
      /\ c.kind \in {"switch", "resolve", "rename", "edit", "update"}
  BY <1>1 DEF BranchesIInv, BranchesTypeOK, BranchCall
<1> DEFINE over == repositoryURL = None \/ (c.kind \in {"switch", "resolve"} /\ ~IsCurrentTarget(c))
<1>4. CASE over
  <2>1. CallEnds(c) /\ UNCHANGED currentBranchName
    BY <1>4 DEF GitReturns
  <2>2. /\ branchCalls' \in SUBSET BranchCall /\ isLoading' \in BOOLEAN
        /\ pendingBranchName' \in Branch \cup {None}
        /\ stashGuardNeeded' \in [repo : Repo, pendingBranch : Branch] \cup {None}
        /\ GuardIsOfRepository' /\ PendingHasCall'
    BY <1>1, <2>1, EndKeeps
  <2>3. BranchesTypeOK'
    BY <1>1, <1>2, <2>1, <2>2 DEF BranchesIInv, BranchesTypeOK
  <2>4. branchCalls' \subseteq branchCalls
    BY <2>1 DEF CallEnds
  <2>5. ListsAreInOrder'
    BY <1>1, <1>2, <2>4, OrderIsKept
  <2> QED BY <2>2, <2>3, <2>5 DEF BranchesIInv
<1>5. CASE ~over
  <2> DEFINE others == branchCalls \ {c}
  <2>1. LoadBranches(others, c.kind, c.branch) /\ UNCHANGED <<stashGuardNeeded, pendingBranchName>>
    BY <1>5 DEF GitReturns
  <2>2. currentBranchName' \in Branch \cup {None}
    <3>1. currentBranchName' = CASE c.kind \in {"switch", "resolve"} -> c.branch
                                 [] c.kind = "rename" /\ currentBranchName = c.branch -> n
                                 [] OTHER -> currentBranchName
      BY <1>5 DEF GitReturns
    <3>2. currentBranchName \in Branch \cup {None}
      BY DEF BranchesIInv, BranchesTypeOK
    <3> QED BY <1>3, <3>1, <3>2
  <2>3. /\ others \in SUBSET BranchCall /\ isLoading \in BOOLEAN
        /\ repositoryURL' \in Repo \cup {None} /\ repositoryGeneration' \in 0 .. MaxGenerations
    BY <1>1 DEF BranchesIInv, BranchesTypeOK
  <2> HIDE DEF others
  <2>4. /\ branchCalls' \in SUBSET BranchCall /\ isLoading' \in BOOLEAN
        /\ \A d \in others : \E e \in branchCalls' : e.kind = d.kind /\ e.target = d.target
        /\ \A d \in branchCalls' : d.at = "listed" => d \in others
        /\ repositoryURL' # None =>
             \E d \in branchCalls' : /\ d.kind = c.kind
                                     /\ d.target = [repo |-> repositoryURL', generation |-> repositoryGeneration']
    <3>1. /\ c.kind \in {"load", "switch", "resolve", "rename", "edit", "update"}
          /\ c.branch \in Branch \cup {None}
          /\ c.kind # "load" => c.branch \in Branch
      BY <1>3
    <3> QED BY <2>1, <2>3, <3>1, LoadBranchesKeeps
  <2>5. BranchesTypeOK'
    BY <1>1, <1>2, <2>1, <2>2, <2>4 DEF BranchesIInv, BranchesTypeOK
  <2>6. ListsAreInOrder'
    BY <1>1, <1>2, <2>4, OrderIsKept DEF others
  <2>7. PendingHasCall'
    <3> SUFFICES ASSUME pendingBranchName # None
                 PROVE \E d \in branchCalls' : WillUnmark(d)'
      BY <2>1 DEF PendingHasCall
    <3>1. PICK d \in branchCalls : WillUnmark(d)
      BY DEF BranchesIInv, PendingHasCall
    <3>2. CASE d # c
      BY <1>1, <2>4, <3>1, <3>2 DEF others, WillUnmark, IsCurrentTarget
    <3>3. CASE d = c
      BY <1>1, <1>5, <2>4, <3>1, <3>3 DEF WillUnmark, IsCurrentTarget
    <3> QED BY <3>2, <3>3
  <2> QED BY <1>1, <2>1, <2>5, <2>6, <2>7 DEF BranchesIInv, GuardIsOfRepository
<1> QED BY <1>4, <1>5

\* git fails for a call, or branches are changed elsewhere.
LEMMA BranchesElsewhere ==
  ASSUME BranchesIInv,
         \/ \E c \in branchCalls, n \in Branch : GitFails(c, n)
         \/ \E r \in Repo : OthersBranch(r)
  PROVE  BranchesIInv'
<1>1. ASSUME NEW c \in branchCalls, NEW n \in Branch, GitFails(c, n) PROVE BranchesIInv'
  <2>1. CallEnds(c) /\ UNCHANGED <<repositoryURL, repositoryGeneration, currentBranchName, branches>>
    BY <1>1 DEF GitFails
  <2>2. /\ head' \in [Repo -> Branch] /\ changes' \in [Repo -> 0 .. MaxChanges]
        /\ \A r \in Repo : changes'[r] \in Nat /\ changes[r] <= changes'[r]
    <3>1. CASE c.at = "git"
      BY <1>1, <3>1, GitChangesFacts DEF GitFails
    <3>2. CASE c.at # "git"
      BY <1>1, <3>2, BranchesAssumption DEF GitFails, BranchesIInv, BranchesTypeOK
    <3> QED BY <3>1, <3>2
  <2>3. /\ branchCalls' \in SUBSET BranchCall /\ isLoading' \in BOOLEAN
        /\ pendingBranchName' \in Branch \cup {None}
        /\ stashGuardNeeded' \in [repo : Repo, pendingBranch : Branch] \cup {None}
        /\ GuardIsOfRepository' /\ PendingHasCall'
    BY <2>1, EndKeeps
  <2>4. BranchesTypeOK'
    BY <2>1, <2>2, <2>3 DEF BranchesIInv, BranchesTypeOK
  <2>5. branchCalls' \subseteq branchCalls
    BY <2>1 DEF CallEnds
  <2>6. ListsAreInOrder'
    BY <2>1, <2>2, <2>5, OrderIsKept
  <2> QED BY <2>3, <2>4, <2>6 DEF BranchesIInv
<1>2. ASSUME NEW r \in Repo, OthersBranch(r) PROVE BranchesIInv'
  <2>1. /\ changes[r] < MaxChanges /\ changes' = [changes EXCEPT ![r] = @ + 1]
        /\ \E b \in Branch : head' = [head EXCEPT ![r] = b]
        /\ UNCHANGED <<repositoryURL, repositoryGeneration, currentBranchName, branches,
                        isLoading, stashGuardNeeded, pendingBranchName, branchCalls>>
    BY <1>2 DEF OthersBranch
  <2>2. /\ head' \in [Repo -> Branch] /\ changes' \in [Repo -> 0 .. MaxChanges]
        /\ \A q \in Repo : changes'[q] \in Nat /\ changes[q] <= changes'[q]
    BY <2>1, BranchesAssumption DEF BranchesIInv, BranchesTypeOK
  <2>3. BranchesTypeOK'
    BY <2>1, <2>2 DEF BranchesIInv, BranchesTypeOK
  <2>4. ListsAreInOrder'
    BY <2>1, <2>2, OrderIsKept
  <2>5. PendingHasCall'
    BY <2>1, MarkIsKept
  <2> QED BY <2>1, <2>3, <2>4, <2>5 DEF BranchesIInv, GuardIsOfRepository
<1> QED BY <1>1, <1>2

\* A step that changes nothing of the panel.
LEMMA StutterKeeps ==
  ASSUME BranchesIInv, UNCHANGED <<selectedRepository, branchVars>>
  PROVE  BranchesIInv'
BY DEF branchVars, BranchesIInv, BranchesTypeOK, GuardIsOfRepository, PendingHasCall, WillUnmark,
       IsCurrentTarget, ListsAreInOrder

\* Every step keeps the inductive invariant.
LEMMA NextBranchesIInv == BranchesIInv /\ [BranchesNext]_<<selectedRepository, branchVars>> => BranchesIInv'
<1> SUFFICES ASSUME BranchesIInv, [BranchesNext]_<<selectedRepository, branchVars>> PROVE BranchesIInv'
  OBVIOUS
<1>1. CASE BranchesNext
  BY <1>1, PointingSteps, BeginningSteps, ListingStep, ListStep, StatusStep, GitReturnsStep, BranchesElsewhere
     DEF BranchesNext
<1>2. CASE UNCHANGED <<selectedRepository, branchVars>>
  BY <1>2, StutterKeeps
<1> QED BY <1>1, <1>2

-----------------------------------------------------------------------------
(* What follows for the branches.                                          *)

\* The inductive invariant holds throughout.
THEOREM BranchesInvariance == BranchesSpec => []BranchesIInv
  BY InitBranchesIInv, NextBranchesIInv, PTL DEF BranchesSpec

\* Every variable of the panel has its type: no call begins but for a repository.
THEOREM BranchesTypeCorrect == BranchesSpec => []BranchesTypeOK
<1>1. BranchesIInv => BranchesTypeOK
  BY DEF BranchesIInv
<1> QED BY <1>1, BranchesInvariance, PTL

\* The stash guard never asks about a repository that the panel has left: what its
\* answer stashes, discards and switches is what the user sees.
THEOREM GuardAsksForShown == BranchesSpec => []GuardIsOfRepository
<1>1. BranchesIInv => GuardIsOfRepository
  BY DEF BranchesIInv
<1> QED BY <1>1, BranchesInvariance, PTL

\* No branch stays marked for ever: the defer of a call that is under way takes every
\* mark back, however repositories and calls come and go.
THEOREM MarksAreTakenBack == BranchesSpec => []PendingHasCall
<1>1. BranchesIInv => PendingHasCall
  BY DEF BranchesIInv
<1> QED BY <1>1, BranchesInvariance, PTL

\* Lists are shown in the order in which they were read.
LEMMA StepKeepsOrder ==
  ASSUME BranchesIInv, [BranchesNext]_<<selectedRepository, branchVars>>
  PROVE  branches # None /\ branches.repo = repositoryURL /\ repositoryURL' = repositoryURL
         => branches'.repo = repositoryURL /\ branches'.list >= branches.list
<1>1. branches' = branches \/ \E c \in branchCalls : ListReturns(c)
  BY DEF BranchesNext, SwitchBranches, TipChanges, OpenMenu, SwitchBranch, BeginBranchOp, ResolveStashGuard,
         ListIsRead, StatusReturns, GitReturns, GitFails, OthersBranch, branchVars
<1>2. branches # None => branches.list \in Nat
  BY DEF BranchesIInv, BranchesTypeOK
<1>3. CASE branches' = branches
  BY <1>2, <1>3
<1>4. ASSUME NEW c \in branchCalls, ListReturns(c)
      PROVE branches # None /\ branches.repo = repositoryURL /\ repositoryURL' = repositoryURL
            => branches'.repo = repositoryURL /\ branches'.list >= branches.list
  <2>1. c.at = "listed" /\ branches' = ListAfter(c) /\ c.list \in Nat
    BY <1>4 DEF ListReturns, BranchesIInv, BranchesTypeOK, BranchCall
  <2> QED BY <1>2, <2>1 DEF ListAfter, IsCurrentTarget, BranchesIInv, ListsAreInOrder
<1> QED BY <1>1, <1>3, <1>4

\* loadBranches never takes the list back to an older one, nor to that of another
\* repository.
THEOREM ListsGoForward == BranchesSpec => ListNeverGoesBack
<1>1. BranchesIInv /\ [BranchesNext]_<<selectedRepository, branchVars>>
      => [ branches # None /\ branches.repo = repositoryURL /\ repositoryURL' = repositoryURL
           => branches'.repo = repositoryURL /\ branches'.list >= branches.list
         ]_<<selectedRepository, branchVars>>
  BY StepKeepsOrder
<1> QED BY <1>1, BranchesInvariance, PTL DEF BranchesSpec, ListNeverGoesBack

-----------------------------------------------------------------------------
(* StashPanels.                                                            *)

\* Also while an action of the sheet is under way, what it names is where it was.
SheetIsCurrent == sheet.at \in {"idle", "acting"} /\ ~disturbed => sheet.list = stack[sheet.repo]

StashIInv == StashTypeOK /\ selectedRepository \in Repo \cup {None} /\ SheetIsCurrent

\* Without one of its elements, a sequence still has each of the others once.
LEMMA RemovedFacts ==
  ASSUME NEW S, NEW s \in Seq(S), NEW i \in DOMAIN s, IsInjective(s)
  PROVE  RemoveAt(s, i) \in Seq(S) /\ IsInjective(RemoveAt(s, i))
<1> DEFINE front == SubSeq(s, 1, i - 1)
           back  == SubSeq(s, i + 1, Len(s))
           t     == front \o back
<1>0. /\ Len(s) \in Nat /\ i \in Nat /\ i <= Len(s) /\ 1 <= i /\ DOMAIN s = 1 .. Len(s)
      /\ \A k \in 1 .. Len(s) : s[k] \in S
  BY LenProperties, ElementOfSeq
<1>1. front \in Seq(S) /\ Len(front) = i - 1 /\ \A k \in 1 .. (i - 1) : front[k] = s[k]
  BY <1>0, SubSeqProperties
<1>2. /\ back \in Seq(S) /\ Len(back) = Len(s) - i
      /\ \A k \in 1 .. (Len(s) - i) : back[k] = s[i + k]
  BY <1>0, SubSeqProperties
<1>3. RemoveAt(s, i) = t
  BY DEF RemoveAt
<1>4. /\ t \in Seq(S) /\ Len(t) = Len(front) + Len(back)
      /\ \A k \in 1 .. (Len(front) + Len(back)) :
           t[k] = IF k <= Len(front) THEN front[k] ELSE back[k - Len(front)]
  <2> HIDE DEF front, back
  <2> QED BY <1>1, <1>2, ConcatProperties, Zenon
<1> HIDE DEF front, back, t
<1>5. DOMAIN t = 1 .. Len(s) - 1
  BY <1>0, <1>1, <1>2, <1>4, LenProperties
<1>6. \A k \in 1 .. Len(s) - 1 : t[k] = s[IF k < i THEN k ELSE k + 1]
  <2> SUFFICES ASSUME NEW k \in 1 .. Len(s) - 1 PROVE t[k] = s[IF k < i THEN k ELSE k + 1]
    OBVIOUS
  <2>1. t[k] = IF k <= Len(front) THEN front[k] ELSE back[k - Len(front)]
    BY <1>0, <1>1, <1>2, <1>4
  <2>2. CASE k < i
    BY <1>0, <1>1, <2>1, <2>2
  <2>3. CASE ~(k < i)
    BY <1>0, <1>1, <1>2, <2>1, <2>3
  <2> QED BY <2>2, <2>3
<1>7. \A a, b \in 1 .. Len(s) : s[a] = s[b] => a = b
  BY <1>0 DEF IsInjective
<1>8. \A a, b \in 1 .. Len(s) - 1 : t[a] = t[b] => a = b
  BY <1>0, <1>6, <1>7
<1> QED BY <1>3, <1>4, <1>5, <1>8 DEF IsInjective

\* In front of the others, a new element is there once.
LEMMA AddedFacts ==
  ASSUME NEW S, NEW s \in Seq(S), NEW x \in S, IsInjective(s), x \notin Range(s)
  PROVE  <<x>> \o s \in Seq(S) /\ IsInjective(<<x>> \o s)
<1>0. Len(s) \in Nat /\ DOMAIN s = 1 .. Len(s) /\ \A k \in 1 .. Len(s) : s[k] \in S
  BY LenProperties, ElementOfSeq
<1>1. <<x>> \in Seq(S) /\ Len(<<x>>) = 1 /\ <<x>>[1] = x
  OBVIOUS
<1>2. /\ <<x>> \o s \in Seq(S) /\ Len(<<x>> \o s) = 1 + Len(s)
      /\ \A k \in 1 .. 1 + Len(s) : (<<x>> \o s)[k] = IF k <= 1 THEN x ELSE s[k - 1]
  BY <1>0, <1>1, ConcatProperties
<1>3. DOMAIN (<<x>> \o s) = 1 .. 1 + Len(s)
  BY <1>2, LenProperties
<1>4. /\ \A a, b \in 1 .. Len(s) : s[a] = s[b] => a = b
      /\ \A a \in 1 .. Len(s) : s[a] # x
  BY <1>0 DEF IsInjective, Range
<1> DEFINE t == <<x>> \o s
<1>5. /\ t \in Seq(S) /\ DOMAIN t = 1 .. 1 + Len(s)
      /\ \A k \in 1 .. 1 + Len(s) : t[k] = IF k <= 1 THEN x ELSE s[k - 1]
  BY <1>2, <1>3
<1> HIDE DEF t
<1>6. \A a, b \in 1 .. 1 + Len(s) : t[a] = t[b] => a = b
  <2> SUFFICES ASSUME NEW a \in 1 .. 1 + Len(s), NEW b \in 1 .. 1 + Len(s), t[a] = t[b] PROVE a = b
    OBVIOUS
  <2>1. CASE a = 1 /\ b > 1
    <3>1. t[b] = s[b - 1] /\ b - 1 \in 1 .. Len(s) /\ t[a] = x
      BY <1>0, <1>5, <2>1
    <3> QED BY <1>4, <3>1
  <2>2. CASE b = 1 /\ a > 1
    <3>1. t[a] = s[a - 1] /\ a - 1 \in 1 .. Len(s) /\ t[b] = x
      BY <1>0, <1>5, <2>2
    <3> QED BY <1>4, <3>1
  <2>3. CASE a > 1 /\ b > 1
    <3>1. /\ t[a] = s[a - 1] /\ a - 1 \in 1 .. Len(s)
          /\ t[b] = s[b - 1] /\ b - 1 \in 1 .. Len(s)
      BY <1>0, <1>5, <2>3
    <3>2. a - 1 = b - 1
      BY <1>4, <3>1
    <3> QED BY <1>0, <3>2
  <2> QED BY <1>0, <2>1, <2>2, <2>3
<1>7. t \in Seq(S) /\ IsInjective(t)
  BY <1>5, <1>6 DEF IsInjective
<1> QED BY <1>7 DEF t

StacksOK(r) ==
  /\ stack' \in [Repo -> Seq(Stash)] /\ \A q \in Repo : IsInjective(stack'[q])
  /\ mistaken' \in SUBSET Stash
  /\ \A q \in Repo : q # r => stack'[q] = stack[q]

\* A stash is made.
LEMMA PushFacts ==
  ASSUME StashTypeOK, NEW r \in Repo, NEW s \in Stash, Push(r, s)
  PROVE  StacksOK(r)
<1>1. /\ stack \in [Repo -> Seq(Stash)] /\ \A q \in Repo : stack[q] \in Seq(Stash) /\ IsInjective(stack[q])
      /\ mistaken \in SUBSET Stash
  BY DEF StashTypeOK
<1>2. s \notin Range(stack[r]) /\ stack' = [stack EXCEPT ![r] = <<s>> \o @] /\ mistaken' = mistaken
  BY DEF Push, IsNew
<1> DEFINE q == <<s>> \o stack[r]
<1>3. q \in Seq(Stash) /\ IsInjective(q)
  BY <1>1, <1>2, AddedFacts
<1>4. stack' = [stack EXCEPT ![r] = q]
  BY <1>2
<1> HIDE DEF q
<1> QED BY <1>1, <1>2, <1>3, <1>4 DEF StacksOK

\* A stash is taken off.
LEMMA TakeOffFacts ==
  ASSUME StashTypeOK, NEW r \in Repo, NEW i, NEW kind, NEW chosen, TakeOff(r, i, kind, chosen)
  PROVE  StacksOK(r)
<1>1. /\ stack \in [Repo -> Seq(Stash)] /\ \A q \in Repo : stack[q] \in Seq(Stash) /\ IsInjective(stack[q])
      /\ mistaken \in SUBSET Stash
  BY DEF StashTypeOK
<1>2. /\ i \in DOMAIN stack[r] /\ stack' = [stack EXCEPT ![r] = RemoveAt(@, i)]
      /\ mistaken' \in {mistaken \cup {stack[r][i]}, mistaken}
  BY DEF TakeOff
<1>3. stack[r][i] \in Stash
  BY <1>1, <1>2, ElementOfSeq, LenProperties
<1> DEFINE q == RemoveAt(stack[r], i)
<1>4. q \in Seq(Stash) /\ IsInjective(q)
  BY <1>1, <1>2, RemovedFacts
<1>5. stack' = [stack EXCEPT ![r] = q]
  BY <1>2
<1> HIDE DEF q
<1> QED BY <1>1, <1>2, <1>3, <1>4, <1>5 DEF StacksOK

\* Nothing happens to the stacks.
LEMMA NoEffectFacts ==
  ASSUME StashTypeOK, UNCHANGED <<stack, mistaken>>, NEW r \in Repo
  PROVE  StacksOK(r)
BY DEF StashTypeOK, StacksOK

\* What an action of the sheet does.
LEMMA SheetEffectFacts ==
  ASSUME StashTypeOK, NEW a \in SheetAction, SheetEffect(a)
  PROVE  a.repo \in Repo /\ StacksOK(a.repo)
<1>1. a.repo \in Repo
  BY DEF SheetAction
<1>2. CASE a.kind = "apply"
  BY <1>1, <1>2, NoEffectFacts DEF SheetEffect
<1>3. CASE a.kind # "apply"
  <2>1. TakeOff(a.repo, a.position, a.kind, a.chosen)
    BY <1>3 DEF SheetEffect
  <2> QED BY <1>1, <2>1, TakeOffFacts
<1> QED BY <1>1, <1>2, <1>3

\* What the sheet is.
LEMMA SheetFacts ==
  ASSUME StashTypeOK
  PROVE  /\ sheet = Closed => sheet.at = "closed"
         /\ sheet # Closed => /\ sheet.at \in {"loading", "idle", "reloading", "acting"}
                              /\ sheet.repo \in Repo /\ sheet.list \in Seq(Stash)
         /\ sheet.at = "acting" => sheet.action \in SheetAction /\ sheet # Closed
         /\ sheet.at \in {"loading", "reloading", "idle"} => sheet # Closed
BY DEF StashTypeOK, Closed

\* Whoever changes a stack disturbs the sheet of its repository, and no other.
LEMMA DisturbsFacts ==
  ASSUME StashIInv, NEW r \in Repo, StacksOK(r), Disturbs(r), sheet' = sheet
  PROVE  disturbed' \in BOOLEAN /\ SheetIsCurrent'
<1>1. disturbed \in BOOLEAN /\ SheetIsCurrent
  BY DEF StashIInv, StashTypeOK
<1>2. disturbed' = (disturbed \/ (sheet # Closed /\ sheet.repo = r /\ stack' # stack))
  BY DEF Disturbs
<1>3. ASSUME sheet.at \in {"idle", "acting"}, ~disturbed' PROVE sheet.list = stack'[sheet.repo]
  <2>1. sheet # Closed /\ sheet.repo \in Repo
    BY <1>3, SheetFacts DEF StashIInv
  <2>2. ~disturbed /\ stack'[sheet.repo] = stack[sheet.repo]
    BY <1>2, <1>3, <2>1 DEF StacksOK
  <2> QED BY <1>1, <1>3, <2>2 DEF SheetIsCurrent
<1> QED BY <1>2, <1>3 DEF SheetIsCurrent

\* At the start there is no stash.
LEMMA InitStashIInv == StashInit => StashIInv
<1> SUFFICES ASSUME StashInit PROVE StashIInv
  OBVIOUS
<1>1. stack \in [Repo -> Seq(Stash)] /\ \A r \in Repo : IsInjective(stack[r])
  BY DEF StashInit, IsInjective
<1> QED BY <1>1 DEF StashInit, StashIInv, StashTypeOK, SheetIsCurrent, Closed

\* git stash in a terminal.
LEMMA OthersStashStep ==
  ASSUME StashIInv, NEW r \in Repo, OthersStash(r)
  PROVE  StashIInv'
<1>1. /\ Disturbs(r)
      /\ UNCHANGED <<selectedRepository, stashEntry, isWorkingTreeMutationInProgress, panelOps, sheet,
                     leftOver>>
  BY DEF OthersStash
<1>2. StacksOK(r)
  <2>1. ASSUME NEW s \in Stash, Push(r, s) PROVE StacksOK(r)
    BY <2>1, PushFacts DEF StashIInv
  <2>2. ASSUME TakeOff(r, 1, "pop", None) PROVE StacksOK(r)
    BY <2>2, TakeOffFacts DEF StashIInv
  <2> QED BY <2>1, <2>2 DEF OthersStash
<1>3. disturbed' \in BOOLEAN /\ SheetIsCurrent'
  BY <1>1, <1>2, DisturbsFacts
<1>4. StashTypeOK'
  BY <1>1, <1>2, <1>3 DEF StashIInv, StashTypeOK, StacksOK
<1> QED BY <1>1, <1>3, <1>4 DEF StashIInv

\* The panel shows another stash, or none.
LEMMA ShownSteps ==
  ASSUME StashIInv, StashIsFetched \/ \E r \in Repo \cup {None} : SwitchStash(r)
  PROVE  StashIInv'
<1>1. /\ selectedRepository' \in Repo \cup {None} /\ stashEntry' \in Stash \cup {None}
      /\ isWorkingTreeMutationInProgress' \in BOOLEAN
      /\ UNCHANGED <<stack, panelOps, sheet, leftOver, disturbed, mistaken>>
  <2>1. CASE StashIsFetched
    <3>1. /\ selectedRepository \in Repo
          /\ stashEntry' \in {Newest(selectedRepository), None}
          /\ UNCHANGED <<selectedRepository, stack, isWorkingTreeMutationInProgress, panelOps, sheet,
                         leftOver, disturbed, mistaken>>
      BY <2>1 DEF StashIsFetched, StashIInv
    <3>2. stack[selectedRepository] \in Seq(Stash)
      BY <3>1 DEF StashIInv, StashTypeOK
    <3>3. Newest(selectedRepository) \in Stash \cup {None}
      BY <3>2 DEF Newest
    <3> QED BY <3>1, <3>3 DEF StashIInv, StashTypeOK
  <2>2. ASSUME NEW r \in Repo \cup {None}, SwitchStash(r)
        PROVE  /\ selectedRepository' \in Repo \cup {None} /\ stashEntry' \in Stash \cup {None}
               /\ isWorkingTreeMutationInProgress' \in BOOLEAN
               /\ UNCHANGED <<stack, panelOps, sheet, leftOver, disturbed, mistaken>>
    BY <2>2 DEF SwitchStash, Selects
  <2> QED BY <2>1, <2>2
<1>2. StashTypeOK'
  BY <1>1 DEF StashIInv, StashTypeOK
<1>3. SheetIsCurrent'
  BY <1>1 DEF StashIInv, SheetIsCurrent
<1> QED BY <1>1, <1>2, <1>3 DEF StashIInv

\* An operation of the panel begins, or its refresh is over.
LEMMA PanelSteps ==
  ASSUME StashIInv,
         (\E kind \in {"pop", "drop", "push"} : BeginPanelOp(kind)) \/ \E o \in panelOps : PanelOpReturns(o)
  PROVE  StashIInv'
<1>1. /\ panelOps' \in SUBSET PanelOp /\ isWorkingTreeMutationInProgress' \in BOOLEAN
      /\ UNCHANGED <<selectedRepository, stack, stashEntry, sheet, leftOver, disturbed, mistaken>>
  <2>1. ASSUME NEW kind \in {"pop", "drop", "push"}, BeginPanelOp(kind)
        PROVE  /\ panelOps' \in SUBSET PanelOp /\ isWorkingTreeMutationInProgress' \in BOOLEAN
               /\ UNCHANGED <<selectedRepository, stack, stashEntry, sheet, leftOver, disturbed, mistaken>>
    <3> DEFINE o == [kind |-> kind, at |-> "git", repo |-> selectedRepository,
                     chosen |-> IF kind = "push" THEN None ELSE stashEntry]
    <3>1. /\ selectedRepository \in Repo /\ stashEntry \in Stash \cup {None}
          /\ panelOps \in SUBSET PanelOp
      BY <2>1 DEF BeginPanelOp, StashIInv, StashTypeOK
    <3>2. o \in PanelOp
      BY <3>1 DEF PanelOp
    <3>3. panelOps' = panelOps \cup {o}
      BY <2>1 DEF BeginPanelOp
    <3> HIDE DEF o
    <3> QED BY <2>1, <3>1, <3>2, <3>3 DEF BeginPanelOp
  <2>2. ASSUME NEW o \in panelOps, PanelOpReturns(o)
        PROVE  /\ panelOps' \in SUBSET PanelOp /\ isWorkingTreeMutationInProgress' \in BOOLEAN
               /\ UNCHANGED <<selectedRepository, stack, stashEntry, sheet, leftOver, disturbed, mistaken>>
    BY <2>2 DEF PanelOpReturns, StashIInv, StashTypeOK
  <2> QED BY <2>1, <2>2
<1>2. StashTypeOK'
  BY <1>1 DEF StashIInv, StashTypeOK
<1>3. SheetIsCurrent'
  BY <1>1 DEF StashIInv, SheetIsCurrent
<1> QED BY <1>1, <1>2, <1>3 DEF StashIInv

\* git returns to the panel, or fails.
LEMMA PanelGitSteps ==
  ASSUME StashIInv, NEW o \in panelOps, PanelOpSucceeds(o) \/ PanelOpFails(o)
  PROVE  StashIInv'
<1>1. /\ PanelEffect(o) \/ UNCHANGED <<stack, disturbed, mistaken>>
      /\ isWorkingTreeMutationInProgress' \in {isWorkingTreeMutationInProgress, FALSE}
      /\ UNCHANGED <<selectedRepository, stashEntry, sheet, leftOver>>
      /\ panelOps' \in {panelOps \ {o}, (panelOps \ {o}) \cup {[o EXCEPT !.at = "refreshing"]}}
  BY DEF PanelOpSucceeds, PanelOpFails
<1>2. o \in PanelOp /\ o.repo \in Repo /\ [o EXCEPT !.at = "refreshing"] \in PanelOp
  BY DEF StashIInv, StashTypeOK, PanelOp
<1>3. StacksOK(o.repo) /\ disturbed' \in BOOLEAN /\ SheetIsCurrent'
  <2>1. CASE PanelEffect(o)
    <3>1. StacksOK(o.repo)
      <4>1. ASSUME NEW s \in Stash, Push(o.repo, s) PROVE StacksOK(o.repo)
        BY <1>2, <4>1, PushFacts DEF StashIInv
      <4>2. ASSUME TakeOff(o.repo, 1, o.kind, o.chosen) PROVE StacksOK(o.repo)
        BY <1>2, <4>2, TakeOffFacts DEF StashIInv
      <4> QED BY <2>1, <4>1, <4>2 DEF PanelEffect
    <3>2. Disturbs(o.repo)
      BY <2>1 DEF PanelEffect
    <3> QED BY <1>1, <1>2, <3>1, <3>2, DisturbsFacts
  <2>2. CASE UNCHANGED <<stack, disturbed, mistaken>>
    <3>1. StacksOK(o.repo)
      BY <1>2, <2>2, NoEffectFacts DEF StashIInv
    <3> QED BY <1>1, <2>2, <3>1 DEF StashIInv, StashTypeOK, SheetIsCurrent
  <2> QED BY <1>1, <2>1, <2>2
<1>4. StashTypeOK'
  BY <1>1, <1>2, <1>3 DEF StashIInv, StashTypeOK, StacksOK
<1> QED BY <1>1, <1>3, <1>4 DEF StashIInv

\* The sheet is opened or closed, or an action of it begins.
LEMMA SheetSteps ==
  ASSUME StashIInv,
         \/ OpenSheet \/ CloseSheet
         \/ sheet.at = "idle" /\ \E kind \in Kind, row \in DOMAIN sheet.list : BeginSheetAction(kind, row)
  PROVE  StashIInv'
<1>1. CASE OpenSheet
  <2>1. /\ selectedRepository \in Repo
        /\ sheet' = [at |-> "loading", repo |-> selectedRepository, list |-> <<>>]
        /\ UNCHANGED <<selectedRepository, stack, stashEntry, isWorkingTreeMutationInProgress, panelOps,
                       leftOver, disturbed, mistaken>>
    BY <1>1 DEF OpenSheet, StashIInv
  <2>2. StashTypeOK'
    BY <2>1 DEF StashIInv, StashTypeOK
  <2> QED BY <2>1, <2>2 DEF StashIInv, SheetIsCurrent
<1>2. CASE CloseSheet
  <2>1. /\ leftOver' = IF sheet.at = "acting" THEN leftOver \cup {sheet.action} ELSE leftOver
        /\ sheet' = Closed /\ disturbed' = FALSE
        /\ UNCHANGED <<selectedRepository, stack, stashEntry, isWorkingTreeMutationInProgress, panelOps,
                       mistaken>>
    BY <1>2 DEF CloseSheet
  <2>2. leftOver' \in SUBSET SheetAction
    BY <2>1, SheetFacts DEF StashIInv, StashTypeOK
  <2>3. StashTypeOK'
    BY <2>1, <2>2 DEF StashIInv, StashTypeOK
  <2> QED BY <2>1, <2>3 DEF StashIInv, SheetIsCurrent, Closed
<1>3. ASSUME NEW kind \in Kind, NEW row \in DOMAIN sheet.list, BeginSheetAction(kind, row)
      PROVE  StashIInv'
  <2> DEFINE a == [kind |-> kind, repo |-> sheet.repo, position |-> row, chosen |-> sheet.list[row]]
  <2>1. /\ sheet.at = "idle"
        /\ sheet' = [at |-> "acting", repo |-> sheet.repo, list |-> sheet.list, action |-> a]
        /\ UNCHANGED <<selectedRepository, stack, stashEntry, isWorkingTreeMutationInProgress, panelOps,
                       leftOver, disturbed, mistaken>>
    BY <1>3 DEF BeginSheetAction
  <2>2. sheet.repo \in Repo /\ sheet.list \in Seq(Stash)
    BY <2>1, SheetFacts DEF StashIInv
  <2>3. row \in Nat \ {0} /\ sheet.list[row] \in Stash
    BY <2>2, LenProperties, ElementOfSeq
  <2>4. a \in SheetAction
    BY <2>2, <2>3 DEF SheetAction
  <2> HIDE DEF a
  <2>5. StashTypeOK'
    BY <2>1, <2>2, <2>4 DEF StashIInv, StashTypeOK
  <2>6. SheetIsCurrent'
    BY <2>1 DEF StashIInv, SheetIsCurrent
  <2> QED BY <2>1, <2>5, <2>6 DEF StashIInv
<1> QED BY <1>1, <1>2, <1>3

\* The list of the sheet is loaded, or not.
LEMMA SheetLoadedStep ==
  ASSUME StashIInv, NEW isRead \in BOOLEAN, SheetIsLoaded(isRead)
  PROVE  StashIInv'
<1> DEFINE list == IF isRead THEN stack[sheet.repo] ELSE sheet.list
<1>1. /\ sheet.at \in {"loading", "reloading"}
      /\ sheet' = [at |-> "idle", repo |-> sheet.repo, list |-> list]
      /\ disturbed' = ((disturbed /\ ~isRead) \/ sheet'.list # stack[sheet.repo])
      /\ UNCHANGED <<selectedRepository, stack, stashEntry, isWorkingTreeMutationInProgress, panelOps,
                     leftOver, mistaken>>
  BY DEF SheetIsLoaded
<1>2. sheet.repo \in Repo /\ sheet.list \in Seq(Stash)
  BY <1>1, SheetFacts DEF StashIInv
<1>3. list \in Seq(Stash)
  BY <1>2 DEF StashIInv, StashTypeOK
<1> HIDE DEF list
<1>4. disturbed' \in BOOLEAN
  BY <1>1
<1>5. StashTypeOK'
  BY <1>1, <1>2, <1>3, <1>4 DEF StashIInv, StashTypeOK
<1>6. SheetIsCurrent'
  BY <1>1 DEF SheetIsCurrent
<1> QED BY <1>1, <1>5, <1>6 DEF StashIInv

\* An action of the sheet returns or fails.
LEMMA SheetGitSteps ==
  ASSUME StashIInv, SheetActionSucceeds \/ SheetActionFails
  PROVE  StashIInv'
<1>1. /\ sheet.at = "acting"
      /\ UNCHANGED <<selectedRepository, stashEntry, isWorkingTreeMutationInProgress, panelOps, leftOver>>
  BY DEF SheetActionSucceeds, SheetActionFails
<1>2. sheet.action \in SheetAction /\ sheet.repo \in Repo /\ sheet.list \in Seq(Stash)
  BY <1>1, SheetFacts DEF StashIInv
<1>3. StacksOK(sheet.action.repo)
  <2>1. CASE SheetEffect(sheet.action)
    BY <1>2, <2>1, SheetEffectFacts DEF StashIInv
  <2>2. CASE UNCHANGED <<stack, mistaken>>
    BY <1>2, <2>2, NoEffectFacts DEF StashIInv, SheetAction
  <2> QED BY <2>1, <2>2 DEF SheetActionSucceeds, SheetActionFails
<1>4. CASE SheetActionSucceeds
  <2>1. sheet' = [at |-> "reloading", repo |-> sheet.repo, list |-> sheet.list] /\ disturbed' = disturbed
    BY <1>4 DEF SheetActionSucceeds
  <2>2. StashTypeOK'
    BY <1>1, <1>2, <1>3, <2>1 DEF StashIInv, StashTypeOK, StacksOK
  <2> QED BY <1>1, <2>1, <2>2 DEF StashIInv, SheetIsCurrent
<1>5. CASE SheetActionFails
  <2>1. /\ sheet' = [at |-> "idle", repo |-> sheet.repo, list |-> sheet.list]
        /\ disturbed' = (disturbed \/ stack' # stack) \/ UNCHANGED <<stack, disturbed>>
    BY <1>5 DEF SheetActionFails
  <2>2. disturbed' \in BOOLEAN
    BY <2>1 DEF StashIInv, StashTypeOK
  <2>3. StashTypeOK'
    BY <1>1, <1>2, <1>3, <2>1, <2>2 DEF StashIInv, StashTypeOK, StacksOK
  <2>4. SheetIsCurrent'
    BY <1>1, <2>1 DEF StashIInv, SheetIsCurrent
  <2> QED BY <1>1, <2>3, <2>4 DEF StashIInv
<1> QED BY <1>4, <1>5

\* An action of a sheet that was closed ends.
LEMMA LeftOverStep ==
  ASSUME StashIInv, NEW a \in leftOver, LeftOverEnds(a)
  PROVE  StashIInv'
<1>1. /\ (SheetEffect(a) /\ Disturbs(a.repo)) \/ UNCHANGED <<stack, mistaken, disturbed>>
      /\ leftOver' = leftOver \ {a}
      /\ UNCHANGED <<selectedRepository, stashEntry, isWorkingTreeMutationInProgress, panelOps, sheet>>
  BY DEF LeftOverEnds
<1>2. a \in SheetAction /\ a.repo \in Repo
  BY DEF StashIInv, StashTypeOK, SheetAction
<1>3. StacksOK(a.repo) /\ disturbed' \in BOOLEAN /\ SheetIsCurrent'
  <2>1. CASE SheetEffect(a) /\ Disturbs(a.repo)
    <3>1. StacksOK(a.repo)
      BY <1>2, <2>1, SheetEffectFacts DEF StashIInv
    <3> QED BY <1>1, <1>2, <2>1, <3>1, DisturbsFacts
  <2>2. CASE UNCHANGED <<stack, mistaken, disturbed>>
    <3>1. StacksOK(a.repo)
      BY <1>2, <2>2, NoEffectFacts DEF StashIInv
    <3> QED BY <1>1, <2>2, <3>1 DEF StashIInv, StashTypeOK, SheetIsCurrent
  <2> QED BY <1>1, <2>1, <2>2
<1>4. StashTypeOK'
  BY <1>1, <1>3 DEF StashIInv, StashTypeOK, StacksOK
<1> QED BY <1>1, <1>3, <1>4 DEF StashIInv

\* Every step keeps the inductive invariant.
LEMMA NextStashIInv ==
  StashIInv /\ [StashNext]_<<selectedRepository, stashVars>> => StashIInv'
<1> SUFFICES ASSUME StashIInv, [StashNext]_<<selectedRepository, stashVars>> PROVE StashIInv'
  OBVIOUS
<1>1. CASE UNCHANGED <<selectedRepository, stashVars>>
  BY <1>1 DEF stashVars, StashIInv, StashTypeOK, SheetIsCurrent
<1> QED BY <1>1, OthersStashStep, ShownSteps, PanelSteps, PanelGitSteps, SheetSteps, SheetLoadedStep,
           SheetGitSteps, LeftOverStep DEF StashNext

-----------------------------------------------------------------------------
(* What follows for the stashes.                                           *)

\* The inductive invariant holds throughout.
THEOREM StashInvariance == StashSpec => []StashIInv
  BY InitStashIInv, NextStashIInv, PTL DEF StashSpec

\* Every variable of the stash panel and its sheet has its type: a stack holds no stash
\* twice.
THEOREM StashTypeCorrect == StashSpec => []StashTypeOK
<1>1. StashIInv => StashTypeOK
  BY DEF StashIInv
<1> QED BY <1>1, StashInvariance, PTL

\* perform loads the list again after every action, so the positions that the sheet
\* names are those of the stack, unless something else disturbed it.
THEOREM SheetStaysInStep == StashSpec => []SheetIsInStep
<1>1. StashIInv => SheetIsInStep
  BY DEF StashIInv, SheetIsCurrent, SheetIsInStep
<1> QED BY <1>1, StashInvariance, PTL

-----------------------------------------------------------------------------
(* ConflictSheet.                                                          *)

IsAction(c) == c.kind # "begin"

\* Only a button's call waits for git; the sheet is open for a repository; who holds
\* the flag is a button's call.
CallsOK ==
  /\ \A c \in conflictCalls : ~IsAction(c) => c.at \in {"listing", "listed"}
  /\ isResolvingConflicts => selectedRepository # None
  /\ isConflictActionInProgress => \E c \in conflictCalls : IsAction(c)

\* Unless something strayed, there is one such call, and it is of the selected
\* repository.
OneAction ==
  strayed = "no" =>
    /\ \A c \in conflictCalls : IsAction(c) => /\ isConflictActionInProgress
                                               /\ c.repo = selectedRepository /\ c.repo # None
    /\ \A c, d \in conflictCalls : IsAction(c) /\ IsAction(d) => c = d

\* The list is that of a sheet that was not loaded yet, or whose operation was aborted:
\* if it is open, a call will load it.
IsUnloaded ==
  /\ (conflictedFiles = {} /\ initialConflictCount = 0) \/ unmerged[selectedRepository] = {}
  /\ isResolvingConflicts => \E c \in conflictCalls : ~IsAction(c)

WillLoad(c) == IsAction(c) /\ c.at \in {"stopped", "listing", "listed"}

\* Unless something strayed, the list is what is unmerged, or will be loaded.
ListIsAwaited ==
  strayed = "no" /\ selectedRepository # None =>
    ListIsUnmerged \/ IsUnloaded \/ \E c \in conflictCalls : WillLoad(c)

ConflictIInv ==
  /\ ConflictTypeOK /\ selectedRepository \in Repo \cup {None}
  /\ CallsOK /\ OneAction /\ ListIsAwaited

-----------------------------------------------------------------------------
(* Its actions.                                                            *)

\* What a step of git leaves is of its type, and concerns one repository.
LEMMA GitDoesFacts ==
  ASSUME ConflictTypeOK, NEW c \in ConflictCall, IsAction(c), GitDoes(c)
  PROVE  /\ unmerged' \in [Repo -> SUBSET ConflictPath]
         /\ operation' \in [Repo -> Operation \cup {"none"}] /\ stops' \in 0 .. MaxStops
         /\ c.kind = "abort" => unmerged'[c.repo] = {}
         /\ c.kind = "continue" => unmerged[c.repo] = {} /\ unmerged'[c.repo] = {}
<1>1. c.repo \in Repo /\ c.kind \in {"begin", "resolve", "continue", "abort"}
  BY DEF ConflictCall
<1>2. /\ unmerged \in [Repo -> SUBSET ConflictPath] /\ operation \in [Repo -> Operation \cup {"none"}]
      /\ stops \in 0 .. MaxStops
  BY DEF ConflictTypeOK
<1>3. CASE c.kind = "resolve"
  <2>1. Resolved(c.repo, c.path)
    BY <1>3 DEF GitDoes
  <2> QED BY <1>1, <1>2, <1>3, <2>1 DEF Resolved
<1>4. ASSUME IsOver(c.repo) PROVE /\ unmerged' \in [Repo -> SUBSET ConflictPath] /\ unmerged'[c.repo] = {}
                                  /\ operation' \in [Repo -> Operation \cup {"none"}] /\ stops' \in 0 .. MaxStops
  BY <1>1, <1>2, <1>4 DEF IsOver
<1>5. CASE c.kind = "abort"
  BY <1>4, <1>5 DEF GitDoes
<1>6. CASE c.kind = "continue"
  <2>1. unmerged[c.repo] = {} /\ (IsOver(c.repo) \/ UNCHANGED <<unmerged, operation, stops>>)
    BY <1>6 DEF GitDoes
  <2> QED BY <1>2, <1>4, <1>6, <2>1
<1> QED BY <1>1, <1>3, <1>5, <1>6 DEF IsAction

\* Conflicts stop an operation.
LEMMA StopsFacts ==
  ASSUME ConflictTypeOK, NEW r \in Repo, NEW S \in SUBSET ConflictPath, StopsAt(r, S)
  PROVE  /\ stops' \in 0 .. MaxStops /\ unmerged' \in [Repo -> SUBSET ConflictPath]
         /\ \A q \in Repo : q # r => unmerged'[q] = unmerged[q]
BY ConflictAssumption DEF ConflictTypeOK, StopsAt

\* At the start there is nothing.
LEMMA InitConflictIInv == ConflictInit => ConflictIInv
<1> SUFFICES ASSUME ConflictInit PROVE ConflictIInv
  OBVIOUS
<1>1. 0 \in 0 .. MaxStops /\ 0 \in 0 .. Cardinality(ConflictPath)
  BY ConflictAssumption, FS_CardinalityType
<1> QED BY <1>1 DEF ConflictInit, ConflictIInv, ConflictTypeOK, CallsOK, OneAction, ListIsAwaited

\* Somebody else works with git.
LEMMA OthersStep ==
  ASSUME ConflictIInv, NEW r \in Repo, OthersOperate(r)
  PROVE  ConflictIInv'
<1>1. /\ strayed' = IF r = selectedRepository THEN "disturbed" ELSE strayed
      /\ UNCHANGED <<selectedRepository, conflictOperation, sheetVars, isConflictActionInProgress,
                     isContinued, conflictCalls>>
  BY DEF OthersOperate
<1>2. /\ unmerged' \in [Repo -> SUBSET ConflictPath] /\ operation' \in [Repo -> Operation \cup {"none"}]
      /\ stops' \in 0 .. MaxStops /\ \A q \in Repo : q # r => unmerged'[q] = unmerged[q]
  <2>0. ConflictTypeOK
    BY DEF ConflictIInv
  <2> DEFINE typed == /\ unmerged' \in [Repo -> SUBSET ConflictPath]
                      /\ operation' \in [Repo -> Operation \cup {"none"}] /\ stops' \in 0 .. MaxStops
                      /\ \A q \in Repo : q # r => unmerged'[q] = unmerged[q]
  <2>1. ASSUME NEW S \in SUBSET ConflictPath, StopsAt(r, S), NEW o \in Operation,
               operation' = [operation EXCEPT ![r] = o]
        PROVE  typed
    <3>1. operation' \in [Repo -> Operation \cup {"none"}]
      BY <2>0, <2>1 DEF ConflictTypeOK
    <3> QED BY <2>0, <2>1, <3>1, StopsFacts
  <2>2. ASSUME NEW p \in unmerged[r], Resolved(r, p) PROVE typed
    BY <2>0, <2>2 DEF Resolved, ConflictTypeOK
  <2>3. ASSUME IsOver(r) PROVE typed
    BY <2>0, <2>3 DEF IsOver, ConflictTypeOK
  <2> HIDE DEF typed
  <2>4. typed
    BY <2>1, <2>2, <2>3 DEF OthersOperate
  <2> QED BY <2>4 DEF typed
<1>3. ConflictTypeOK'
  BY <1>1, <1>2 DEF ConflictIInv, ConflictTypeOK, sheetVars
<1>4. CallsOK' /\ OneAction'
  BY <1>1 DEF ConflictIInv, CallsOK, OneAction, sheetVars
<1>5. ListIsAwaited'
  <2> SUFFICES ASSUME strayed' = "no", selectedRepository' # None
               PROVE  (ListIsUnmerged \/ IsUnloaded \/ \E c \in conflictCalls : WillLoad(c))'
    BY DEF ListIsAwaited
  <2>1. strayed = "no" /\ selectedRepository \in Repo /\ unmerged'[selectedRepository] = unmerged[selectedRepository]
    BY <1>1, <1>2 DEF ConflictIInv
  <2> QED BY <1>1, <2>1 DEF ConflictIInv, ListIsAwaited, ListIsUnmerged, IsUnloaded, sheetVars
<1> QED BY <1>1, <1>3, <1>4, <1>5 DEF ConflictIInv

\* Another repository is selected.
LEMMA SwitchSheetStep ==
  ASSUME ConflictIInv, NEW r \in Repo \cup {None}, SwitchSheet(r)
  PROVE  ConflictIInv'
<1>1. /\ selectedRepository' = r
      /\ conflictOperation' = "none"
      /\ isResolvingConflicts' = FALSE /\ conflictedFiles' = {} /\ initialConflictCount' = 0
      /\ isConflictActionInProgress' = FALSE /\ isContinued' = FALSE
      /\ strayed' = IF NoAction(conflictCalls) \/ strayed = "disturbed" THEN strayed ELSE "overtaken"
      /\ UNCHANGED <<unmerged, operation, stops, conflictCalls>>
  BY DEF SwitchSheet, Selects
<1>2. 0 \in 0 .. Cardinality(ConflictPath)
  BY ConflictAssumption, FS_CardinalityType
<1>3. ConflictTypeOK'
  BY <1>1, <1>2 DEF ConflictIInv, ConflictTypeOK
<1>4. CallsOK'
  BY <1>1 DEF ConflictIInv, CallsOK
<1>5. OneAction'
  BY <1>1 DEF OneAction, NoAction, IsAction
<1>6. ListIsAwaited'
  BY <1>1 DEF ListIsAwaited, IsUnloaded
<1> QED BY <1>1, <1>3, <1>4, <1>5, <1>6 DEF ConflictIInv

\* What is shown changes, or the sheet is opened or closed.
LEMMA ShowSteps ==
  ASSUME ConflictIInv,
         RefreshShows \/ BeginConflictResolution \/ CancelConflictResolution \/ OutcomeClears
  PROVE  ConflictIInv'
<1> DEFINE b == [kind |-> "begin", at |-> "listing", repo |-> selectedRepository, path |-> None,
                 operation |-> "none", listed |-> {}]
<1>1. CASE RefreshShows
  <2>1. /\ selectedRepository \in Repo /\ conflictOperation' = operation[selectedRepository]
        /\ UNCHANGED <<selectedRepository, unmerged, operation, stops, sheetVars,
                       isConflictActionInProgress, isContinued, conflictCalls, strayed>>
    BY <1>1 DEF RefreshShows, ConflictIInv
  <2>2. ConflictTypeOK'
    BY <2>1 DEF ConflictIInv, ConflictTypeOK, sheetVars
  <2> QED BY <2>1, <2>2 DEF ConflictIInv, CallsOK, OneAction, ListIsAwaited, ListIsUnmerged, IsUnloaded,
                            sheetVars
<1>2. CASE BeginConflictResolution
  <2>1. /\ selectedRepository \in Repo /\ isResolvingConflicts' = TRUE
        /\ conflictCalls' = conflictCalls \cup {b}
        /\ UNCHANGED <<selectedRepository, unmerged, operation, stops, conflictOperation, conflictedFiles,
                       initialConflictCount, isConflictActionInProgress, isContinued, strayed>>
    BY <1>2 DEF BeginConflictResolution, ConflictIInv
  <2>2. b \in ConflictCall /\ ~IsAction(b) /\ b.at = "listing"
    BY <2>1 DEF ConflictCall, IsAction
  <2> HIDE DEF b
  <2>3. ConflictTypeOK'
    BY <2>1, <2>2 DEF ConflictIInv, ConflictTypeOK
  <2>4. CallsOK'
    BY <2>1, <2>2, RepositoriesAssumption DEF ConflictIInv, CallsOK
  <2>5. OneAction'
    BY <2>1, <2>2 DEF ConflictIInv, OneAction
  <2>6. ListIsAwaited'
    BY <2>1, <2>2 DEF ConflictIInv, ListIsAwaited, ListIsUnmerged, IsUnloaded
  <2> QED BY <2>1, <2>3, <2>4, <2>5, <2>6 DEF ConflictIInv
<1>3. CASE CancelConflictResolution
  <2>1. /\ isResolvingConflicts' = FALSE /\ isContinued' = FALSE
        /\ UNCHANGED <<selectedRepository, unmerged, operation, stops, conflictOperation, conflictedFiles,
                       initialConflictCount, isConflictActionInProgress, conflictCalls, strayed>>
    BY <1>3 DEF CancelConflictResolution
  <2>2. ConflictTypeOK'
    BY <2>1 DEF ConflictIInv, ConflictTypeOK
  <2> QED BY <2>1, <2>2 DEF ConflictIInv, CallsOK, OneAction, ListIsAwaited, ListIsUnmerged, IsUnloaded
<1>4. CASE OutcomeClears
  <2>1. /\ isContinued' = FALSE
        /\ UNCHANGED <<selectedRepository, unmerged, operation, stops, conflictOperation, sheetVars,
                       isConflictActionInProgress, conflictCalls, strayed>>
    BY <1>4 DEF OutcomeClears
  <2>2. ConflictTypeOK'
    BY <2>1 DEF ConflictIInv, ConflictTypeOK, sheetVars
  <2> QED BY <2>1, <2>2 DEF ConflictIInv, CallsOK, OneAction, ListIsAwaited, ListIsUnmerged, IsUnloaded,
                            sheetVars
<1> QED BY <1>1, <1>2, <1>3, <1>4

\* A button is pressed: no call of another button is under way.
LEMMA BeginActionStep ==
  ASSUME ConflictIInv, NEW kind \in {"resolve", "continue", "abort"},
         NEW p \in ConflictPath \cup {None}, BeginAction(kind, p)
  PROVE  ConflictIInv'
<1> DEFINE a == [kind |-> kind, at |-> "git", repo |-> selectedRepository, path |-> p,
                 operation |-> conflictOperation, listed |-> {}]
<1>1. /\ selectedRepository \in Repo /\ ~isConflictActionInProgress
      /\ isConflictActionInProgress' = TRUE /\ conflictCalls' = conflictCalls \cup {a}
      /\ UNCHANGED <<selectedRepository, unmerged, operation, stops, conflictOperation, sheetVars,
                     isContinued, strayed>>
  BY DEF BeginAction, ConflictIInv
<1>2. a \in ConflictCall /\ IsAction(a) /\ a.repo = selectedRepository
  BY <1>1 DEF ConflictCall, IsAction, ConflictIInv, ConflictTypeOK
<1> HIDE DEF a
<1>3. ConflictTypeOK'
  BY <1>1, <1>2 DEF ConflictIInv, ConflictTypeOK, sheetVars
<1>4. CallsOK'
  BY <1>1, <1>2 DEF ConflictIInv, CallsOK, sheetVars
<1>5. OneAction'
  BY <1>1, <1>2, RepositoriesAssumption DEF ConflictIInv, OneAction
<1>6. ListIsAwaited'
  BY <1>1 DEF ConflictIInv, ListIsAwaited, ListIsUnmerged, IsUnloaded, sheetVars
<1> QED BY <1>1, <1>3, <1>4, <1>5, <1>6 DEF ConflictIInv

\* The call of a button goes on, or ends and gives the flag back.
LEMMA ActionKeeps ==
  ASSUME ConflictIInv, NEW c \in conflictCalls, IsAction(c),
         selectedRepository' = selectedRepository, isResolvingConflicts' \in {isResolvingConflicts, FALSE},
         strayed' \in {strayed, "disturbed"},
         \/ /\ conflictCalls' = OtherCalls(c) /\ isConflictActionInProgress' = FALSE
         \/ /\ isConflictActionInProgress' = isConflictActionInProgress
            /\ \E n \in ConflictCall : /\ conflictCalls' = OtherCalls(c) \cup {n}
                                       /\ IsAction(n) /\ n.repo \in {c.repo, selectedRepository}
  PROVE  /\ conflictCalls' \in SUBSET ConflictCall /\ isConflictActionInProgress' \in BOOLEAN
         /\ CallsOK' /\ OneAction'
<1>1. /\ conflictCalls \in SUBSET ConflictCall /\ isConflictActionInProgress \in BOOLEAN
      /\ isResolvingConflicts \in BOOLEAN /\ CallsOK /\ OneAction
  BY DEF ConflictIInv, ConflictTypeOK
<1>2. OtherCalls(c) = conflictCalls \ {c}
  BY DEF OtherCalls
<1>3. strayed' = "no" => strayed = "no"
  OBVIOUS
<1>4. CASE conflictCalls' = OtherCalls(c) /\ isConflictActionInProgress' = FALSE
  <2>1. CallsOK'
    <3>1. \A d \in conflictCalls' : ~IsAction(d) => d.at \in {"listing", "listed"}
      BY <1>1, <1>2, <1>4 DEF CallsOK
    <3>2. isResolvingConflicts' => selectedRepository' # None
      BY <1>1 DEF CallsOK
    <3>3. ~isConflictActionInProgress'
      BY <1>4
    <3> QED BY <3>1, <3>2, <3>3 DEF CallsOK
  <2>2. OneAction'
    BY <1>1, <1>2, <1>3, <1>4 DEF OneAction
  <2> QED BY <1>1, <1>2, <1>4, <2>1, <2>2
<1>5. ASSUME isConflictActionInProgress' = isConflictActionInProgress, NEW n \in ConflictCall,
             conflictCalls' = OtherCalls(c) \cup {n}, IsAction(n), n.repo \in {c.repo, selectedRepository}
      PROVE  /\ conflictCalls' \in SUBSET ConflictCall /\ isConflictActionInProgress' \in BOOLEAN
             /\ CallsOK' /\ OneAction'
  <2>1. CallsOK'
    <3>1. \A d \in conflictCalls' : ~IsAction(d) => d.at \in {"listing", "listed"}
      BY <1>1, <1>2, <1>5 DEF CallsOK
    <3>2. isResolvingConflicts' => selectedRepository' # None
      BY <1>1 DEF CallsOK
    <3>3. n \in conflictCalls' /\ IsAction(n)
      BY <1>5
    <3> QED BY <3>1, <3>2, <3>3 DEF CallsOK
  <2>2. OneAction'
    BY <1>1, <1>2, <1>3, <1>5 DEF OneAction
  <2> QED BY <1>1, <1>2, <1>5, <2>1, <2>2
<1> QED BY <1>4, <1>5

\* Unless something strayed, the list is in order while no call will load it.
LEMMA ListBefore ==
  ASSUME ConflictIInv, NEW c \in conflictCalls, IsAction(c), strayed = "no"
  PROVE  /\ c.repo = selectedRepository /\ selectedRepository \in Repo
         /\ ~WillLoad(c) => ListIsUnmerged \/ IsUnloaded
         /\ \A d \in conflictCalls : ~IsAction(d) => d \in OtherCalls(c)
BY DEF ConflictIInv, OneAction, ListIsAwaited, OtherCalls, WillLoad

\* It stays in order while neither the list nor what is unmerged changes.
LEMMA ListStays ==
  ASSUME ConflictIInv, NEW c \in conflictCalls, IsAction(c), ~WillLoad(c),
         OtherCalls(c) \subseteq conflictCalls',
         isResolvingConflicts' \in {isResolvingConflicts, FALSE}, strayed' = strayed,
         UNCHANGED <<selectedRepository, unmerged, conflictedFiles, initialConflictCount>>
  PROVE  ListIsAwaited'
<1> SUFFICES ASSUME strayed' = "no" PROVE ListIsUnmerged' \/ IsUnloaded'
  BY DEF ListIsAwaited
<1>1. /\ ListIsUnmerged \/ IsUnloaded
      /\ \A d \in conflictCalls : ~IsAction(d) => d \in OtherCalls(c)
  BY ListBefore
<1> QED BY <1>1 DEF ListIsUnmerged, IsUnloaded

\* A call will load the list.
LEMMA LoadAwaited ==
  ASSUME NEW n \in conflictCalls', IsAction(n), n.at \in {"stopped", "listing", "listed"}
  PROVE  ListIsAwaited'
BY DEF ListIsAwaited, WillLoad

\* git returns.
LEMMA ActionSucceedsStep ==
  ASSUME ConflictIInv, NEW c \in conflictCalls, ActionSucceeds(c)
  PROVE  ConflictIInv'
<1>1. /\ c.at = "git" /\ GitDoes(c)
      /\ UNCHANGED <<selectedRepository, conflictOperation, conflictedFiles, initialConflictCount, strayed>>
  BY DEF ActionSucceeds
<1>2. c \in ConflictCall /\ IsAction(c) /\ ~WillLoad(c) /\ c.repo \in Repo
  BY <1>1 DEF ConflictIInv, ConflictTypeOK, CallsOK, WillLoad, ConflictCall
<1>3. /\ unmerged' \in [Repo -> SUBSET ConflictPath]
      /\ operation' \in [Repo -> Operation \cup {"none"}] /\ stops' \in 0 .. MaxStops
      /\ c.kind = "abort" => unmerged'[c.repo] = {}
      /\ c.kind = "continue" => unmerged[c.repo] = {} /\ unmerged'[c.repo] = {}
  BY <1>1, <1>2, GitDoesFacts DEF ConflictIInv
<1>4. c.kind \in {"resolve", "continue", "abort"}
  BY <1>2 DEF ConflictCall, IsAction
<1> DEFINE Goes(at, r) == [c EXCEPT !.at = at, !.repo = r, !.path = None, !.operation = "none"]
<1>5. ASSUME NEW at \in {"listing", "shown", "refreshing"}, NEW r \in Repo
      PROVE  /\ Goes(at, r) \in ConflictCall /\ IsAction(Goes(at, r)) /\ Goes(at, r).at = at
             /\ Goes(at, r).repo = r /\ GoesTo(c, at, r) = OtherCalls(c) \cup {Goes(at, r)}
  BY <1>2 DEF GoesTo, IsAction, ConflictCall
<1> HIDE DEF Goes
<1>6. CASE c.kind = "resolve"
  <2>1. Loads(c) /\ UNCHANGED <<isResolvingConflicts, isContinued>>
    BY <1>6 DEF ActionSucceeds
  <2>2. CASE selectedRepository = None
    <3>1. conflictCalls' = OtherCalls(c) /\ isConflictActionInProgress' = FALSE
      BY <2>1, <2>2 DEF Loads
    <3>2. /\ conflictCalls' \in SUBSET ConflictCall /\ isConflictActionInProgress' \in BOOLEAN
          /\ CallsOK' /\ OneAction'
      BY <1>1, <1>2, <2>1, <3>1, ActionKeeps
    <3>3. ConflictTypeOK'
      BY <1>1, <1>3, <2>1, <3>2 DEF ConflictIInv, ConflictTypeOK
    <3> QED BY <1>1, <2>2, <3>2, <3>3 DEF ConflictIInv, ListIsAwaited
  <2>3. CASE selectedRepository # None
    <3> DEFINE n == Goes("listing", selectedRepository)
    <3>0. selectedRepository \in Repo
      BY <2>3 DEF ConflictIInv
    <3>1. /\ n \in ConflictCall /\ IsAction(n) /\ n.at = "listing" /\ n.repo = selectedRepository
          /\ GoesTo(c, "listing", selectedRepository) = OtherCalls(c) \cup {n}
      BY <1>5, <3>0
    <3> HIDE DEF n
    <3>2. conflictCalls' = OtherCalls(c) \cup {n} /\ isConflictActionInProgress' = isConflictActionInProgress
      BY <2>1, <2>3, <3>1 DEF Loads
    <3>3. /\ conflictCalls' \in SUBSET ConflictCall /\ isConflictActionInProgress' \in BOOLEAN
          /\ CallsOK' /\ OneAction'
      BY <1>1, <1>2, <2>1, <3>1, <3>2, ActionKeeps
    <3>4. ConflictTypeOK'
      BY <1>1, <1>3, <2>1, <3>3 DEF ConflictIInv, ConflictTypeOK
    <3>5. ListIsAwaited'
      BY <3>1, <3>2, LoadAwaited
    <3> QED BY <1>1, <3>3, <3>4, <3>5 DEF ConflictIInv
  <2> QED BY <2>2, <2>3
<1>7. CASE c.kind \in {"continue", "abort"}
  <2> DEFINE at == IF c.kind = "continue" THEN "shown" ELSE "refreshing"
             n  == Goes(at, c.repo)
  <2>1. /\ conflictCalls' = GoesTo(c, at, c.repo) /\ isConflictActionInProgress' = isConflictActionInProgress
        /\ isContinued' \in {isContinued, TRUE} /\ isResolvingConflicts' \in {isResolvingConflicts, FALSE}
        /\ c.kind = "abort" => isResolvingConflicts' = FALSE
    <3>1. CASE c.kind = "continue"
      BY <3>1 DEF ActionSucceeds
    <3>2. CASE c.kind = "abort"
      BY <3>2 DEF ActionSucceeds
    <3> QED BY <1>7, <3>1, <3>2
  <2>2. at \in {"listing", "shown", "refreshing"}
    OBVIOUS
  <2>3. /\ n \in ConflictCall /\ IsAction(n) /\ n.repo = c.repo
        /\ conflictCalls' = OtherCalls(c) \cup {n}
    BY <1>2, <1>5, <2>1, <2>2
  <2> HIDE DEF n, at
  <2>4. /\ conflictCalls' \in SUBSET ConflictCall /\ isConflictActionInProgress' \in BOOLEAN
        /\ CallsOK' /\ OneAction'
    BY <1>1, <1>2, <2>1, <2>3, ActionKeeps
  <2>5. ConflictTypeOK'
    BY <1>1, <1>3, <2>1, <2>4 DEF ConflictIInv, ConflictTypeOK
  <2>6. ListIsAwaited'
    <3> SUFFICES ASSUME strayed = "no" PROVE ListIsUnmerged' \/ IsUnloaded'
      BY <1>1 DEF ListIsAwaited
    <3>1. /\ c.repo = selectedRepository /\ selectedRepository \in Repo
          /\ ListIsUnmerged \/ IsUnloaded
          /\ \A d \in conflictCalls : ~IsAction(d) => d \in OtherCalls(c)
      BY <1>2, ListBefore
    <3>2. unmerged'[selectedRepository] = {}
      BY <1>3, <1>7, <3>1
    <3>3. CASE ListIsUnmerged /\ c.kind = "continue"
      BY <1>1, <1>3, <3>1, <3>2, <3>3 DEF ListIsUnmerged
    <3>4. CASE IsUnloaded \/ c.kind = "abort"
      BY <1>1, <2>1, <2>3, <3>1, <3>2, <3>4 DEF IsUnloaded
    <3> QED BY <1>7, <3>1, <3>3, <3>4
  <2> QED BY <1>1, <2>4, <2>5, <2>6 DEF ConflictIInv
<1> QED BY <1>4, <1>6, <1>7

\* A rebase stops again, or git fails.
LEMMA ActionEndsSteps ==
  ASSUME ConflictIInv, NEW c \in conflictCalls, ContinueStops(c) \/ ActionFails(c)
  PROVE  ConflictIInv'
<1>1. /\ c.at = "git" /\ UNCHANGED <<selectedRepository, conflictOperation, sheetVars>>
  BY DEF ContinueStops, ActionFails
<1>2. c \in ConflictCall /\ IsAction(c) /\ ~WillLoad(c) /\ c.repo \in Repo
  BY <1>1 DEF ConflictIInv, ConflictTypeOK, CallsOK, WillLoad, ConflictCall
<1>3. CASE ContinueStops(c)
  <2> DEFINE n == [c EXCEPT !.at = "stopped", !.repo = c.repo, !.path = None, !.operation = "none"]
  <2>1. /\ conflictCalls' = OtherCalls(c) \cup {n} /\ isContinued' = FALSE
        /\ UNCHANGED <<operation, isConflictActionInProgress, strayed>>
    BY <1>3 DEF ContinueStops, GoesTo
  <2>2. n \in ConflictCall /\ IsAction(n) /\ n.at = "stopped" /\ n.repo = c.repo
    BY <1>2 DEF IsAction, ConflictCall
  <2> HIDE DEF n
  <2>3. stops' \in 0 .. MaxStops /\ unmerged' \in [Repo -> SUBSET ConflictPath]
    <3>1. CASE UNCHANGED <<unmerged, stops>>
      BY <3>1 DEF ConflictIInv, ConflictTypeOK
    <3>2. ASSUME NEW S \in SUBSET ConflictPath, StopsAt(c.repo, S) PROVE <2>3
      BY <1>2, <3>2, StopsFacts DEF ConflictIInv
    <3> QED BY <1>3, <3>1, <3>2 DEF ContinueStops
  <2>4. /\ conflictCalls' \in SUBSET ConflictCall /\ isConflictActionInProgress' \in BOOLEAN
        /\ CallsOK' /\ OneAction'
    BY <1>1, <1>2, <2>1, <2>2, ActionKeeps DEF sheetVars
  <2>5. ConflictTypeOK'
    BY <1>1, <2>1, <2>3, <2>4 DEF ConflictIInv, ConflictTypeOK, sheetVars
  <2>6. ListIsAwaited'
    BY <2>1, <2>2, LoadAwaited
  <2> QED BY <1>1, <2>4, <2>5, <2>6 DEF ConflictIInv
<1>4. CASE ActionFails(c)
  <2>1. /\ conflictCalls' = OtherCalls(c) /\ isConflictActionInProgress' = FALSE /\ UNCHANGED isContinued
        /\ \/ GitDoes(c) /\ strayed' = "disturbed"
           \/ UNCHANGED <<unmerged, operation, stops, strayed>>
    BY <1>4 DEF ActionFails
  <2>2. /\ conflictCalls' \in SUBSET ConflictCall /\ isConflictActionInProgress' \in BOOLEAN
        /\ CallsOK' /\ OneAction'
    BY <1>1, <1>2, <2>1, ActionKeeps DEF sheetVars
  <2>3. /\ unmerged' \in [Repo -> SUBSET ConflictPath]
        /\ operation' \in [Repo -> Operation \cup {"none"}] /\ stops' \in 0 .. MaxStops
    <3>1. CASE GitDoes(c)
      BY <1>2, <3>1, GitDoesFacts DEF ConflictIInv
    <3>2. CASE UNCHANGED <<unmerged, operation, stops>>
      BY <3>2 DEF ConflictIInv, ConflictTypeOK
    <3> QED BY <2>1, <3>1, <3>2
  <2>4. ConflictTypeOK'
    BY <1>1, <2>1, <2>2, <2>3 DEF ConflictIInv, ConflictTypeOK, sheetVars
  <2>5. ListIsAwaited'
    <3>1. CASE strayed' = "disturbed"
      BY <3>1 DEF ListIsAwaited
    <3>2. CASE UNCHANGED <<unmerged, strayed>>
      BY <1>1, <1>2, <2>1, <3>2, ListStays DEF sheetVars
    <3> QED BY <2>1, <3>1, <3>2
  <2> QED BY <1>1, <2>2, <2>4, <2>5 DEF ConflictIInv
<1> QED BY <1>3, <1>4

\* The success was shown, or the refresh of a call is over.
LEMMA ActionGoesOnSteps ==
  ASSUME ConflictIInv, NEW c \in conflictCalls, SuccessWasShown(c) \/ CallIsRefreshed(c)
  PROVE  ConflictIInv'
<1>1. c.at \in {"shown", "stopped", "refreshing"}
  BY DEF SuccessWasShown, CallIsRefreshed
<1>2. c \in ConflictCall /\ IsAction(c) /\ c.repo \in Repo
  BY <1>1 DEF ConflictIInv, ConflictTypeOK, CallsOK, ConflictCall
<1>3. CASE SuccessWasShown(c)
  <2> DEFINE n == [c EXCEPT !.at = "refreshing", !.repo = c.repo, !.path = None, !.operation = "none"]
  <2>1. /\ c.at = "shown" /\ isResolvingConflicts' = FALSE /\ conflictCalls' = OtherCalls(c) \cup {n}
        /\ UNCHANGED <<selectedRepository, unmerged, operation, stops, conflictOperation, conflictedFiles,
                       initialConflictCount, isConflictActionInProgress, isContinued, strayed>>
    BY <1>3 DEF SuccessWasShown, GoesTo
  <2>2. n \in ConflictCall /\ IsAction(n) /\ n.repo = c.repo
    BY <1>2 DEF IsAction, ConflictCall
  <2> HIDE DEF n
  <2>3. /\ conflictCalls' \in SUBSET ConflictCall /\ isConflictActionInProgress' \in BOOLEAN
        /\ CallsOK' /\ OneAction'
    BY <1>2, <2>1, <2>2, ActionKeeps
  <2>4. ConflictTypeOK'
    BY <2>1, <2>3 DEF ConflictIInv, ConflictTypeOK
  <2>5. ListIsAwaited'
    <3>1. ~WillLoad(c)
      BY <2>1 DEF WillLoad
    <3> QED BY <1>2, <2>1, <3>1, ListStays
  <2> QED BY <2>1, <2>3, <2>4, <2>5 DEF ConflictIInv
<1>4. CASE CallIsRefreshed(c)
  <2>1. /\ conflictOperation' \in {conflictOperation} \cup
             IF selectedRepository = None THEN {} ELSE {operation[selectedRepository]}
        /\ \/ c.at = "stopped" /\ Loads(c)
           \/ c.at = "refreshing" /\ conflictCalls' = OtherCalls(c) /\ isConflictActionInProgress' = FALSE
        /\ UNCHANGED <<selectedRepository, unmerged, operation, stops, sheetVars, isContinued, strayed>>
    BY <1>4 DEF CallIsRefreshed
  <2>2. conflictOperation' \in Operation \cup {"none"}
    BY <2>1 DEF ConflictIInv, ConflictTypeOK
  <2>3. ASSUME conflictCalls' \in SUBSET ConflictCall, isConflictActionInProgress' \in BOOLEAN
        PROVE  ConflictTypeOK'
    BY <2>1, <2>2, <2>3 DEF ConflictIInv, ConflictTypeOK, sheetVars
  <2>4. CASE conflictCalls' = OtherCalls(c) /\ isConflictActionInProgress' = FALSE
    <3>1. /\ conflictCalls' \in SUBSET ConflictCall /\ isConflictActionInProgress' \in BOOLEAN
          /\ CallsOK' /\ OneAction'
      BY <1>2, <2>1, <2>4, ActionKeeps DEF sheetVars
    <3>2. ListIsAwaited'
      <4>1. CASE c.at = "refreshing"
        <5>1. ~WillLoad(c)
          BY <4>1 DEF WillLoad
        <5> QED BY <1>2, <2>1, <2>4, <5>1, ListStays DEF sheetVars
      <4>2. CASE c.at = "stopped" /\ Loads(c)
        <5>1. selectedRepository = None \/ strayed # "no"
          <6> SUFFICES ASSUME selectedRepository # None, strayed = "no" PROVE FALSE
            OBVIOUS
          <6>1. isConflictActionInProgress' = isConflictActionInProgress
            BY <4>2 DEF Loads
          <6>2. isConflictActionInProgress
            BY <1>2 DEF ConflictIInv, OneAction
          <6> QED BY <2>4, <6>1, <6>2
        <5> QED BY <2>1, <5>1 DEF ListIsAwaited
      <4> QED BY <2>1, <4>1, <4>2
    <3> QED BY <2>1, <2>3, <3>1, <3>2 DEF ConflictIInv
  <2>5. CASE c.at = "stopped" /\ Loads(c) /\ selectedRepository # None
    <3> DEFINE n == [c EXCEPT !.at = "listing", !.repo = selectedRepository, !.path = None,
                              !.operation = "none"]
    <3>1. selectedRepository \in Repo
      BY <2>5 DEF ConflictIInv
    <3>2. n \in ConflictCall /\ IsAction(n) /\ n.at = "listing" /\ n.repo = selectedRepository
      BY <1>2, <3>1 DEF IsAction, ConflictCall
    <3>3. conflictCalls' = OtherCalls(c) \cup {n} /\ isConflictActionInProgress' = isConflictActionInProgress
      BY <2>5 DEF Loads, GoesTo
    <3> HIDE DEF n
    <3>4. /\ conflictCalls' \in SUBSET ConflictCall /\ isConflictActionInProgress' \in BOOLEAN
          /\ CallsOK' /\ OneAction'
      BY <1>2, <2>1, <3>2, <3>3, ActionKeeps DEF sheetVars
    <3>5. ListIsAwaited'
      BY <3>2, <3>3, LoadAwaited
    <3> QED BY <2>1, <2>3, <3>4, <3>5 DEF ConflictIInv
  <2> QED BY <2>1, <2>4, <2>5 DEF Loads
<1> QED BY <1>3, <1>4

\* git status has read what is unmerged.
LEMMA ListedStep ==
  ASSUME ConflictIInv, NEW c \in conflictCalls, FilesAreListed(c)
  PROVE  ConflictIInv'
<1> DEFINE n == [c EXCEPT !.at = "listed", !.listed = unmerged[c.repo]]
<1>1. /\ c.at = "listing" /\ conflictCalls' = OtherCalls(c) \cup {n}
      /\ UNCHANGED <<selectedRepository, unmerged, operation, stops, conflictOperation, sheetVars,
                     isConflictActionInProgress, isContinued, strayed>>
  BY DEF FilesAreListed
<1>2. n \in ConflictCall /\ n.at = "listed" /\ n.repo = c.repo /\ (IsAction(n) <=> IsAction(c))
  BY DEF ConflictIInv, ConflictTypeOK, ConflictCall, IsAction
<1>3. conflictCalls' = (conflictCalls \ {c}) \cup {n}
  BY <1>1 DEF OtherCalls
<1> HIDE DEF n
<1>4. ConflictTypeOK'
  BY <1>1, <1>2, <1>3 DEF ConflictIInv, ConflictTypeOK, sheetVars
<1>5. CallsOK'
  <2>1. \A d \in conflictCalls' : ~IsAction(d) => d.at \in {"listing", "listed"}
    BY <1>2, <1>3 DEF ConflictIInv, CallsOK
  <2>2. isResolvingConflicts' => selectedRepository' # None
    BY <1>1 DEF ConflictIInv, CallsOK, sheetVars
  <2>3. isConflictActionInProgress' => \E d \in conflictCalls' : IsAction(d)
    BY <1>1, <1>2, <1>3 DEF ConflictIInv, CallsOK
  <2> QED BY <2>1, <2>2, <2>3 DEF CallsOK
<1>6. OneAction'
  <2> SUFFICES ASSUME strayed = "no" PROVE OneAction'
    BY <1>1 DEF OneAction
  <2>1. /\ \A d \in conflictCalls : IsAction(d) => /\ isConflictActionInProgress
                                                   /\ d.repo = selectedRepository /\ d.repo # None
        /\ \A d, e \in conflictCalls : IsAction(d) /\ IsAction(e) => d = e
    BY DEF ConflictIInv, OneAction
  <2>2. \A d \in conflictCalls' : IsAction(d) => /\ isConflictActionInProgress'
                                                 /\ d.repo = selectedRepository' /\ d.repo # None
    BY <1>1, <1>2, <1>3, <2>1
  <2>3. \A d, e \in conflictCalls' : IsAction(d) /\ IsAction(e) => d = e
    BY <1>2, <1>3, <2>1
  <2> QED BY <2>2, <2>3 DEF OneAction
<1>7. ListIsAwaited'
  <2> SUFFICES ASSUME strayed = "no", selectedRepository # None
               PROVE  ListIsUnmerged' \/ IsUnloaded' \/ \E d \in conflictCalls' : WillLoad(d)
    BY <1>1 DEF ListIsAwaited
  <2>1. CASE ListIsUnmerged
    BY <1>1, <2>1 DEF ListIsUnmerged, sheetVars
  <2>2. CASE IsUnloaded
    <3>1. (\E d \in conflictCalls : ~IsAction(d)) => \E d \in conflictCalls' : ~IsAction(d)
      BY <1>2, <1>3
    <3> QED BY <1>1, <2>2, <3>1 DEF IsUnloaded, sheetVars
  <2>3. ASSUME NEW d \in conflictCalls, WillLoad(d) PROVE \E e \in conflictCalls' : WillLoad(e)
    <3>1. CASE d = c
      BY <1>2, <1>3, <2>3, <3>1 DEF WillLoad
    <3>2. CASE d # c
      BY <1>3, <2>3, <3>2
    <3> QED BY <3>1, <3>2
  <2> QED BY <2>1, <2>2, <2>3 DEF ConflictIInv, ListIsAwaited
<1> QED BY <1>1, <1>4, <1>5, <1>6, <1>7 DEF ConflictIInv

\* A load is over: either the list is what is unmerged and no button's call is under
\* way, or something has strayed.
LEMMA LoadedSteps ==
  ASSUME ConflictIInv, NEW c \in conflictCalls, FilesAreLoaded(c) \/ LoadFails(c)
  PROVE  ConflictIInv'
<1>1. /\ conflictCalls' = conflictCalls \ {c}
      /\ isConflictActionInProgress' = (isConflictActionInProgress /\ ~IsAction(c))
      /\ UNCHANGED <<selectedRepository, unmerged, operation, stops, conflictOperation,
                     isResolvingConflicts, isContinued>>
  BY DEF FilesAreLoaded, LoadFails, Ends, OtherCalls, IsAction, sheetVars
<1>2. c.listed \in SUBSET ConflictPath
  BY DEF ConflictIInv, ConflictTypeOK, ConflictCall
<1>3. /\ strayed' \in {"no", "overtaken", "disturbed"}
      /\ strayed' = "no" => /\ conflictedFiles' = c.listed /\ c.repo = selectedRepository
                            /\ c.listed = unmerged[c.repo]
                            /\ \A d \in conflictCalls' : ~IsAction(d)
  <2>1. CASE LoadFails(c)
    BY <2>1 DEF LoadFails
  <2>2. CASE FilesAreLoaded(c)
    BY <2>2 DEF FilesAreLoaded, NoAction, IsAction, Ends, ConflictIInv, ConflictTypeOK
  <2> QED BY <2>1, <2>2
<1>4. conflictedFiles' \in SUBSET ConflictPath /\ initialConflictCount' \in 0 .. Cardinality(ConflictPath)
  <2>1. CASE LoadFails(c)
    BY <2>1 DEF LoadFails, sheetVars, ConflictIInv, ConflictTypeOK
  <2>2. CASE FilesAreLoaded(c)
    <3>1. IsFiniteSet(c.listed) /\ Cardinality(c.listed) <= Cardinality(ConflictPath)
      BY <1>2, ConflictAssumption, FS_Subset
    <3>2. Cardinality(c.listed) \in Nat /\ Cardinality(ConflictPath) \in Nat
      BY <3>1, ConflictAssumption, FS_CardinalityType
    <3>3. initialConflictCount' \in {initialConflictCount, Cardinality(c.listed)} /\ conflictedFiles' = c.listed
      BY <2>2 DEF FilesAreLoaded
    <3> QED BY <1>2, <3>1, <3>2, <3>3 DEF ConflictIInv, ConflictTypeOK
  <2> QED BY <2>1, <2>2
<1>5. ConflictTypeOK'
  BY <1>1, <1>3, <1>4 DEF ConflictIInv, ConflictTypeOK
<1>6. CallsOK'
  BY <1>1 DEF ConflictIInv, CallsOK
<1>7. OneAction'
  BY <1>3 DEF OneAction
<1>8. ListIsAwaited'
  BY <1>1, <1>3 DEF ListIsAwaited, ListIsUnmerged
<1> QED BY <1>1, <1>5, <1>6, <1>7, <1>8 DEF ConflictIInv

\* Every step keeps the inductive invariant.
LEMMA NextConflictIInv ==
  ConflictIInv /\ [ConflictNext]_<<selectedRepository, conflictVars>> => ConflictIInv'
<1> SUFFICES ASSUME ConflictIInv, [ConflictNext]_<<selectedRepository, conflictVars>> PROVE ConflictIInv'
  OBVIOUS
<1>1. CASE UNCHANGED <<selectedRepository, conflictVars>>
  BY <1>1 DEF conflictVars, sheetVars, ConflictIInv, ConflictTypeOK, CallsOK, OneAction, ListIsAwaited,
              ListIsUnmerged, IsUnloaded
<1>2. ASSUME NEW p \in ConflictPath, BeginAction("resolve", p) PROVE ConflictIInv'
  BY <1>2, BeginActionStep
<1>3. ASSUME NEW kind \in {"continue", "abort"}, BeginAction(kind, None) PROVE ConflictIInv'
  BY <1>3, BeginActionStep
<1> QED BY <1>1, <1>2, <1>3, OthersStep, SwitchSheetStep, ShowSteps, ActionSucceedsStep, ActionEndsSteps,
           ActionGoesOnSteps, ListedStep, LoadedSteps DEF ConflictNext

-----------------------------------------------------------------------------
(* What follows for the sheet.                                             *)

\* The inductive invariant holds throughout.
THEOREM ConflictInvariance == ConflictSpec => []ConflictIInv
  BY InitConflictIInv, NextConflictIInv, PTL DEF ConflictSpec

\* Every variable of the conflict sheet has its type: the count is one of files.
THEOREM ConflictTypeCorrect == ConflictSpec => []ConflictTypeOK
<1>1. ConflictIInv => ConflictTypeOK
  BY DEF ConflictIInv
<1> QED BY <1>1, ConflictInvariance, PTL

\* In the end the list of an open sheet is what is unmerged, unless something strayed:
\* every action that changes it loads it again.
THEOREM ListIsThatOfGit == ConflictSpec => []ListFollowsGit
<1>1. ConflictIInv => ListFollowsGit
  BY DEF ConflictIInv, CallsOK, ListIsAwaited, ListFollowsGit, ConflictIsQuiet, IsUnloaded
<1> QED BY <1>1, ConflictInvariance, PTL

\* canContinueConflictOperation is true only when nothing is unmerged, also between a
\* rebase's next stop and the load of its conflicts: the flag is held until then.
THEOREM ContinueIsForResolved == ConflictSpec => []ContinueMeansResolved
<1>1. ConflictIInv => ContinueMeansResolved
  <2> SUFFICES ASSUME ConflictIInv, CanContinue, selectedRepository # None, strayed = "no"
               PROVE  unmerged[selectedRepository] = {}
    BY DEF ContinueMeansResolved
  <2>1. ~isConflictActionInProgress /\ conflictedFiles = {} /\ initialConflictCount > 0
    BY DEF CanContinue
  <2>2. \A c \in conflictCalls : ~WillLoad(c)
    BY <2>1 DEF ConflictIInv, OneAction, WillLoad
  <2>3. ListIsUnmerged \/ IsUnloaded
    BY <2>2 DEF ConflictIInv, ListIsAwaited
  <2> QED BY <2>1, <2>3 DEF ListIsUnmerged, IsUnloaded
<1> QED BY <1>1, ConflictInvariance, PTL
-----------------------------------------------------------------------------
(* MainWindow.                                                             *)

\* What the window does to a panel is what the panel does, or nothing.
LEMMA WindowSteps ==
  ASSUME [WindowNext]_windowVars
  PROVE  /\ [CommitNext]_<<git, commitVars>>
         /\ [DiffNext]_<<selectedRepository, diffVars>>
         /\ [HistoryNext]_<<selectedRepository, historyVars>>
         /\ [StashNext]_<<selectedRepository, stashVars>>
         /\ [BranchesNext]_<<selectedRepository, branchVars>>
         /\ [ConflictNext]_<<selectedRepository, conflictVars>>
<1>1. ASSUME NEW r \in Repo \cup {None}, SwitchRepository(r)
      PROVE  CommitNext /\ DiffNext /\ HistoryNext /\ StashNext /\ BranchesNext /\ ConflictNext
  BY <1>1 DEF SwitchRepository, CommitNext, DiffNext, HistoryNext, StashNext, BranchesNext, ConflictNext
<1>2. ASSUME UNCHANGED selectedRepository, UNCHANGED commitPanel PROVE UNCHANGED <<git, commitVars>>
  BY <1>2 DEF commitPanel, commitVars, screen
<1>3. CASE UNCHANGED windowVars
  BY <1>2, <1>3 DEF windowVars
<1>4. CASE UNCHANGED selectedRepository /\ CommitActs
  BY <1>4 DEF CommitActs
<1>5. CASE UNCHANGED selectedRepository /\ DiffActs
  BY <1>2, <1>5 DEF DiffActs
<1>6. CASE UNCHANGED selectedRepository /\ HistoryActs
  BY <1>2, <1>6 DEF HistoryActs
<1>7. CASE UNCHANGED selectedRepository /\ StashActs
  BY <1>2, <1>7 DEF StashActs
<1>8. CASE UNCHANGED selectedRepository /\ BranchesActs
  BY <1>2, <1>8 DEF BranchesActs
<1>9. CASE UNCHANGED selectedRepository /\ SheetActs
  BY <1>2, <1>9 DEF SheetActs
<1> QED BY <1>1, <1>3, <1>4, <1>5, <1>6, <1>7, <1>8, <1>9 DEF WindowNext

\* In the window, beside the others and reset with them, each panel behaves as it does
\* alone.
THEOREM WindowIsItsPanels ==
  WindowSpec => CommitSpec /\ DiffSpec /\ HistorySpec /\ StashSpec /\ BranchesSpec /\ ConflictSpec
<1>1. WindowInit => /\ GitInit([r \in Repo |-> <<>>]) /\ CommitInit
                    /\ DiffInit /\ HistoryInit /\ StashInit /\ BranchesInit /\ ConflictInit
  BY DEF WindowInit
<1> QED
  BY <1>1, WindowSteps, PTL
     DEF WindowSpec, CommitSpec, DiffSpec, HistorySpec, StashSpec, BranchesSpec, ConflictSpec

\* Every variable of the window has its type.
THEOREM PanelsTypeCorrect == WindowSpec => []PanelTypeOK
BY WindowIsItsPanels, TypeCorrect, DiffTypeCorrect, HistoryTypeCorrect, StashTypeCorrect,
   BranchesTypeCorrect, ConflictTypeCorrect, PTL DEF PanelTypeOK

\* What is promised of the panels holds of all of them together: no commit leaves out a
\* checked path, and no diff, file, sheet, guard, mark or list is that of another
\* selection.
THEOREM PanelsKeepPromises ==
  WindowSpec => /\ []WholeSelection
                /\ []DiffIsOfSelection /\ []DiffIsFresh /\ []SpinnerShowsLoad
                /\ []CommitDiffIsOfSelection /\ []FilesFollowAnchor
                /\ []SheetIsInStep
                /\ []GuardIsOfRepository /\ []PendingHasCall /\ ListNeverGoesBack
                /\ []ListFollowsGit /\ []ContinueMeansResolved
BY WindowIsItsPanels, NoPartialCommit, DiffFollowsSelection, CacheIsFresh, SpinnerIsKept,
   CommitDiffFollowsSelection, FilesAreThoseOfAnchor, SheetStaysInStep, GuardAsksForShown,
   MarksAreTakenBack, ListsGoForward, ListIsThatOfGit, ContinueIsForResolved, PTL
=============================================================================
