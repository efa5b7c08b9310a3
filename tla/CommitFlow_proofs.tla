--------------------------- MODULE CommitFlow_proofs ---------------------------
(***************************************************************************)
(* Proofs about CommitFlow, for any repositories, any changes and any      *)
(* number of undos.                                                        *)
(***************************************************************************)
EXTENDS CommitFlow, FiniteSetTheorems, TLAPS

\* What can be found in a repository was made in it: a change that is edited now
\* was in nobody's hands before.
MadeThere(r) ==
  /\ log[r] \in Seq(SUBSET made[r])
  /\ changed[r] \subseteq made[r]
  /\ before[r] \in Seq(SUBSET made[r]) \cup {None}

GitInv == GitTypeOK /\ \A r \in Repo : MadeThere(r)

\* A step of git: the invariant is kept, and no change that was made before comes
\* up that is not staged.
GitStep ==
  /\ GitInv'
  /\ \A r \in Repo : /\ made[r] \subseteq made'[r]
                     /\ (changed'[r] \cap made[r]) \ staged'[r] \subseteq changed[r] \ staged[r]

\* What the screen shows, and the user checks, was made in the repository.
ScreenOK ==
  /\ selectedRepository \in Repo \cup {None}
  /\ commits \in Seq(SUBSET Path)
  /\ changedFiles \in SUBSET Path /\ hasUnresolvedConflicts \in BOOLEAN
  /\ checkedPaths \in SUBSET changedFiles
  /\ changedFiles # {} => selectedRepository \in Repo /\ changedFiles \subseteq made[selectedRepository]

OutcomeOK ==
  /\ hasSummary \in BOOLEAN /\ isAmendMode \in BOOLEAN
  /\ commitOutcome \in {"none", "success", "failure"}
  /\ resetTask \in {"none", "sleeping", "due"} /\ lateReset \in BOOLEAN
  /\ OutcomeIsCleared

\* As long as no path has failed, those that git add was run for are in the index,
\* if they are still changes; git commit runs for nothing less than all of them.
CallOK ==
  /\ committing \in {Idle} \cup CommitCall
  /\ committing # Idle =>
       /\ committing.paths \subseteq made[committing.repo]
       /\ committing.at \in {"staging", "committing"} /\ ~committing.failed =>
            (committing.paths \ committing.left) \cap changed[committing.repo] \subseteq staged[committing.repo]
       /\ committing.at = "committing" => committing.left = {} /\ ~committing.failed

IInv == GitInv /\ ScreenOK /\ OutcomeOK /\ CallOK /\ undoing \in [Repo -> 0 .. MaxUndos]

-----------------------------------------------------------------------------
(* Git.                                                                    *)

\* Front and Last of a history of what was made.
LEMMA FrontAndLast ==
  ASSUME NEW M, NEW h \in Seq(SUBSET M), h # <<>>
  PROVE  Front(h) \in Seq(SUBSET M) /\ Last(h) \in SUBSET M
<1>1. Len(h) \in Nat /\ Len(h) >= 1
  OBVIOUS
<1>2. Last(h) \in SUBSET M
  BY <1>1 DEF Last
<1>3. Front(h) \in Seq(SUBSET M)
  BY <1>1 DEF Front
<1> QED BY <1>2, <1>3

\* The empty history is a history of everything.
LEMMA NoHistory == \A M : <<>> \in Seq(SUBSET M)
OBVIOUS

\* A history that grows by what was made.
LEMMA AppendMade ==
  ASSUME NEW M, NEW h \in Seq(SUBSET M), NEW e \in SUBSET M
  PROVE  Append(h, e) \in Seq(SUBSET M)
OBVIOUS

\* The histories of a set of changes are histories of a larger one.
LEMMA SeqOfMore ==
  ASSUME NEW M, NEW N, M \subseteq N, NEW h \in Seq(SUBSET M)
  PROVE  h \in Seq(SUBSET N)
OBVIOUS

\* A rebase that is continued makes a history of what the histories it is made of hold.
LEMMA PicksAreMade ==
  ASSUME NEW M, NEW h \in Seq(SUBSET M), NEW picked \in Seq(SUBSET M)
  PROVE  PickAll(h, picked) \in Seq(SUBSET M)
<1> DEFINE sets == Fresh(h, picked)
           P == {i \in DOMAIN picked : sets[i] # {}}
           commit(k) == UNION {sets[i] : i \in {j \in DOMAIN sets : Rank(P, j) = k}}
<1>1. DOMAIN sets = DOMAIN picked /\ \A i \in DOMAIN picked : sets[i] \subseteq picked[i]
  BY DEF Fresh
<1>2. DOMAIN picked = 1 .. Len(picked) /\ \A i \in DOMAIN picked : picked[i] \subseteq M
  OBVIOUS
<1>3. \A k : commit(k) \subseteq M
  <2> HIDE DEF sets
  <2> QED BY <1>1, <1>2
<1>4. Cardinality(P) \in Nat
  <2>1. P \subseteq 1 .. Len(picked)
    BY <1>2
  <2> HIDE DEF P
  <2>2. IsFiniteSet(1 .. Len(picked))
    BY FS_Interval
  <2> QED BY <2>1, <2>2, FS_Subset, FS_CardinalityType
<1>5. [k \in 1 .. Cardinality(P) |-> commit(k)] \in Seq(SUBSET M)
  <2> HIDE DEF commit, P
  <2> QED BY <1>3, <1>4
<1>6. PickAll(h, picked) = h \o [k \in 1 .. Cardinality(P) |-> commit(k)]
  BY DEF PickAll, Stack
<1> HIDE DEF commit, P
<1> QED BY <1>5, <1>6

\* A repository that takes another history, of what was made there, and other
\* changes, of which none is new that is not staged.
LEMMA RepositoryChanges ==
  ASSUME GitInv, NEW r \in Repo,
         NEW l \in Seq(SUBSET made[r]), NEW c \in SUBSET made[r], NEW s \in SUBSET c,
         NEW b \in Seq(SUBSET made[r]) \cup {None},
         c \ s \subseteq changed[r] \ staged[r],
         log' = [log EXCEPT ![r] = l], changed' = [changed EXCEPT ![r] = c],
         staged' = [staged EXCEPT ![r] = s], before' = [before EXCEPT ![r] = b],
         made' = made, discarded' \in SUBSET Path
  PROVE  GitStep
<1>0. made[r] \in SUBSET Path
  BY DEF GitInv, GitTypeOK
<1>1. l \in Seq(SUBSET Path) /\ b \in Seq(SUBSET Path) \cup {None}
  BY <1>0, SeqOfMore
<1>2. GitTypeOK'
  BY <1>0, <1>1 DEF GitInv, GitTypeOK
<1>3. \A q \in Repo : MadeThere(q)'
  BY DEF GitInv, GitTypeOK, MadeThere
<1>4. \A q \in Repo : (changed'[q] \cap made[q]) \ staged'[q] \subseteq changed[q] \ staged[q]
  BY DEF GitInv, GitTypeOK
<1> QED BY <1>2, <1>3, <1>4 DEF GitInv, GitStep

\* What git leaves as it is, it leaves so in one repository.
LEMMA Unchanged ==
  ASSUME GitInv, NEW r \in Repo
  PROVE  /\ log = [log EXCEPT ![r] = log[r]] /\ changed = [changed EXCEPT ![r] = changed[r]]
         /\ staged = [staged EXCEPT ![r] = staged[r]] /\ before = [before EXCEPT ![r] = before[r]]
         /\ log[r] \in Seq(SUBSET made[r]) /\ changed[r] \subseteq made[r]
         /\ staged[r] \subseteq changed[r] /\ before[r] \in Seq(SUBSET made[r]) \cup {None}
         /\ discarded \in SUBSET Path
BY DEF GitInv, GitTypeOK, MadeThere

\* git add, commit, commit --amend and reset --soft are steps of git.
LEMMA CommandsStep ==
  ASSUME GitInv, NEW r \in Repo,
         \/ \E p \in Path : Add(r, p)
         \/ CommitSet(r, staged[r]) \/ AmendCommit(r) \/ ResetSoft(r)
  PROVE  GitStep
<1>0. /\ log[r] \in Seq(SUBSET made[r]) /\ changed[r] \subseteq made[r]
      /\ staged[r] \subseteq changed[r] /\ before[r] \in Seq(SUBSET made[r]) \cup {None}
      /\ discarded \in SUBSET Path
  BY Unchanged
<1>1. ASSUME NEW p \in Path, Add(r, p) PROVE GitStep
  <2> DEFINE s == staged[r] \cup ({p} \cap changed[r])
  <2>1. staged' = [staged EXCEPT ![r] = s] /\ s \subseteq changed[r]
    BY <1>0, <1>1 DEF Add
  <2> HIDE DEF s
  <2>2. /\ log' = [log EXCEPT ![r] = log[r]] /\ changed' = [changed EXCEPT ![r] = changed[r]]
        /\ before' = [before EXCEPT ![r] = before[r]] /\ made' = made /\ discarded' = discarded
    BY <1>1, Unchanged DEF Add
  <2>3. changed[r] \ s \subseteq changed[r] \ staged[r]
    BY DEF s
  <2>4. changed[r] \in SUBSET made[r] /\ s \in SUBSET changed[r]
    BY <1>0, <2>1
  <2> QED BY <1>0, <2>1, <2>2, <2>3, <2>4, RepositoryChanges
<1>2. CASE CommitSet(r, staged[r])
  <2> DEFINE l == Append(log[r], staged[r])
             c == changed[r] \ staged[r]
             s == {}
  <2>1. /\ log' = [log EXCEPT ![r] = l] /\ changed' = [changed EXCEPT ![r] = c]
        /\ staged' = [staged EXCEPT ![r] = s]
    BY <1>2 DEF CommitSet
  <2>2. l \in Seq(SUBSET made[r]) /\ c \in SUBSET made[r] /\ s \in SUBSET c
    <3>1. staged[r] \in SUBSET made[r]
      BY <1>0
    <3>2. l \in Seq(SUBSET made[r])
      BY <1>0, <3>1, AppendMade
    <3> QED BY <1>0, <3>2
  <2>3. c \ s \subseteq changed[r] \ staged[r]
    OBVIOUS
  <2>4. before' = before /\ made' = made /\ discarded' = discarded
    BY <1>2 DEF CommitSet
  <2> HIDE DEF l, c, s
  <2> QED BY <1>0, <2>1, <2>2, <2>3, <2>4, Unchanged, RepositoryChanges
<1>3. CASE AmendCommit(r)
  <2> DEFINE l == Append(Front(log[r]), Last(log[r]) \cup staged[r])
             c == changed[r] \ staged[r]
             s == {}
  <2>1. /\ log' = [log EXCEPT ![r] = l] /\ changed' = [changed EXCEPT ![r] = c]
        /\ staged' = [staged EXCEPT ![r] = s] /\ log[r] # <<>>
    BY <1>3 DEF AmendCommit
  <2>2. Front(log[r]) \in Seq(SUBSET made[r]) /\ Last(log[r]) \in SUBSET made[r]
    BY <1>0, <2>1, FrontAndLast
  <2>3. l \in Seq(SUBSET made[r]) /\ c \in SUBSET made[r] /\ s \in SUBSET c
    <3>1. Last(log[r]) \cup staged[r] \in SUBSET made[r]
      BY <1>0, <2>2
    <3>2. l \in Seq(SUBSET made[r])
      BY <2>2, <3>1, AppendMade
    <3> QED BY <1>0, <3>2
  <2>4. c \ s \subseteq changed[r] \ staged[r]
    OBVIOUS
  <2>5. before' = before /\ made' = made /\ discarded' = discarded
    BY <1>3 DEF AmendCommit
  <2> HIDE DEF l, c, s
  <2> QED BY <1>0, <2>1, <2>3, <2>4, <2>5, Unchanged, RepositoryChanges
<1>4. CASE ResetSoft(r)
  <2> DEFINE l == Front(log[r])
             c == changed[r] \cup Last(log[r])
             s == staged[r] \cup Last(log[r])
  <2>1. /\ log' = [log EXCEPT ![r] = l] /\ changed' = [changed EXCEPT ![r] = c]
        /\ staged' = [staged EXCEPT ![r] = s] /\ log[r] # <<>>
    BY <1>0, <1>4 DEF ResetSoft
  <2>2. l \in Seq(SUBSET made[r]) /\ Last(log[r]) \in SUBSET made[r]
    BY <1>0, <2>1, FrontAndLast
  <2>3. c \in SUBSET made[r] /\ s \in SUBSET c /\ c \ s \subseteq changed[r] \ staged[r]
    BY <1>0, <2>2
  <2>4. before' = before /\ made' = made /\ discarded' = discarded
    BY <1>4 DEF ResetSoft
  <2> HIDE DEF l, c, s
  <2> QED BY <1>0, <2>1, <2>2, <2>3, <2>4, Unchanged, RepositoryChanges
<1> QED BY <1>1, <1>2, <1>3, <1>4

\* The user's edits, commits and rebases are steps of git.
LEMMA OutsideStep ==
  ASSUME GitInv, NEW r \in Repo, Outside(r)
  PROVE  GitStep
<1>0. /\ log[r] \in Seq(SUBSET made[r]) /\ changed[r] \in SUBSET made[r]
      /\ staged[r] \in SUBSET changed[r] /\ before[r] \in Seq(SUBSET made[r]) \cup {None}
      /\ discarded \in SUBSET Path
  BY Unchanged
<1>1. ASSUME NEW p \in Path, Edit(r, p) PROVE GitStep
  <2>1. /\ log' = log /\ staged' = staged /\ before' = before /\ discarded' = discarded
        /\ changed' = [changed EXCEPT ![r] = @ \cup {p}] /\ made' = [made EXCEPT ![r] = @ \cup {p}]
        /\ \A q \in Repo : p \notin made[q]
    BY <1>1 DEF Edit
  <2>2. GitTypeOK'
    BY <2>1 DEF GitInv, GitTypeOK
  <2>3. \A q \in Repo : made[q] \subseteq made'[q]
    BY <2>1 DEF GitInv, GitTypeOK
  <2>4. ASSUME NEW q \in Repo PROVE MadeThere(q)'
    <3>1. log[q] \in Seq(SUBSET made[q]) /\ before[q] \in Seq(SUBSET made[q]) \cup {None}
      BY DEF GitInv, MadeThere
    <3>2. log[q] \in Seq(SUBSET made'[q]) /\ before[q] \in Seq(SUBSET made'[q]) \cup {None}
      BY <2>3, <3>1, SeqOfMore
    <3>3. changed'[q] \subseteq made'[q]
      BY <2>1 DEF GitInv, GitTypeOK, MadeThere
    <3> QED BY <2>1, <3>2, <3>3 DEF MadeThere
  <2>5. \A q \in Repo : (changed'[q] \cap made[q]) \ staged'[q] \subseteq changed[q] \ staged[q]
    BY <2>1 DEF GitInv, GitTypeOK
  <2> QED BY <2>2, <2>3, <2>4, <2>5 DEF GitStep, GitInv
<1>2. ASSUME NEW p \in Path, Discard(r, p) PROVE GitStep
  <2> DEFINE c == changed[r] \ {p}
             s == staged[r] \ {p}
  <2>1. /\ changed' = [changed EXCEPT ![r] = c] /\ staged' = [staged EXCEPT ![r] = s]
        /\ log' = [log EXCEPT ![r] = log[r]] /\ before' = [before EXCEPT ![r] = before[r]]
        /\ made' = made /\ discarded' \in SUBSET Path
    BY <1>2, Unchanged DEF Discard
  <2>2. c \in SUBSET made[r] /\ s \in SUBSET c /\ c \ s \subseteq changed[r] \ staged[r]
    BY <1>0
  <2> HIDE DEF c, s
  <2> QED BY <1>0, <2>1, <2>2, RepositoryChanges
<1>3. CASE CommitAll(r)
  <2> DEFINE l == Append(log[r], changed[r])
             c == changed[r] \ changed[r]
             s == {}
  <2>1. /\ log' = [log EXCEPT ![r] = l] /\ changed' = [changed EXCEPT ![r] = c]
        /\ staged' = [staged EXCEPT ![r] = s] /\ before' = [before EXCEPT ![r] = before[r]]
        /\ made' = made /\ discarded' = discarded
    BY <1>3, Unchanged DEF CommitAll, CommitSet
  <2>2. l \in Seq(SUBSET made[r])
    BY <1>0, AppendMade
  <2>3. c \in SUBSET made[r] /\ s \in SUBSET c /\ c \ s \subseteq changed[r] \ staged[r]
    OBVIOUS
  <2> HIDE DEF l, c, s
  <2> QED BY <1>0, <2>1, <2>2, <2>3, RepositoryChanges
<1>4. CASE OtherRebaseStops(r)
  <2> DEFINE l == Front(log[r])
  <2>1. /\ log' = [log EXCEPT ![r] = l] /\ changed' = [changed EXCEPT ![r] = changed[r]]
        /\ staged' = [staged EXCEPT ![r] = staged[r]] /\ before' = [before EXCEPT ![r] = log[r]]
        /\ made' = made /\ discarded' = discarded /\ log[r] # <<>>
    BY <1>4, Unchanged DEF OtherRebaseStops
  <2>2. l \in Seq(SUBSET made[r])
    BY <1>0, <2>1, FrontAndLast
  <2> HIDE DEF l
  <2> QED BY <1>0, <2>1, <2>2, RepositoryChanges
<1>5. CASE OtherRebaseEnds(r)
  <2> DEFINE l == PickAll(log[r], before[r])
  <2>1. l \in Seq(SUBSET made[r])
    BY <1>0, <1>5, Unchanged, PicksAreMade DEF OtherRebaseEnds, Rebasing
  <2>2. /\ log' = [log EXCEPT ![r] = l] /\ changed' = [changed EXCEPT ![r] = changed[r]]
        /\ staged' = [staged EXCEPT ![r] = staged[r]] /\ before' = [before EXCEPT ![r] = None]
        /\ made' = made /\ discarded' = discarded
    BY <1>5, Unchanged DEF OtherRebaseEnds
  <2>3. None \in Seq(SUBSET made[r]) \cup {None}
    OBVIOUS
  <2> HIDE DEF l
  <2> QED BY <1>0, <2>1, <2>2, <2>3, RepositoryChanges
<1> QED BY <1>1, <1>2, <1>3, <1>4, <1>5 DEF Outside

\* A step that is not git's leaves it alone.
LEMMA GitStutters ==
  ASSUME GitInv, UNCHANGED git
  PROVE  GitStep
BY DEF git, GitStep, GitInv, GitTypeOK, MadeThere

-----------------------------------------------------------------------------
(* The parts of the program's state, under a step of git.                  *)

\* A screen that stays keeps its invariant: what was made stays made.
LEMMA ScreenStays ==
  ASSUME IInv, GitStep, UNCHANGED screen
  PROVE  ScreenOK'
BY DEF IInv, GitStep, ScreenOK, screen

\* A refresh shows what git holds.
LEMMA ScreenIsShown ==
  ASSUME IInv, GitStep, ShowScreen, selectedRepository # None
  PROVE  ScreenOK'
<1> DEFINE r == selectedRepository
<1>1. r \in Repo /\ selectedRepository' = r
  BY DEF IInv, ScreenOK, ShowScreen
<1>2. /\ log[r] \in Seq(SUBSET Path) /\ changed[r] \in SUBSET Path
      /\ changed[r] \subseteq made[r] /\ made[r] \subseteq made'[r]
  BY <1>1 DEF IInv, GitInv, GitTypeOK, MadeThere, GitStep
<1>3. /\ commits' = log[r] /\ changedFiles' = changed[r] /\ checkedPaths' = changed[r]
      /\ hasUnresolvedConflicts' \in BOOLEAN
  BY DEF ShowScreen
<1> QED BY <1>1, <1>2, <1>3 DEF ScreenOK

\* A call that stays keeps its invariant: what it has staged stays staged, and what
\* comes up unstaged is not among its paths.
LEMMA CallStays ==
  ASSUME IInv, GitStep, UNCHANGED committing
  PROVE  CallOK'
<1>1. CASE committing = Idle
  BY <1>1 DEF CallOK
<1>2. CASE committing # Idle
  <2> DEFINE r == committing.repo
  <2>1. committing \in CommitCall /\ r \in Repo
    BY <1>2 DEF IInv, CallOK, CommitCall
  <2>2. made[r] \subseteq made'[r] /\ (changed'[r] \cap made[r]) \ staged'[r] \subseteq changed[r] \ staged[r]
    BY <2>1 DEF GitStep
  <2>3. /\ committing.paths \subseteq made[r]
        /\ committing.at \in {"staging", "committing"} /\ ~committing.failed =>
             (committing.paths \ committing.left) \cap changed[r] \subseteq staged[r]
        /\ committing.at = "committing" => committing.left = {} /\ ~committing.failed
    BY <1>2 DEF IInv, CallOK
  <2> QED BY <2>1, <2>2, <2>3 DEF CallOK
<1> QED BY <1>1, <1>2

\* A call that is over, or does not stage or commit any more, keeps it as well.
LEMMA CallIsOver ==
  ASSUME IInv, GitStep,
         \/ committing' = Idle
         \/ committing # Idle /\ \E at \in {"grace", "refreshing"} : committing' = [committing EXCEPT !.at = at]
  PROVE  CallOK'
<1>1. CASE committing' = Idle
  BY <1>1 DEF CallOK
<1>2. ASSUME committing # Idle, NEW at \in {"grace", "refreshing"}, committing' = [committing EXCEPT !.at = at]
      PROVE CallOK'
  <2>1. committing \in CommitCall /\ committing.repo \in Repo
    BY <1>2 DEF IInv, CallOK, CommitCall
  <2>2. /\ committing' \in CommitCall /\ committing'.repo = committing.repo
        /\ committing'.paths = committing.paths /\ committing'.at = at
    BY <1>2, <2>1 DEF CommitCall
  <2>3. committing.paths \subseteq made[committing.repo]
    BY <1>2 DEF IInv, CallOK
  <2>4. made[committing.repo] \subseteq made'[committing.repo]
    BY <2>1 DEF GitStep
  <2> QED BY <1>2, <2>2, <2>3, <2>4 DEF CallOK
<1> QED BY <1>1, <1>2

\* Every outcome that is shown comes with its task.
LEMMA OutcomeIsSignalled ==
  ASSUME IInv, UNCHANGED form,
         \/ \E o \in {"success", "failure"} : SignalCommitOutcome(o)
         \/ UNCHANGED outcome
  PROVE  OutcomeOK'
BY DEF IInv, OutcomeOK, form, outcome, SignalCommitOutcome, OutcomeIsCleared

-----------------------------------------------------------------------------
(* The actions.                                                            *)

\* At the start nothing is shown and nothing under way.
LEMMA InitIInv == GitInit([r \in Repo |-> <<>>]) /\ CommitInit => IInv
<1> SUFFICES ASSUME GitInit([r \in Repo |-> <<>>]), CommitInit PROVE IInv
  OBVIOUS
<1>1. Held(<<>>) = {}
  BY DEF Held, Range
<1>2. GitInv
  <2>1. /\ log = [r \in Repo |-> <<>>] /\ changed = [r \in Repo |-> {}]
        /\ staged = [r \in Repo |-> {}] /\ before = [r \in Repo |-> None]
        /\ made = [r \in Repo |-> {}] /\ discarded = {}
    BY <1>1 DEF GitInit
  <2>2. GitTypeOK
    BY <2>1, NoHistory DEF GitTypeOK
  <2>3. \A r \in Repo : MadeThere(r)
    BY <2>1, NoHistory DEF MadeThere
  <2> QED BY <2>2, <2>3 DEF GitInv
<1>3. ScreenOK /\ OutcomeOK /\ CallOK
  BY NoHistory DEF CommitInit, ScreenOK, OutcomeOK, OutcomeIsCleared, CallOK, Idle
<1>4. undoing \in [Repo -> 0 .. MaxUndos]
  BY CommitAssumption DEF CommitInit
<1> QED BY <1>2, <1>3, <1>4 DEF IInv

\* What the user does, and a refresh, without git.
LEMMA UserSteps ==
  ASSUME IInv, UNCHANGED git,
         \/ \E r \in Repo \cup {None} : SelectRepository(r)
         \/ RefreshReturns
         \/ \E S \in SUBSET Path : Check(S)
         \/ Type \/ ToggleAmendMode \/ BeginCommit \/ RejectCommit
  PROVE  IInv'
<1>0. GitStep /\ GitInv'
  BY GitStutters DEF IInv, GitStep
<1>1. ASSUME NEW r \in Repo \cup {None}, SelectRepository(r) PROVE IInv'
  <2>1. /\ selectedRepository' = r /\ commits' = <<>> /\ changedFiles' = {}
        /\ hasUnresolvedConflicts' = FALSE /\ checkedPaths' = {}
    BY <1>1 DEF SelectRepository, Selects
  <2>2. ScreenOK'
    BY <2>1, NoHistory DEF ScreenOK
  <2>3. OutcomeOK'
    BY <1>1 DEF SelectRepository, ResetForm, ResetOutcomes, IInv, OutcomeOK, OutcomeIsCleared
  <2>4. CallOK'
    BY <1>0, <1>1, CallStays, RepositoriesAssumption DEF SelectRepository, Selects
  <2>5. undoing' = undoing
    BY <1>1 DEF SelectRepository
  <2> QED BY <1>0, <2>2, <2>3, <2>4, <2>5 DEF IInv
<1>2. CASE RefreshReturns
  <2>1. ScreenOK'
    BY <1>0, <1>2, ScreenIsShown DEF RefreshReturns
  <2>2. OutcomeOK'
    BY <1>2, OutcomeIsSignalled DEF RefreshReturns
  <2>3. CallOK'
    BY <1>0, <1>2, CallStays DEF RefreshReturns, ShowScreen
  <2>4. undoing' = undoing
    BY <1>2 DEF RefreshReturns
  <2> QED BY <1>0, <2>1, <2>2, <2>3, <2>4 DEF IInv
<1>3. ASSUME NEW S \in SUBSET Path, Check(S) PROVE IInv'
  <2>1. ScreenOK'
    BY <1>3 DEF Check, git, IInv, ScreenOK
  <2>2. OutcomeOK'
    BY <1>3, OutcomeIsSignalled DEF Check
  <2>3. CallOK'
    BY <1>0, <1>3, CallStays DEF Check
  <2>4. undoing' = undoing
    BY <1>3 DEF Check
  <2> QED BY <1>0, <2>1, <2>2, <2>3, <2>4 DEF IInv
<1>4. CASE Type \/ ToggleAmendMode
  <2>1. ScreenOK'
    BY <1>0, <1>4, ScreenStays DEF Type, ToggleAmendMode
  <2>2. OutcomeOK'
    BY <1>4 DEF Type, ToggleAmendMode, outcome, IInv, OutcomeOK, OutcomeIsCleared
  <2>3. CallOK'
    BY <1>0, <1>4, CallStays DEF Type, ToggleAmendMode, screen
  <2>4. undoing' = undoing
    BY <1>4 DEF Type, ToggleAmendMode
  <2> QED BY <1>0, <2>1, <2>2, <2>3, <2>4 DEF IInv
<1>5. CASE BeginCommit
  <2>1. ScreenOK'
    BY <1>0, <1>5, ScreenStays DEF BeginCommit
  <2>2. OutcomeOK'
    BY <1>5, OutcomeIsSignalled DEF BeginCommit
  <2>3. /\ selectedRepository \in Repo /\ checkedPaths \in SUBSET Path
        /\ checkedPaths \subseteq made[selectedRepository] /\ isAmendMode \in BOOLEAN
    BY <1>5 DEF BeginCommit, CanCommitChanges, IInv, ScreenOK, OutcomeOK
  <2>4. committing' = [at |-> IF checkedPaths = {} THEN "committing" ELSE "staging",
                       repo |-> selectedRepository, amend |-> isAmendMode,
                       paths |-> checkedPaths, left |-> checkedPaths, failed |-> FALSE]
    BY <1>5 DEF BeginCommit
  <2>5. committing' \in CommitCall
    BY <2>3, <2>4 DEF CommitCall
  <2>6. selectedRepository' = selectedRepository /\ made' = made
    BY <1>5 DEF BeginCommit, screen, git
  <2>7. CallOK'
    BY <2>3, <2>4, <2>5, <2>6, RepositoriesAssumption DEF CallOK
  <2>8. undoing' = undoing
    BY <1>5 DEF BeginCommit
  <2> QED BY <1>0, <2>1, <2>2, <2>7, <2>8 DEF IInv
<1>6. CASE RejectCommit
  <2>1. ScreenOK'
    BY <1>0, <1>6, ScreenStays DEF RejectCommit
  <2>2. OutcomeOK'
    BY <1>6, OutcomeIsSignalled DEF RejectCommit
  <2>3. CallOK'
    BY <1>0, <1>6, CallStays DEF RejectCommit, screen
  <2>4. undoing' = undoing
    BY <1>6 DEF RejectCommit
  <2> QED BY <1>0, <2>1, <2>2, <2>3, <2>4 DEF IInv
<1> QED BY <1>1, <1>2, <1>3, <1>4, <1>5, <1>6

\* One more path has been asked for: if none has failed, those asked for are in the
\* index, and the call fails or goes on with the rest.
LEMMA StagingSteps ==
  ASSUME IInv, NEW p \in Path, StageSucceeds(p) \/ StageFails(p)
  PROVE  IInv'
<1> DEFINE r == committing.repo
           left == committing.left \ {p}
<1>1. /\ committing.at = "staging" /\ committing \in CommitCall /\ r \in Repo
      /\ committing # Idle /\ UNCHANGED <<screen, form, undoing>>
  <2>1. committing.at = "staging" /\ UNCHANGED <<screen, form, undoing>>
    BY DEF StageSucceeds, StageFails
  <2>2. committing # Idle
    BY <2>1 DEF Idle
  <2>3. committing \in CommitCall
    BY <2>2 DEF IInv, CallOK
  <2> QED BY <2>1, <2>2, <2>3 DEF CommitCall
<1>2. GitStep
  BY <1>1, CommandsStep, GitStutters DEF StageSucceeds, StageFails, IInv
<1>3. PICK failed \in BOOLEAN :
        /\ StagingGoesOn(left, failed)
        /\ ~failed => ~committing.failed /\ Add(r, p)
  BY <1>1 DEF StageSucceeds, StageFails, CommitCall
<1>4. OutcomeOK'
  BY <1>1, <1>3, OutcomeIsSignalled DEF StagingGoesOn
<1>5. CallOK'
  <2>1. CASE left = {} /\ failed
    BY <1>1, <1>2, <1>3, <2>1, CallIsOver DEF StagingGoesOn, screen
  <2>2. CASE ~(left = {} /\ failed)
    <3> DEFINE at == IF left = {} THEN "committing" ELSE "staging"
    <3>1. committing' = [committing EXCEPT !.at = at, !.left = left, !.failed = failed]
      BY <1>1, <1>3, <2>2 DEF StagingGoesOn
    <3>2. /\ committing'.at = at /\ committing'.repo = r /\ committing'.paths = committing.paths
          /\ committing'.left = left /\ committing'.failed = failed /\ committing' \in CommitCall
      BY <1>1, <3>1 DEF CommitCall
    <3>3. committing.paths \subseteq made[r]
      BY <1>1 DEF IInv, CallOK
    <3>4. committing.paths \subseteq made'[r]
      BY <1>1, <1>2, <3>3 DEF GitStep
    <3>5. ASSUME ~failed PROVE (committing.paths \ left) \cap changed'[r] \subseteq staged'[r]
      <4>1. (committing.paths \ committing.left) \cap changed[r] \subseteq staged[r]
        BY <1>1, <1>3, <3>5 DEF IInv, CallOK
      <4>2. changed' = changed /\ staged'[r] = staged[r] \cup ({p} \cap changed[r])
        BY <1>1, <1>3, <3>5 DEF Add, IInv, GitInv, GitTypeOK
      <4> QED BY <4>1, <4>2
    <3> HIDE DEF left, r
    <3> QED BY <2>2, <3>2, <3>4, <3>5 DEF CallOK
  <2> QED BY <2>1, <2>2
<1>6. ScreenOK'
  BY <1>1, <1>2, ScreenStays
<1>7. undoing' = undoing
  BY <1>1
<1> QED BY <1>2, <1>4, <1>5, <1>6, <1>7 DEF IInv, GitStep

\* git commit, the grace period and the refresh keep the invariant.
LEMMA CommittingSteps ==
  ASSUME IInv, CommitSucceeds \/ CommitFails \/ GraceEnds \/ CommitReturns
  PROVE  IInv'
<1>0. ASSUME committing.at # "none"
      PROVE committing # Idle /\ committing \in CommitCall /\ committing.repo \in Repo
  BY <1>0 DEF IInv, CallOK, CommitCall, Idle
<1>1. ASSUME CommitSucceeds \/ CommitFails PROVE IInv'
  <2>1. committing.at = "committing" /\ UNCHANGED <<screen, form, undoing>>
    BY <1>1 DEF CommitSucceeds, CommitFails
  <2>2. GitStep
    BY <1>0, <1>1, <2>1, CommandsStep, GitStutters DEF CommitSucceeds, CommitFails, GitCommits, IInv
  <2>3. ScreenOK'
    BY <2>1, <2>2, ScreenStays
  <2>4. OutcomeOK'
    BY <1>1, <2>1, OutcomeIsSignalled DEF CommitSucceeds, CommitFails
  <2>5. CallOK'
    BY <1>0, <1>1, <2>1, <2>2, CallIsOver DEF CommitSucceeds, CommitFails, screen
  <2> QED BY <2>1, <2>2, <2>3, <2>4, <2>5 DEF IInv, GitStep
<1>2. CASE GraceEnds
  <2>1. committing.at = "grace" /\ UNCHANGED <<git, screen, outcome, undoing>>
    BY <1>2 DEF GraceEnds
  <2>2. GitStep
    BY <2>1, GitStutters DEF IInv
  <2>3. ScreenOK'
    BY <2>1, <2>2, ScreenStays
  <2>4. OutcomeOK'
    BY <1>2, <2>1 DEF GraceEnds, ResetForm, outcome, form, IInv, OutcomeOK, OutcomeIsCleared
  <2>5. CallOK'
    BY <1>0, <1>2, <2>1, <2>2, CallIsOver DEF GraceEnds, screen
  <2> QED BY <2>1, <2>2, <2>3, <2>4, <2>5 DEF IInv, GitStep
<1>3. CASE CommitReturns
  <2>1. committing.at = "refreshing" /\ committing' = Idle /\ UNCHANGED <<git, form, outcome, undoing>>
    BY <1>3 DEF CommitReturns
  <2>2. GitStep
    BY <2>1, GitStutters DEF IInv
  <2>3. ScreenOK'
    BY <1>3, <2>2, ScreenStays, ScreenIsShown DEF CommitReturns
  <2>4. OutcomeOK'
    BY <2>1, OutcomeIsSignalled
  <2>5. CallOK'
    BY <2>1, <2>2, CallIsOver
  <2> QED BY <2>1, <2>2, <2>3, <2>4, <2>5 DEF IInv, GitStep
<1> QED BY <1>1, <1>2, <1>3

\* So do undos, the tasks that reset the outcome, and what the user does elsewhere.
LEMMA OtherSteps ==
  ASSUME IInv,
         \/ BeginUndo \/ \E r \in Repo : UndoReturns(r)
         \/ ResetIsDue \/ ResetFires \/ LateResetFires
         \/ (\E r \in Repo : Outside(r)) /\ UNCHANGED commitVars
  PROVE  IInv'
<1>1. UNCHANGED <<screen, committing>>
  BY DEF BeginUndo, UndoReturns, ResetIsDue, ResetFires, LateResetFires, commitVars
<1>2. GitStep
  BY CommandsStep, OutsideStep, GitStutters
     DEF BeginUndo, UndoReturns, ResetIsDue, ResetFires, LateResetFires, IInv
<1>3. ScreenOK'
  BY <1>1, <1>2, ScreenStays
<1>4. CallOK'
  BY <1>1, <1>2, CallStays DEF screen
<1>5. OutcomeOK'
  BY DEF BeginUndo, UndoReturns, ResetIsDue, ResetFires, LateResetFires, commitVars,
         form, outcome, IInv, OutcomeOK, OutcomeIsCleared
<1>6. undoing' \in [Repo -> 0 .. MaxUndos]
  <2>1. CASE BeginUndo
    <3>1. selectedRepository \in Repo /\ undoing[selectedRepository] < MaxUndos
      BY <2>1 DEF BeginUndo, IInv, ScreenOK
    <3>2. undoing' = [undoing EXCEPT ![selectedRepository] = @ + 1]
      BY <2>1 DEF BeginUndo
    <3> QED BY <3>1, <3>2, CommitAssumption DEF IInv
  <2>2. ASSUME NEW r \in Repo, UndoReturns(r) PROVE undoing' \in [Repo -> 0 .. MaxUndos]
    BY <2>2, CommitAssumption DEF UndoReturns, IInv
  <2>3. CASE undoing' = undoing
    BY <2>3 DEF IInv
  <2> QED BY <2>1, <2>2, <2>3 DEF ResetIsDue, ResetFires, LateResetFires, commitVars
<1> QED BY <1>2, <1>3, <1>4, <1>5, <1>6 DEF IInv, GitStep

\* Every step keeps the inductive invariant.
LEMMA NextIInv == IInv /\ [CommitNext]_<<git, commitVars>> => IInv'
<1> SUFFICES ASSUME IInv, [CommitNext]_<<git, commitVars>> PROVE IInv'
  OBVIOUS
<1>1. CASE UNCHANGED <<git, commitVars>>
  <2>1. GitStep
    BY <1>1, GitStutters DEF IInv
  <2>2. ScreenOK' /\ CallOK' /\ OutcomeOK'
    BY <1>1, <2>1, ScreenStays, CallStays, OutcomeIsSignalled DEF commitVars, screen
  <2>3. undoing' = undoing
    BY <1>1 DEF commitVars
  <2> QED BY <2>1, <2>2, <2>3 DEF IInv, GitStep
<1>2. CASE CommitNext
  BY <1>2, UserSteps, StagingSteps, CommittingSteps, OtherSteps DEF CommitNext
<1> QED BY <1>1, <1>2

-----------------------------------------------------------------------------
(* What follows from the invariant.                                        *)

\* The inductive invariant holds throughout.
THEOREM Invariance == CommitSpec => []IInv
  BY InitIInv, NextIInv, PTL DEF CommitSpec

\* Every variable of the commit form, of the changed files and of git has its type;
\* in particular no path is checked that the list does not show.
THEOREM TypeCorrect == CommitSpec => []CommitTypeOK
<1>1. IInv => CommitTypeOK
  BY DEF IInv, GitInv, ScreenOK, OutcomeOK, CallOK, CommitTypeOK
<1> QED BY <1>1, Invariance, PTL

\* commitChanges never commits a part of what the user has checked: no undo, amend,
\* rebase, edit or switch of the repository between a git add and git commit leaves
\* a checked change unstaged.
THEOREM NoPartialCommit == CommitSpec => []WholeSelection
<1>1. IInv => WholeSelection
  <2> SUFFICES ASSUME IInv, committing.at = "committing"
               PROVE committing.paths \cap changed[committing.repo] \subseteq staged[committing.repo]
    BY DEF WholeSelection
  <2>1. committing # Idle
    BY DEF Idle
  <2> QED BY <2>1 DEF IInv, CallOK
<1> QED BY <1>1, Invariance, PTL

\* An outcome that is shown is cleared: signalCommitOutcome never cancels the last
\* task without starting another.
THEOREM OutcomesAreCleared == CommitSpec => []OutcomeIsCleared
<1>1. IInv => OutcomeIsCleared
  BY DEF IInv, OutcomeOK
<1> QED BY <1>1, Invariance, PTL

\* Whatever commitChanges and undoCommit do to a repository is what HistoryRewriting
\* expects of others, so that what is checked of a rewriting holds while they run.
THEOREM CommitsActAsOthers == CommitSpec => CommitsAreOthers
<1>1. ASSUME IInv, [CommitNext]_<<git, commitVars>>
      PROVE  [\E r \in Repo : Others(r)]_git
  <2>1. ASSUME NEW p \in Path, StageSucceeds(p) \/ StageFails(p)
        PROVE  UNCHANGED git \/ Add(committing.repo, p)
    BY <2>1 DEF StageSucceeds, StageFails
  <2>2. committing # Idle => committing.repo \in Repo
    BY <1>1 DEF IInv, CallOK, CommitCall
  <2>3. CASE \E p \in Path : StageSucceeds(p) \/ StageFails(p)
    <3>1. PICK p \in Path : StageSucceeds(p) \/ StageFails(p)
      BY <2>3
    <3>2. committing.at = "staging"
      BY <3>1, Zenon DEF StageSucceeds, StageFails
    <3>3. committing # Idle
      BY <3>2 DEF Idle
    <3>4. UNCHANGED git \/ Add(committing.repo, p)
      BY <2>1, <3>1
    <3> QED BY <2>2, <3>3, <3>4 DEF Others
  <2>4. CASE CommitSucceeds \/ CommitFails
    <3>1. committing # Idle
      BY <2>4 DEF CommitSucceeds, CommitFails, Idle
    <3>2. UNCHANGED git \/ AmendCommit(committing.repo)
            \/ CommitSet(committing.repo, staged[committing.repo])
      BY <2>4 DEF CommitSucceeds, CommitFails, GitCommits
    <3> QED BY <2>2, <3>1, <3>2 DEF Others
  <2>5. CASE \E r \in Repo : UndoReturns(r)
    BY <2>5 DEF UndoReturns, Others
  <2>6. CASE \E r \in Repo : Outside(r)
    BY <2>6 DEF Others
  <2>7. CASE UNCHANGED git
    BY <2>7
  <2> QED BY <1>1, <2>3, <2>4, <2>5, <2>6, <2>7
        DEF CommitNext, GraceEnds, CommitReturns, BeginUndo, ResetIsDue, ResetFires, LateResetFires
<1> QED BY <1>1, Invariance, PTL DEF CommitSpec, CommitsAreOthers
================================================================================
