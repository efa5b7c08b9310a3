---------------------------- MODULE GitRepository ----------------------------
(***************************************************************************)
(* External: a git repository as far as the code in src reads and writes   *)
(* it when it commits and rewrites history.  Its branch is linear.         *)
(*                                                                         *)
(* A change is the edit of one file; it is made once.  A commit holds a    *)
(* set of changes.  What names a commit, its sha, also fixes everything    *)
(* before it, so a commit is named by the history that ends in it, the     *)
(* sequence of the sets of changes.  (A commit that is made again with the *)
(* same changes on the same parent gets the same name.)                    *)
(***************************************************************************)
EXTENDS Repositories, Naturals, FiniteSets, SequencesExt

CONSTANT Path   \* the changes; each is made in one repository at most

\* That there is no history is not a history.
ASSUME HistoriesAssumption == None \notin Seq(SUBSET Path)

VARIABLES log,      \* of each repository: what HEAD names
          changed,  \* the changes of its working tree and index that HEAD lacks
          staged,   \* those that are in the index
          before,   \* what HEAD named before the rebase that is in progress
          made,     \* history: the changes that were ever made
          discarded \* history: those that the user has thrown away

git == <<log, changed, staged, before, made, discarded>>

Commits(h) == {SubSeq(h, 1, i) : i \in 1 .. Len(h)}
Held(h)    == UNION Range(h)

Rebasing(r) == before[r] # None

\* Everything that can be found in repository r.
Kept(r) == changed[r] \cup Held(log[r]) \cup (IF Rebasing(r) THEN Held(before[r]) ELSE {})

GitTypeOK ==
  /\ log \in [Repo -> Seq(SUBSET Path)]
  /\ changed \in [Repo -> SUBSET Path]
  /\ staged \in [Repo -> SUBSET Path]
  /\ before \in [Repo -> Seq(SUBSET Path) \cup {None}]
  /\ made \in [Repo -> SUBSET Path] /\ discarded \in SUBSET Path
  /\ \A r \in Repo : staged[r] \subseteq changed[r]

\* The repositories have histories already.
GitInit(histories) ==
  /\ log = histories
  /\ changed = [r \in Repo |-> {}]
  /\ staged = [r \in Repo |-> {}]
  /\ before = [r \in Repo |-> None]
  /\ made = [r \in Repo |-> Held(histories[r])] /\ discarded = {}

-----------------------------------------------------------------------------

\* git add -A -- p; there may be nothing to add.
Add(r, p) ==
  /\ staged' = [staged EXCEPT ![r] = @ \cup ({p} \cap changed[r])]
  /\ UNCHANGED <<log, changed, before, made, discarded>>

\* git commit, of a set of changes with all that is staged.
CommitSet(r, S) ==
  /\ S # {}
  /\ log' = [log EXCEPT ![r] = Append(@, S)]
  /\ changed' = [changed EXCEPT ![r] = @ \ S]
  /\ staged' = [staged EXCEPT ![r] = {}]
  /\ UNCHANGED <<before, made, discarded>>

\* git commit --amend
AmendCommit(r) ==
  /\ log[r] # <<>>
  /\ log' = [log EXCEPT ![r] = Append(Front(@), Last(@) \cup staged[r])]
  /\ changed' = [changed EXCEPT ![r] = @ \ staged[r]]
  /\ staged' = [staged EXCEPT ![r] = {}]
  /\ UNCHANGED <<before, made, discarded>>

\* git reset --soft HEAD~1: the changes of HEAD are staged again.
ResetSoft(r) ==
  /\ Len(log[r]) >= 2
  /\ log' = [log EXCEPT ![r] = Front(@)]
  /\ changed' = [changed EXCEPT ![r] = @ \cup Last(log[r])]
  /\ staged' = [staged EXCEPT ![r] = @ \cup Last(log[r])]
  /\ UNCHANGED <<before, made, discarded>>

\* A line of a todo list: a commit that is picked, or squashed into the one
\* before.
TodoLine == [holds : SUBSET Path, squash : BOOLEAN]

\* The place of i among the positions P, and 0 before the first of them.
Rank(P, i) == Cardinality({j \in P : j <= i})

\* What each of the sets holds that neither base nor the sets before it hold.
Fresh(base, sets) ==
  [i \in DOMAIN sets |-> sets[i] \ (Held(base) \cup UNION {sets[j] : j \in 1 .. i - 1})]

\* Commits on top of base: one begins at each of the positions P, and holds what
\* comes up to the next of them.
Stack(base, sets, P) ==
  base \o [k \in 1 .. Cardinality(P) |-> UNION {sets[i] : i \in {j \in DOMAIN sets : Rank(P, j) = k}}]

HeldBy(todo) == [i \in DOMAIN todo |-> todo[i].holds]

\* What the todo list makes of a history: what was picked before is not in a pick.
Apply(base, todo) ==
  Stack(base,
        [i \in DOMAIN todo |-> IF todo[i].squash THEN todo[i].holds ELSE Fresh(base, HeldBy(todo))[i]],
        {i \in DOMAIN todo : ~todo[i].squash})

\* Git takes the list: it does not begin with a squash, and no commit is empty.
Applicable(base, todo) ==
  /\ todo # <<>> /\ ~todo[1].squash
  /\ \A i \in DOMAIN todo : Fresh(base, HeldBy(todo))[i] # {}

\* git rebase -i base, with the todo list, to its end.  What is changed must be
\* untracked.
Rebase(r, base, todo) ==
  /\ ~Rebasing(r) /\ staged[r] = {}
  /\ Applicable(base, todo)
  /\ log' = [log EXCEPT ![r] = Apply(base, todo)]
  /\ UNCHANGED <<changed, staged, before, made, discarded>>

\* ... up to a conflict, or until it is killed.
RebaseStops(r, base, todo) ==
  /\ ~Rebasing(r) /\ staged[r] = {}
  /\ \E i \in 1 .. Len(todo) :
       /\ ~todo[1].squash
       /\ log' = [log EXCEPT ![r] = Apply(base, SubSeq(todo, 1, i - 1))]
  /\ before' = [before EXCEPT ![r] = log[r]]
  /\ UNCHANGED <<changed, staged, made, discarded>>

\* git rebase --abort: the working tree goes back as well.
RebaseAbort(r) ==
  /\ Rebasing(r)
  /\ log' = [log EXCEPT ![r] = before[r]]
  /\ before' = [before EXCEPT ![r] = None]
  /\ changed' = [changed EXCEPT ![r] = {}]
  /\ staged' = [staged EXCEPT ![r] = {}]
  /\ UNCHANGED <<made, discarded>>

-----------------------------------------------------------------------------
\* What the user does in an editor or a terminal.

\* A file is edited.
Edit(r, p) ==
  /\ \A q \in Repo : p \notin made[q]
  /\ changed' = [changed EXCEPT ![r] = @ \cup {p}]
  /\ made' = [made EXCEPT ![r] = @ \cup {p}]
  /\ UNCHANGED <<log, staged, before, discarded>>

\* A change is discarded, there or in the app.
Discard(r, p) ==
  /\ p \in changed[r]
  /\ changed' = [changed EXCEPT ![r] = @ \ {p}]
  /\ staged' = [staged EXCEPT ![r] = @ \ {p}]
  /\ discarded' = discarded \cup {p}
  /\ UNCHANGED <<log, before, made>>

\* Everything is committed.
CommitAll(r) == CommitSet(r, changed[r])

\* Another rebase stops at its first commit, and waits for somebody to go on.
OtherRebaseStops(r) ==
  /\ ~Rebasing(r) /\ changed[r] = {} /\ log[r] # <<>>
  /\ before' = [before EXCEPT ![r] = log[r]]
  /\ log' = [log EXCEPT ![r] = Front(@)]
  /\ UNCHANGED <<changed, staged, made, discarded>>

\* What it makes of h when it picks the commits that follow: those that bring
\* nothing are dropped.
PickAll(h, picked) ==
  LET sets == Fresh(h, picked) IN Stack(h, sets, {i \in DOMAIN picked : sets[i] # {}})

\* It is continued, to its end.
OtherRebaseEnds(r) ==
  /\ Rebasing(r) /\ changed[r] = {}
  /\ log' = [log EXCEPT ![r] = PickAll(log[r], before[r])]
  /\ before' = [before EXCEPT ![r] = None]
  /\ UNCHANGED <<changed, staged, made, discarded>>

Outside(r) ==
  \/ \E p \in Path : Edit(r, p) \/ Discard(r, p)
  \/ CommitAll(r)
  \/ OtherRebaseStops(r) \/ OtherRebaseEnds(r)

\* Whatever git is asked to do but a rebase of the app.  Others is what the module
\* that rewrites histories takes the rest of the world to do, and what every
\* other module does at most.
Others(r) ==
  \/ \E p \in Path : Add(r, p)
  \/ CommitSet(r, staged[r]) \/ AmendCommit(r) \/ ResetSoft(r)
  \/ Outside(r)
=============================================================================
