--------------------------- MODULE HistoryRewriting ---------------------------
(***************************************************************************)
(* Squashing and reordering commits: squashSelectedCommits and             *)
(* reorderCommits of RepositoryStoreViewModel, with GitSquashProvider and  *)
(* GitReorderProvider.  Each reads a history, builds a todo list from it,  *)
(* and has git rebase with the list; if that fails it aborts the rebase.   *)
(* These are three git commands, and no lock spans them: others commit,    *)
(* undo, edit and rebase between them.                                     *)
(*                                                                         *)
(* One rewriting is followed from its beginning to its end; another one is *)
(* to it what a rebase in a terminal is.  Commits are named by their       *)
(* histories, see GitRepository.                                           *)
(***************************************************************************)
EXTENDS GitRepository

CONSTANTS Initial,   \* what the histories are in the beginning
          MaxOthers  \* bound: the steps of others

ASSUME RewritingAssumption == Initial \in [Repo -> Seq(SUBSET Path)] /\ MaxOthers \in Nat

VARIABLES commits,  \* of each repository: the history that its screen shows
          rewrite,  \* the call
          others,   \* the steps of others so far
          exposed   \* history: the changes that were put at risk

rewriteVars == <<commits, rewrite, others, exposed>>

Idle == [at |-> "none"]
Over == [at |-> "over"]

History == Seq(SUBSET Path)
Selection == {s \in Seq(History) : Len(s) >= 2}

\* The call before and after its rebase, and when the rebase is about to begin.
PendingCall == [at : {"reading", "aborting"}, kind : {"squash", "reorder"}, repo : Repo,
                selected : Selection]
RebasingCall == [at : {"rebasing"}, kind : {"squash", "reorder"}, repo : Repo, selected : Selection,
                 base : History, todo : Seq(TodoLine), from : History]

\* The type invariant, git's part included.
RewriteTypeOK ==
  /\ GitTypeOK
  /\ commits \in [Repo -> History]
  /\ others \in 0 .. MaxOthers
  /\ exposed \in [Repo -> SUBSET Path]
  /\ rewrite \in {Idle, Over} \cup PendingCall \cup RebasingCall

RewriteInit ==
  /\ GitInit(Initial)
  /\ commits = Initial
  /\ rewrite = Idle
  /\ others = 0
  /\ exposed = [r \in Repo |-> {}]

-----------------------------------------------------------------------------

\* Squash: the selected commits are in the order of the list, newest first.
NewestFirst(selected) ==
  \A i, j \in DOMAIN selected : i < j => Len(selected[i]) > Len(selected[j])

\* The parent of the oldest; that of the first commit is no commit.
SquashBase(selected) == Front(Last(selected))

\* How many commits of h the base has as well: the oldest ones.
Common(selected, h) ==
  Cardinality({i \in 1 .. Len(h) : SubSeq(h, 1, i) \in Commits(SquashBase(selected))})

\* Faulty variant: the list has the selected commits alone.
SquashTodo_SelectedOnly(selected, h) ==
  [i \in DOMAIN selected |-> [holds |-> Last(Reverse(selected)[i]), squash |-> i > 1]]

\* git log --reverse base..HEAD, or all of HEAD if there is no base: everything
\* that the base does not have; the selected ones but the oldest are squashed.
SquashTodo(selected, h) ==
  LET n == Common(selected, h) IN
  [i \in 1 .. Len(h) - n |->
     [holds |-> h[n + i], squash |-> SubSeq(h, 1, n + i) \in Range(Front(selected))]]

\* Reorder: the selected commits are in the order that is asked for, newest first.

\* The positions of the selected commits in the history of HEAD.
Slots(selected, h) == {i \in 1 .. Len(h) : SubSeq(h, 1, i) \in Range(selected)}

ReorderBase(selected, h) == SubSeq(h, 1, Min(Slots(selected, h)) - 1)

\* Faulty variant: the queue is consumed newest first.
ReorderTodo_NotReversed(selected, h) ==
  LET first == Min(Slots(selected, h)) IN
  [j \in 1 .. (Len(h) - first + 1) |->
     LET i == first + j - 1 IN
     [holds  |-> IF i \in Slots(selected, h)
                   THEN Last(selected[Rank(Slots(selected, h), i)])
                   ELSE h[i],
      squash |-> FALSE]]

\* Everything from the first of them on is picked, and each position of a selected
\* one takes the next of the queue, the wanted order turned oldest first.
ReorderTodo(selected, h) ==
  LET first == Min(Slots(selected, h))
      queue == Reverse(selected)
  IN [j \in 1 .. (Len(h) - first + 1) |->
        LET i == first + j - 1 IN
        [holds  |-> IF i \in Slots(selected, h)
                      THEN Last(queue[Rank(Slots(selected, h), i)])
                      ELSE h[i],
         squash |-> FALSE]]

-----------------------------------------------------------------------------

\* What is at risk: the changes S of repository r.
Expose(r, S) == exposed' = [exposed EXCEPT ![r] = @ \cup S]

\* A refresh shows the history.
HistoryIsShown(r) ==
  /\ commits' = [commits EXCEPT ![r] = log[r]]
  /\ UNCHANGED <<git, rewrite, others, exposed>>

\* Faulty variant: one commit is enough.
BeginSquash_One(r, S) ==
  /\ rewrite.at = "none"
  /\ S \subseteq Commits(commits[r]) /\ S # {}
  /\ \E order \in SetToSeqs(S) :
       /\ NewestFirst(order)
       /\ rewrite' = [at |-> "reading", kind |-> "squash", repo |-> r, selected |-> order]
  /\ UNCHANGED <<git, commits, others, exposed>>

\* The user selects commits of the list and confirms the sheet.  (The parent of
\* the oldest, which the first git command reads, never changes.)
BeginSquash(r, S) ==
  /\ rewrite.at = "none"
  /\ S \subseteq Commits(commits[r]) /\ Cardinality(S) >= 2
  /\ \E order \in SetToSeqs(S) :
       /\ NewestFirst(order)
       /\ rewrite' = [at |-> "reading", kind |-> "squash", repo |-> r, selected |-> order]
  /\ UNCHANGED <<git, commits, others, exposed>>

\* In the sheet the user has arranged them.
BeginReorder(r, S) ==
  /\ rewrite.at = "none"
  /\ S \subseteq Commits(commits[r]) /\ Cardinality(S) >= 2
  /\ \E order \in SetToSeqs(S) :
       rewrite' = [at |-> "reading", kind |-> "reorder", repo |-> r, selected |-> order]
  /\ UNCHANGED <<git, commits, others, exposed>>

\* The rebase is about to begin, with a todo list for the history h.
Rebases(base, todo, h) ==
  rewrite' = [at |-> "rebasing", kind |-> rewrite.kind, repo |-> rewrite.repo,
              selected |-> rewrite.selected, base |-> base, todo |-> todo, from |-> h]

\* The history is read, and the todo list is made of it.  A reorder of which HEAD
\* holds no commit is over, as if it had succeeded.
HistoryIsRead ==
  /\ rewrite.at = "reading"
  /\ LET h == log[rewrite.repo]
         selected == rewrite.selected
     IN \/ /\ rewrite.kind = "squash"
           /\ Rebases(SquashBase(selected), SquashTodo(selected, h), h)
           /\ UNCHANGED exposed
        \/ /\ rewrite.kind = "reorder" /\ Slots(selected, h) # {}
           /\ Rebases(ReorderBase(selected, h), ReorderTodo(selected, h), h)
           /\ IF Range(selected) \subseteq Commits(h)
                THEN UNCHANGED exposed
                ELSE Expose(rewrite.repo, UNION {h[i] : i \in Slots(selected, h)})
        \/ /\ rewrite.kind = "reorder" /\ Slots(selected, h) = {}
           /\ rewrite' = Over
           /\ UNCHANGED exposed
  /\ UNCHANGED <<git, commits, others>>

\* Reading it fails: a message is shown.
ReadingFails ==
  /\ rewrite.at = "reading"
  /\ rewrite' = Over
  /\ UNCHANGED <<git, commits, others, exposed>>

\* The rebase runs to its end.
RebaseSucceeds ==
  /\ rewrite.at = "rebasing"
  /\ Rebase(rewrite.repo, rewrite.base, rewrite.todo)
  /\ rewrite' = Over
  /\ UNCHANGED <<commits, others, exposed>>

\* It stops at a conflict, or git refuses it: a rebase is in progress, or there
\* are changes.  It will be aborted, whosever it is.
RebaseFails ==
  /\ rewrite.at = "rebasing"
  /\ RebaseStops(rewrite.repo, rewrite.base, rewrite.todo) \/ UNCHANGED git
  /\ rewrite' = [at |-> "aborting", kind |-> rewrite.kind, repo |-> rewrite.repo,
                 selected |-> rewrite.selected]
  /\ UNCHANGED <<commits, others, exposed>>

\* git rebase --abort, whose failure is ignored.  What is neither committed nor in
\* the history that comes back is gone.
AbortReturns ==
  /\ rewrite.at = "aborting"
  /\ \/ /\ RebaseAbort(rewrite.repo)
        /\ Expose(rewrite.repo, (changed[rewrite.repo] \cup Held(log[rewrite.repo]))
                                  \ Held(before[rewrite.repo]))
     \/ UNCHANGED <<git, exposed>>
  /\ rewrite' = Over
  /\ UNCHANGED <<commits, others>>

\* Somebody else uses the repository.  What is committed after the history was read
\* is not in the todo list.
OthersAct(r) ==
  /\ others < MaxOthers /\ others' = others + 1
  /\ Others(r)
  /\ IF rewrite.at = "rebasing" /\ rewrite.repo = r /\ log'[r] # log[r]
       THEN Expose(r, UNION (Range(log'[r]) \ Range(log[r])))
       ELSE UNCHANGED exposed
  /\ UNCHANGED <<commits, rewrite>>

RewriteNext ==
  \/ \E r \in Repo :
       \/ HistoryIsShown(r) \/ OthersAct(r)
       \/ \E S \in SUBSET Commits(commits[r]) : BeginSquash(r, S) \/ BeginReorder(r, S)
  \/ HistoryIsRead \/ ReadingFails
  \/ RebaseSucceeds \/ RebaseFails \/ AbortReturns

RewriteSpec == RewriteInit /\ [][RewriteNext]_<<git, rewriteVars>>

-----------------------------------------------------------------------------

\* Whatever interleaves with a rewriting, and however it fails, a change that was
\* made and not discarded is in the working tree, in the history or in the one
\* that an abort would bring back, unless it was exposed: committed between the
\* reading and the rebase, in the way of an abort, or selected for a reorder with
\* commits that HEAD does not have any more.
OnlyExposedIsLost ==
  \A r \in Repo : made[r] \subseteq Kept(r) \cup discarded \cup exposed[r]

\* A rewriting that succeeds on the history it has read does what the sheet says:
\* a reorder puts the selected commits in the wanted order and leaves the others
\* where they are, a squash of commits in a row makes one of them and leaves the
\* others as they are, in their order.
RewritingIsAsAsked ==
  [][ \A r \in Repo :
        RebaseSucceeds /\ rewrite.repo = r /\ log[r] = rewrite.from
          /\ Range(rewrite.selected) \subseteq Commits(log[r])
        => LET wanted == {Last(c) : c \in Range(rewrite.selected)} IN
           IF rewrite.kind = "reorder"
             THEN /\ Len(log'[r]) = Len(log[r])
                  /\ \A i \in DOMAIN log[r] : log[r][i] \notin wanted => log'[r][i] = log[r][i]
                  /\ SelectSeq(log'[r], LAMBDA S : S \in wanted)
                       = Reverse([i \in DOMAIN rewrite.selected |-> Last(rewrite.selected[i])])
             ELSE LET first == Len(Last(rewrite.selected)) IN
                  Len(Head(rewrite.selected)) - first + 1 = Len(rewrite.selected) =>
                    log'[r] = SubSeq(log[r], 1, first - 1) \o <<UNION wanted>>
                                \o SubSeq(log[r], Len(Head(rewrite.selected)) + 1, Len(log[r]))
    ]_<<git, rewriteVars>>

\* A reorder that reports success keeps every change of the history it has read:
\* "the rebase completes successfully and commits appear in the new order"
\* (docs/test_cases.md:651).  It does not when the list on the screen was old.
ReorderKeepsCommits ==
  [][ \A r \in Repo :
        RebaseSucceeds /\ rewrite.repo = r /\ rewrite.kind = "reorder" /\ log[r] = rewrite.from
        => Held(log[r]) \subseteq Held(log'[r]) ]_<<git, rewriteVars>>
=============================================================================
