# GimMac: models, checks and proofs

GimMac is a git client for macOS, written in Swift on AppKit. It has no git of
its own: everything it shows and does is a `git` process that it starts, waits
for, and sometimes has to stop. This directory holds TLA+ models of the parts of
it where that is hard, what TLC checks of them on small instances, and what
TLAPS proves of them for every instance.

Paths below are relative to `src/Sources/GimMac` unless they begin with `src/`.

## 1. The system

### Layers

| Layer | Directory | What it holds |
|---|---|---|
| Infrastructure | `Infrastructure/Git/Process` | the scheduler, the client and the runner of git processes |
| | `Infrastructure/Git/{Operations,Readers,Parsing,Errors}` | one type per group of git commands: arguments in, records out |
| | `Infrastructure/Persistence` | CoreData for the saved repositories, UserDefaults for settings, the reader of a screen |
| | `Infrastructure/{Logging,Platform,Templates,Vendored}` | log file, AppKit calls, templates, a vendored diff parser |
| Application | `Application/{Models,Ports,Services}` | records, protocols, the creation of a repository |
| Presentation | `Presentation/Shell/RepositoryStore` | `RepositoryStoreViewModel`, the state of the main window, on the main actor |
| | `Presentation/Features` | handlers and view models of the panels, views |
| App | `App` | dependency container, menu, app delegate |

A click calls a method of the store or of a panel's view model. The method looks
at its flags, sets some, and awaits a port; the port runs one or more git
commands through `ProcessGitClient.run`; this waits for a permit of the
scheduler, runs the process against a timeout, and gives the permit back. When
the answer is there, the method continues on the main actor, where other methods
have run meanwhile, and must find out whether the answer is still of use.

### Components

| Component | State | Operations | What is hard | What makes it correct |
|---|---|---|---|---|
| Scheduler (`GitCommandScheduler`, an actor) | two counters, one array of waiters | `acquire`, `release`, `cancelWaiter`, the loop `resumeEligibleWaiters` | cancellation tasks that come late, releases by detached tasks, priorities over one array | counters that are true, limits, no idle slot, order, no starvation |
| Client and runner (`ProcessGitClient`, `ProcessGitCommandRunner`) | one task group per command, the dictionary of processes | `run`, `execute`, `cancel`, `cancelAll` | three callers of `cancel`, a timeout that races the end, a process registered before it runs, an actor given up at each grace period | nothing runs without a permit or outlives its run, the outcome is true, every command ends |
| Store: selection and screen (`RepositoryStoreViewModel`, `+Repository`, `+History`, `+RepositoryManagement`) | selected repository, two generations, the fields of the screen, `isLoading`, the secondary task | select, refresh, page, remove, clone | every `await` lets every other method run | the screen is of the selected repository, does not go back, is complete in the end |
| Store: operations (`+Sync`, `+Commit`, `+Discard`, `+Stash`, `+Conflicts`, `+Ignore`, `+History`) | one flag per kind of operation | about twenty operations | flags shared by operations and reset by a selection | mutations exclude each other, a flag is always cleared |
| Commit form and changed files (`CommitFormHandler`, `ChangedFilesHandler`, `+Commit`, `GitCommitProvider`) | checked paths, form, amend mode, outcome and its timer | check, commit, amend, undo | a reset after 650 ms, staging one path after the other, undo without a flag | what is checked is what is committed |
| Diff handler (`DiffHandler`) | request number, cache, spinner | load the diff of a file | loads overtake each other and fill a cache | the diff is of the selected file, and fresh; a wanted load has its spinner |
| History handler (`HistoryHandler`, `+History`) | selection, anchor, files, diff | load the files and a diff of a commit | a click cancels, a refresh loads again, the user selects a file meanwhile | files and diff are of the anchor |
| Branches panel (`BranchesViewModel`, `BranchToolbarButton`) | list, generation, `isLoading`, stash guard, pending branch | load, switch, rename, create, delete, update | the repository and the tip change under a call | no list, guard or mark of another repository |
| Stash panel and sheet (`+Stash`, `StashManagementViewModel`) | the newest stash; a list and an action | restore, discard, push; apply, pop, drop | stashes are named by their position | what is dropped is what was shown |
| Conflict sheet (`+Conflicts`, three services) | conflicts, their count, one flag, an outcome | resolve, continue, abort | the sheet is closed by a timer, calls outlive it, a rebase stops again | the list is what is unmerged; it continues exactly then when nothing is |
| Rewriting of history (`GitSquashProvider`, `GitReorderProvider`, `+History`) | none of its own, a todo list | squash, reorder | three git commands without a lock; a list on the screen that is old | the commits that result are the ones that were asked for, and nothing is lost |
| Branch dialogs | none | ask, and call the panel | no more than the panel | forwarding |
| Repository creation | none | init, template, first commit | a step fails in the middle | what is left is usable or removed |
| Status parser, readers, operations | none | text to records, records to arguments | text | conversion only |
| Persistence, settings, logger, platform, views | rows, keys, a file | save, list, remove; append | little: one at a time | storage |

Every component, with its sources and with the reason why it is not modelled if
it is not, is in `PROJECT.json` under `components`. What is hard to test is
listed there under `hazards`, each at its line.

## 2. The modules

| Module | Models | Used by |
|---|---|---|
| `CommandAdmission` | abstract: what the scheduler promises, a queue per priority | the refinement in `GitCommandScheduler`, `GitCommandScheduler_proofs` |
| `GitCommandScheduler` | the actor, and a command as the actor sees it | `MCGitCommandScheduler`, `GitCommandScheduler_proofs` |
| `GitCommandClient` | a command between client and runner, and the sweep at quit | `MCGitCommandClient`, `GitCommandClient_proofs` |
| `RepositorySelection` | selecting, refreshing, paging, forgetting, cloning | `MCRepositorySelection`, `RepositorySelection_proofs` |
| `RepositoryOperations` | the operations that run git, and their flags | `MCRepositoryOperations`, `RepositoryOperations_proofs` |
| `Repositories` | the repositories and `None` | all that follow |
| `Window` | the repository that is selected | the panels |
| `GitRepository` | external: a repository with a linear branch, index and rebase | `CommitFlow`, `HistoryRewriting` |
| `CommitFlow` | the form, the checked paths, commit, amend, undo, the outcome | `MCPanels`, `CommitFlow_proofs` |
| `DiffPanel` | the diff of a changed file | `MCPanels`, `DiffPanels_proofs` |
| `HistoryPanel` | the files and the diff of the commit that was clicked | `MCPanels`, `DiffPanels_proofs` |
| `StashPanels` | the stash panel and the sheet of all stashes | `MCPanels`, `GitPanels_proofs` |
| `BranchesPanel` | the list of branches and what is done to them | `MCPanels`, `GitPanels_proofs` |
| `ConflictSheet` | the sheet that resolves, continues and aborts | `MCPanels`, `GitPanels_proofs` |
| `MainWindow` | all panels together, and what a selection does to them | `MCPanels`, `GitPanels_proofs` |
| `HistoryRewriting` | squash and reorder | `MCHistoryRewriting`, `HistoryRewriting_proofs` |

The MC modules only give the constants values and symmetries. Operators named
`X_Something` under the comment "Faulty variant" are not part of the models: they
are `X` with a plausible bug in it, and show that the property they are listed
with in `PROJECT.json` (`mutants`) is broken by such a bug.

### GitCommandScheduler

A member of `Command` is a command that is alive; when nothing of it is left it
may stand for a new one, so that a finite set makes endless histories.
`runningTotal`, `runningByPriority` and `waiters` are the fields of the actor. An
action is a handler of the actor, with one exception: the loop of
`resumeEligibleWaiters` resumes tasks that run on other threads at once, so each
round is an action, and `resuming` keeps the actor busy between rounds. `phase`
is where a caller is, `cancelTasks` the tasks that `onCancel` has spawned and that
have not reached the actor.

`CommandAdmission` says the same without the books: for each priority who is inside and
who waits, and for each who waits who is ahead of it. Whoever has nobody ahead in the
best queue that can be served is next. The refinement mapping takes the queues and who
is ahead out of the order of the array, and who is inside out of the phases.

### GitCommandClient

`cmd[c]` is a record with the state of one call: where the caller is (`call`),
its permit, the two children of the task group (`child`, which runs the process,
and `watcher`, which sleeps until the timeout), the first result of the group,
the process (`manner`, `signals`, `exit`), and the three places that call
`cancel(id)`. `inFlight` is the dictionary of the runner. The scheduler appears by
its contract: a permit comes, or the wait ends with `CancellationError`.

`manner` is chosen when the process starts: it ends by itself, on SIGTERM, or only
on SIGKILL. There is no time: the timeout may fire and a grace period may end at
any moment after they began.

### RepositorySelection

The view model is on the main actor; an action is what runs from one `await` to
the next. Two generation counters name the calls, as in the code. What the screen
shows is abstracted to *stamps*: the repository a value was read from, and a
version of it that grows when its checkout changes. A read returns some version
between its call and its return. The fields of the screen that are assigned
together are one field.

### RepositoryOperations

Operations of the same flags and guards are one `kind`. An operation looks at its
guards and sets its flags in one step (no `await` in between), runs git, reloads
the screen, and clears its flags in a `defer`. `Switch` is `selectRepository` with
the reset of `resetPerRepositoryState`; selecting the repository that is shown
already does nothing unless its inspection failed.

### The panels

Each panel has a module of its own. All of them extend `Window`, the repository that
is selected, which a panel only reads; nothing else connects them but git. `MainWindow`
joins them: a selection, or the removal of the selected repository, resets all panels in
one step, `resetPerRepositoryState`; all other steps are one panel's, and they interleave.
That a panel in the window does nothing that it does not do alone is proved
(`WindowIsItsPanels`), and so what is checked and proved of the panels one by one holds of
the window. TLC takes them one by one: a behaviour of `MCPanels` exercises the panel that
it was begun with (`panel`). What one panel has git do is, to the part of the repository
that another one shows, what somebody else does there.

In all of them an action is what runs on the main actor between two awaits; a call
that waits is a record that says for what. Git's part of a call is the step in which
it returns. A step of git that fails may have done its work: it is killed late, or a
hook fails. Somebody with an editor or a terminal changes the repository at any
moment.

Some facts are about how a state came about and cannot be seen in it. They are kept
in *history variables*, which nothing the app does depends on (a change or a stash is
made only once, and that is asked of them): `requested` (how new the file was when
its diff was asked for), `missing` (why the files of a commit may be absent),
`disturbed` (whether somebody else moved the stashes), `mistaken` (what was dropped
instead of what was chosen), `strayed` (why a list of conflicts may be old), `made`,
`discarded` and `exposed` (what git's changes have gone through).

- `CommitFlow`. `committing` is the one call of `commitChanges` and its place:
  staging (`left` are the paths that `git add` was not run for), committing, the 650
  ms of grace, the refresh. `undoing` counts the calls of `undoCommit`, which has no
  flag. A reset task whose sleep is over cannot be cancelled (`lateReset`). No view
  calls `toggleAmendMode`; it is modelled because it is there.
- `DiffPanel`. `diffLoads` are the calls of `loadDiff` that wait, each with its
  request, key and cancellation. A document is the file and the edit it shows.
- `HistoryPanel`. A task loads the files of a commit (`at = "files"`) and then a diff
  (`at = "diff"`), or only a diff (`isLoad = FALSE`). Cancelled tasks stay until they
  notice.
- `StashPanels`. `panelOps` are the operations of the panel, `sheet` is the sheet with
  the action that it waits for, `leftOver` those of sheets that were closed.
- `BranchesPanel`. A call has a target, repository and generation, as in the code.
  What a list holds is kept as the number of changes before it was read. Tasks of
  the main actor come in order, so that of two lists that are back the first is
  shown first.
- `ConflictSheet`. `conflictCalls` are its calls; one flag,
  `isConflictActionInProgress`, is shared by them, and cleared by a switch. A load is
  for the repository that is selected when it begins. A cherry-pick is a rebase here.

### GitRepository and HistoryRewriting

A change is the edit of one file, a commit a set of changes, and a commit is named by
the history that ends in it, as a sha names everything before it. `Rebase` applies a
todo list of picks and squashes: a line that is picked keeps what is `Fresh` in it, what
neither the base nor a line before it holds, and `Stack` makes a commit of each pick with
the squashes that follow. Both are functions of positions (`Rank` counts them), without
folds or recursion, so that they can be proved about. `Others` is all that anybody may ask of git but the
rebase that is followed. `HistoryRewriting` follows one squash or reorder: `reading`
the history, `rebasing` with the todo list that was made of it, `aborting` what has
failed; `OthersAct` comes between any two of these. The todo lists, `SquashTodo` and
`ReorderTodo`, are functions of the selection and the history. `CommitFlow` does to git
nothing but steps of `Others` (`CommitsActAsOthers`, proved), so what is checked of a
rewriting holds while the user commits and undoes as well.

### What the models leave out

- Arguments, output, wording of errors, logging. `errorMessage` and the messages
  of outcomes are not in the models.
- `run` and `runReturningData` have the same control, and so have `execute` and
  `executeData`: one command stands for either.
- A snapshot of the screen is one read, although it is several git commands: what
  is shown of one snapshot has one version.
- The live secondary snapshot does not throw; each of its commands falls back to a
  default. When its task is cancelled the model lets all of it fall back or none.
- The list of saved repositories is the store of them (`saved`), and its order is
  not kept: which one is promoted after a removal is a choice.
- The dialog that asks before a removal is not there; the removal begins with its
  confirmation.
- `RepositoryOperations` has no generation and no screen, and
  `RepositorySelection` no operations: a refresh after an operation is the action
  `Refresh`. In the panels a refresh that somebody else has caused is an action that
  may come at any time.
- Of the commit form only whether the summary is blank, of a file its path and edit, of
  a branch its name. Co-authors, sign-off, filters, submodules, renames, the messages
  and the outcomes but that of the commit and of the conflict sheet are left out.
- A stash that comes back while a commit stages its files: in `GitRepository` a change is
  made once, and one that goes away by a stash and comes back is not among `Others`.
- The spinner of a commit's diff.
- The sides that a conflict is resolved with, the merge tool, and how a merge or a
  rebase is begun: somebody begins one.
- Merge commits: a branch is linear. Revert, reset and cherry-pick of a commit.

## 3. What is checked

| Run | Instance | Distinct states | Shows |
|---|---|---|---|
| `scheduler` | 4 commands, one of them cancellable; 2 permits, 1 per priority | 38,836 | counters, limits, queue, order; implements `CommandAdmission`; who is starved and who is not |
| `client_one` | 1 command, every manner of ending, cancellation, quit | 13,197 | permits cover processes, nothing outlives its run, outcomes are true, the sweep reaches what ran, commands end |
| `client_lost_cancel` | 1 command, nobody quits | violation | a cancellation can be lost |
| `client_timeout` | 1 command, nobody cancels or quits | violation | a timeout can be reported as a failure |
| `selection` | 2 repositories; either 2 selections, 1 refresh and a change of each repository, or 2 selections with a removal, a clone and pages | 964,081 | the screen is of the selected repository, never goes back, is complete when all calls are back; a forgotten repository leaves nothing behind |
| `selection_stale` | the same | violation | a stash, a page of commits or a branch that is not of the selection, or not of the refresh |
| `operations_safety` | 3 operations under way, 2 repositories, all 8 kinds | 35,986 | flags have owners, restores, commits and mutations exclude each other |
| `operations_switch` | the same | violation | not after a selection |
| `panels` | 6 panels, one at a time; 2 repositories; bounds below | 1,080,493 | each panel shows what is selected, and what it does is what it showed |
| `panels_stale` | the same | violation | five exceptions, see below |
| `history` | 3 commits and one change more; 1 squash or reorder, 5 steps of others | 305,221 | what is asked for is what happens; what can be lost |
| `history_reorder` | the same | violation | a reorder of an old list drops a commit |

### Properties

Of the scheduler: `Accounting` compares the actor's counters with the permits that
are really out, so that the clamps `max(0, ...)` in `release` cannot hide a double
release; `LimitsKept` counts the permits themselves. `EachCallerQueuedOnce` is what
`CheckedContinuation` traps on. `NoIdleSlot` is what makes it right that `acquire`
starts a command without a look at the array. `ServedInOrder` is an action
property, `ImplementsAdmission` the refinement. `InteractiveAndVisibleServed` holds
because the limit of `userInteractive` (2) is below the total (3): it can never
take every slot. `BackgroundStarvedOnlyByQueue` is all that can be promised to a
background command: from some moment on, better commands are always again waiting.

Of the client: `PermitCoversProcess` makes the limits of the scheduler limits on
processes. `NothingOutlivesRun` and `OutcomeIsTrue` are about the races of the task
group. `EveryCommandEnds` has an exception, `OutOfReach`: a process that runs,
that nobody has signalled and that nobody will. `client_lost_cancel` shows that it
is needed. `SweepReachesRunning` is about an actor that is reentrant at each grace
period.

Of the selection: `ScreenIsOfSelected`, `RefreshNeverGoesBack` and `QuietMeansLoaded`
are three sides of the generation counters: they must not let a late answer in, for
another repository or for this one, and must not keep every answer out either.
`SpinnerHasOwner` is about `isLoading`, which selections and clones share. It is
restricted to a selected repository: a removal that overtakes a selection leaves
the spinner on with nothing selected, until the next selection.

Of the operations: `BusyHasOwner` (a button is never disabled for good),
`ExclusiveOperations`, and `MutationsAreSerialized`, which holds until a repository
is selected.

Of the panels, `PanelTypeOK` joins their type invariants, and the others are about what
a late answer can do.

- `WholeSelection`: while the paths are staged one after the other, others stage, undo,
  discard, commit and rebase, and the repository is switched; when `git commit` runs,
  every checked path that is still a change is staged. That is the "do not commit a
  partial selection" of `GitCommitProvider.swift:53`.
- `DiffIsOfSelection`, `DiffIsFresh`, `SpinnerShowsLoad`: request number, path, key and
  cancellation together keep every late load out, the cache does not survive an
  edit, and a superseded load does not take the spinner of the next.
- `CommitDiffIsOfSelection`, `FilesFollowAnchor`: the same of the history, where the code
  asks for the commit and not for the load. That leaves one hole, which is why
  `FilesFollowAnchor` asks for `missing = "never"`.
- `SheetIsInStep`: the positions by which the sheet names stashes are those of the
  stack, action after action, as long as nobody else moves them.
- `GuardIsOfRepository`, `PendingHasCall`, `ListNeverGoesBack`: the answer to the stash
  guard is about the repository that is shown, no branch is marked for ever, and no list
  is replaced by an older one.
- `ListFollowsGit`, `ContinueMeansResolved`: the list of conflicts is what is unmerged, and
  the button that continues is there only when nothing is, also while a rebase goes on
  to its next stop. Both except what `strayed` records.

Of the rewriting: `OnlyExposedIsLost` says that whatever interleaves and fails, every
change that was made and not discarded is in the working tree, in the history, or in
the history that an abort brings back, but for three kinds of it: what others commit
between the reading and the rebase, what is in the way of an abort, and what a reorder
of an old list drops. `RewritingIsAsAsked` compares the todo lists with what the sheets
say, as functions of history and result that do not mention a todo list.

### Where the code and what is said of it differ

Each is a run that TLC ends with a counterexample; the quotations and lines are in
`PROJECT.json` under `findings`.

1. `client_lost_cancel`. `execute` registers a process and then queues the work that
   runs it. A `cancel(id)` in between finds a process that is not running and
   returns; nobody calls it again. The task group then waits for the process.
   The comment of the type says that it tracks processes so that cancellation can
   terminate them.
2. `client_timeout`. The watcher of the timeout waits for `runner.cancel`, which lasts
   until the end of the grace period, before it throws `.timeout`. By then the
   process it has terminated has made the other child fail, and the group reports
   that. A test of the client expects `.timeout`.
3. `selection_stale`. The property has three conjuncts, and each is violated.
   `stashEntry` is assigned before the question whether the refresh is still current. A
   page of history is appended without that question. A refresh reads files and
   commits, and keeps the branch that was inspected when the repository was selected.
4. `operations_switch`. `resetPerRepositoryState` clears the flag that serializes
   mutations while a mutation runs; after a selection of another repository and
   back, a second one runs on the same working tree.
5. `history_reorder`. A reorder takes the commits from the screen and the positions from
   HEAD. When HEAD has fewer of them by now, the last one in the queue is dropped, with
   its changes, and success is reported.
6. `panels_stale`. Five conjuncts, each violated:
   `FilesAreOfAnchor`, since the `defer` of `loadFiles` asks for the commit and not for
   the load, so that of two loads of one commit the first makes the second drop its files;
   `ChosenStashIsDropped`, since a stash is dropped by its position;
   `ListIsOfRepository`, since a change of the tip cancels the load of the branches and
   starts no other;
   `ListIsLive`, since `loadConflicts` assigns what it gets whenever it comes;
   `ResumeIsPossible`, since a sheet that is opened when everything is resolved counts no
   conflicts, and the count enables the button.

A run stops at the first conjunct that is violated; each of the others was checked alone,
with the configuration of the run.

3 is measured against the expectation of `src/docs/queue/bugs.md:303`, 4 against the
comment of the flag, 5 against `src/docs/test_cases.md:651`, the conjuncts of 6
against the comments and lines that are quoted in `MCPanels`.

### Bounds

- `scheduler`. The limits in the code are 3, and 2, 2, 1 by priority. The run has
  2 and 1, 1, 1, the least that keep what the code relies on: one priority cannot
  take every slot. Four commands are two that run and two that wait, so that order
  within and between priorities matters, and new ones keep arriving. The theorems
  hold for all limits and so for those of the code. The two liveness properties
  follow `c1`; there is no symmetry in this run, and the specification treats
  commands alike except that only `c2` is cancellable: `c1` is served although
  others are cancelled. A cancelled command stops waiting by that itself.
- `client_one`. Commands meet only in the scheduler, in `inFlight`, and in the
  sweep; each key of `inFlight` is used by one command. So one command shows
  everything but the sweep.
- `client_one`, of the sweep. That the sweep, which yields the actor at every grace
  period, reaches a second process too was checked with two commands that end by
  themselves (1,206,820 states), and is proved for any number.
- `selection`, `selection_stale`. Two repositories are "this one" and "the other one"; a
  repository can be selected twice only with the other one or a failure in between. With
  `MaxManual = 1` three refreshes may overlap, `MaxVersion = 1` tells older from newer.
  Generations are bounded by `MaxSelections` and `MaxManual`, which is what makes the
  states finite; at the bound no further call begins. `Managing` divides the behaviours:
  in those with a removal, a clone and pages nothing changes on disk.
- `operations_*`. Two operations conflict, the third is there because a `defer` can
  clear the flag of one under another and let a third begin.

- `panels`. `Path`, `File` and `Stash` are the same two values. Two changes are one that is
  staged and one that is not; two files, and two stashes, are the chosen one and
  another. `MaxRequests = 4` and `MaxEdits = 1` let three loads of a diff overlap, with
  the file edited between two of them. The histories are empty, of two commits and of
  three, `<<2, 1>>` and `<<3, 2, 1>>`, so that a refresh adds the newest and takes it away;
  the three commits have one, two and no files; `MaxTasks = 2` are a load and the one it
  supersedes. `MaxCalls = 1` is one call of the stash panel and the sheets at a time;
  with 2 of them, the bound of `panels_stale`, the first five panels had 1,605,569 states
  without an error. `MaxGenerations = 3` points the branches panel at three
  repositories one after the other, or twice at one, `MaxBranchCalls = 2` are a call and
  the one it races, and one branch is enough, since what a list shows is its number of
  changes, `MaxChanges = 1`: old and new. One file conflicts (with two, all of the
  conflict sheet has 2,783,031 states and no error), `MaxStops = 2` is a rebase
  that stops again, or two operations, `MaxConflictCalls = 2` a call and the one that
  races it. `MaxUndos = 1` is one undo in each repository.
- `history`. Three commits are two that are selected and one that is before, between or
  after them, or all three. One rewriting is followed; another one is to it a rebase
  that others do. `MaxOthers = 5` is enough for others to make a change, stage and commit
  it and undo or rebase as well, at any points of the rewriting.

`CHECK_DEADLOCK FALSE` is in the runs of the client (all commands are over, or a
process is out of reach and nobody is left) and in those of the selection, of the panels
and of the rewriting (bounded calls, and one rewriting).
The scheduler and the operations go on for ever and are checked for deadlock.

### Fairness

- Scheduler. `WF(Loop)`: the loop does not suspend. `WF` on a caller that has its
  permit and on its command: resumed tasks run, commands end by themselves or by
  their timeout. `SF(Release)` and `SF` on cancellation tasks: a job that was handed
  to an actor gets its turn, although the actor is busy again and again, because
  the actor takes its jobs from a queue. Nothing makes a caller issue or cancel.
- Client. `WF` on every step that the runtime takes (tasks, jobs of the actor, the
  end of a sleep) and on the end of a process that its manner allows. Not on
  starting, cancelling and quitting. `WF(DrainPipes)` assumes that the pipes of a
  dead process come to their end; a descendant of git that inherited them could
  hold them open.
- Selection, operations, panels and rewriting have only safety properties and no
  fairness. What must be there in the end is said of the states in which nothing is
  under way any more: `QuietMeansLoaded`, `DiffIsOfSelection`, `FilesFollowAnchor`,
  `ListFollowsGit`. That those come is no more than that every git command ends, which
  `client_one` checks.

## 4. What is proved

tlapm checks all of this, for every value of the constants that satisfies the named
assumptions of the modules.

| Theorem | Module | Says |
|---|---|---|
| `TypeCorrect`, `CountersAreAccurate`, `ProcessesAreBounded`, `CallersAreQueuedOnce`, `NoSlotIsIdle`, `ServiceIsInOrder` | `GitCommandScheduler_proofs` | all safety properties of the run `scheduler` |
| `AdmissionIsImplemented` | `GitCommandScheduler_proofs` | the scheduler implements `CommandAdmission` (`ImplementsAdmission`) |
| `TypeCorrect`, `ProcessesHavePermits`, `RunLeavesNothing`, `RunTellsTheTruth`, `SweepIsComplete` | `GitCommandClient_proofs` | all safety properties of `client_one` |
| `TypeCorrect`, `ScreenNeverMixes`, `SpinnerIsOwned`, `QuietIsLoaded`, `NeverGoesBack` | `RepositorySelection_proofs` | all properties of `selection` |
| `TypeCorrect`, `FlagsHaveOwners`, `ExclusionHolds`, `MutationsSerialized` | `RepositoryOperations_proofs` | all properties of `operations_safety` |
| `TypeCorrect`, `NoPartialCommit`, `OutcomesAreCleared`, `CommitsActAsOthers` | `CommitFlow_proofs` | `CommitTypeOK`, `WholeSelection`, that an outcome has a task that clears it, and that committing and undoing are steps of `Others` |
| `DiffTypeCorrect`, `DiffFollowsSelection`, `CacheIsFresh`, `SpinnerIsKept` | `DiffPanels_proofs` | `DiffTypeOK` and the three properties of the diff in `panels` |
| `HistoryTypeCorrect`, `CommitDiffFollowsSelection`, `FilesAreThoseOfAnchor` | `DiffPanels_proofs` | `HistoryTypeOK` and the two properties of the history in `panels` |
| `BranchesTypeCorrect`, `GuardAsksForShown`, `MarksAreTakenBack`, `ListsGoForward` | `GitPanels_proofs` | `BranchesTypeOK` and the three properties of the branches in `panels` |
| `WindowIsItsPanels`, `PanelsTypeCorrect`, `PanelsKeepPromises` | `GitPanels_proofs` | `MainWindow` behaves for each panel as the panel's specification says; `PanelTypeOK`, and the properties of the panels, all together |
| `StashTypeCorrect`, `SheetStaysInStep` | `GitPanels_proofs` | `StashTypeOK` and the property of the stash sheet in `panels` |
| `ConflictTypeCorrect`, `ListIsThatOfGit`, `ContinueIsForResolved` | `GitPanels_proofs` | `ConflictTypeOK` and the two properties of the conflict sheet in `panels` |
| `TypeCorrect`, `NothingElseIsLost` | `HistoryRewriting_proofs` | `RewriteTypeOK` and `OnlyExposedIsLost` of `history` |

Each inductive invariant was also checked by TLC, on the instance of its run: it is true of
what can be reached, and not only preserved.

**Scheduler.** Assumed: `Command` is finite (`Accounting` counts subsets of it), only
commands are cancellable, and all limits are positive numbers. The limits are not
inductive on their own: that a start keeps them needs the counters to be the
permits. So `IInv` joins the type invariant, the counters within the limits,
`Accounting`, `EachCallerQueuedOnce` (a permit is given to a caller that has none,
because whoever is in the array waits) and `NoIdleSlot` (an immediate start leaves no
waiter that could start). Lemmas say what taking, returning and keeping permits does
to the counts, and what removing a place of the array does to the waiters.
`ServiceIsInOrder` is an action property that follows from `IInv` and the next step:
a permit from the array goes to the best eligible place, and one that is given at
once relies on `NoIdleSlot`. The refinement is proved action by action under `IInv`: an
immediate acquire is `Enter`, a queued one `Join`, a resumption admits the first of the
best queue, a cancelled waiter leaves its queue, and handing back a permit leaves the
inside; the other actions are stutters. `EachCallerQueuedOnce` makes "who is ahead" a
function of the caller, and the counters, by `Accounting`, the cardinalities that
`CommandAdmission` limits.

**Client.** Assumed: what `Manner` may contain, and that only commands are
cancellable; `Command` may be infinite. `PermitCoversProcess` is not inductive: that a
permit goes only when the child is over needs to know where the caller is. `IInv` has
`Phases` (what exists of a command before, in and after its group), `Results` (where
the first result and the outcome come from) and `Swept` (a process of the beginning
that still runs is yet to come to, or killed). A step of one command leaves `Phases`
and `Results` of the others (`OthersKeep`), and the sweep is disturbed only by
what `StepOf` allows, so that each action is a question about one record.

**Selection.** Assumed: `None` is no repository, and the bounds are numbers; repositories
may be any set. `ScreenIsOfSelected` is not inductive: a late answer is kept out by its
generation, so one has to know whose the current generation is. `IInv` has `CallsHaveBegun`
(exactly the generations that were drawn have a call), `AwaitedOnce` (a selection awaits at
most one refresh, and waits where that resumes it), `CarriesItsOwn` (what a call has read
is of its repository), `ScreenIsLoaded` (the current selection is of the selected
repository, and from its refresh on the newest refresh is too, with what it has read on
the screen), and, for `RefreshNeverGoesBack`, `NothingFromTheFuture` and `NewestReadsLater`
(the newest refresh began its read after all that is shown of its repository was read).
`QuietMeansLoaded` is `ScreenIsLoaded` of a state in which the newest refresh is over.

**Operations.** Nothing is assumed; repositories and operations may be any sets.
`ExclusiveOperations` needs that the flag of an operation is still set while it is
under way. That holds of the flags that only guarded operations set and that no
selection clears (`stash`, `committing`) always, and of `workingTree` until a
selection: these are the last two conjuncts of `IInv`.

**Commit.** Assumed: the bound of the undos is a natural number; repositories and changes
may be any sets. That what is staged stays staged is not true of git in general: a
change that was unmade and is made again would be unstaged. `IInv` has `MadeThere`
(what is found in a repository was made there, and a change is made once) and `CallOK`
(what was staged, if still a change, is in the index, as long as no path has failed).
`GitStep` is what every command of git, and everything that others do, keeps of that, so
that an action of the app is proved once for all of them.

**Branches.** Assumed: `None` is no branch, and the bounds are numbers. `GuardIsOfRepository`
and `PendingHasCall` are inductive beside the types; `ListNeverGoesBack` is not. A late list
of another repository is kept out by its target, but one of the same target may be
shown, and must not be older: `ListsAreInOrder` says that at most one list waits for its
turn, and that it is not older than what is shown.

**Stashes.** Assumed: `None` is no stash, and the bound is a number. `SheetIsInStep` speaks of a sheet that
waits for the user; to be inductive it has to hold while an action is under way too, since
the action moves the stack when it returns: `SheetIsCurrent`. The types say that no stack
holds a stash twice, which taking a stash off and putting one on keep.

**Conflicts.** Assumed: the files are finitely many (they are counted) and `None` is none of
them, and the bounds are numbers. The list follows git because somebody will
load it whenever it does not: `ListIsAwaited` says that, unless something strayed, the list
is what is unmerged, or a button's call is yet to load it, or the sheet was not loaded yet
and will be if it is open (`IsUnloaded`). That a call goes on to load needs that there is
only one and that it is of the selected repository (`OneAction`), and that the flag has an
owner (`CallsOK`). `ContinueMeansResolved` follows: the button needs the flag to be clear and
the list, once loaded, to be empty.

**Diff.** Assumed: the bounds are numbers. The three properties need to know which load
is still wanted: `LoadsOK` says that loads are known by their requests, and that the one
which passes the test of the code is of the selected repository and as new as the
file was when it was requested. `CacheOK` says that the cache is of the selected
repository, and that a document in it is of its key and not older.

**History.** Assumed: `None` is no commit and no file, a history holds a commit once and a
commit a file once, no commits are a history, and the bound is a number. As `HistoryHandler` asks an answer for its
commit and not for its load, `IInv` has to find the task that may end the load of the
anchor: `LoadsAnchor(t)` says that no other task loads the same commit, and
`FilesAreAwaited` that there is such a task unless `missing` says why not. `DiffIsAwaited`
says that a diff that is shown is the selected one, or a task that was not cancelled is yet
to show that. `AnchorIsLoading` ties the commit that loads to the anchor.

**Window.** `WindowIsItsPanels` is a refinement without a mapping: every step of
`MainWindow` is, of the variables of each panel, a step of that panel or a stutter
(`WindowSteps`). All that is proved of the panels follows for the window.

**Rewriting.** Assumed: `None` is no history, the initial histories are histories, and the
bound is a number; repositories, changes and histories may be any. `OnlyExposedIsLost` is
inductive only with what the todo list has to do with HEAD: `CallOK` says that, until the
rebase begins, what HEAD holds is in the base, in the list, or exposed (`Listed`). That the
lists cover the history they are made of is proved by counting positions: the commits that
base and history share are the oldest ones (`SquashTodo` begins behind them), and a reorder
writes as many lines of the queue as there are slots, all of the queue if HEAD has all that
was selected. `Apply` keeps what base and list hold, since each change that is in a line and
not in the base is fresh in the first line that holds it, and each line belongs to the last
pick before it. Every step of git then loses at most a set that is named (`LosesAtMost`).

Model-checked only:

- All liveness, which the prover does not reach, and with it everything about fairness:
  `EveryCommandEnds`, `InteractiveAndVisibleServed`, `BackgroundStarvedOnlyByQueue`.
- `RewritingIsAsAsked`. It compares whole histories by `SelectSeq`, which is defined by
  recursion, and what a recursive definition computes on every input takes induction over
  data, which the prover cannot do. The models themselves have no recursive operators.
- What fails: the six runs with a counterexample.

## 5. What is not modelled, and what may come next

Not modelled, each with its reason in `PROJECT.json`:

- Repository creation: one sequence of awaits in a directory that nobody else reads
  before it is done. A step that fails leaves a half-made repository, and nothing
  says what should be left.
- Branch dialogs, views, layout and menus: no state of their own that matters; their
  guards are in the notes of the hazards, or in the guards of the actions.
- The readers and operations of git, and the inspection of a repository: lists of
  arguments, and text into records.
- CoreData, UserDefaults, the log file: one read or write at a time.
- AppKit services, and vendored code: a diff parser, and under
  `src/github-desktop-codebase` the sources of GitHub Desktop (TypeScript), which are kept
  for reference and which nothing of GimMac builds, links or calls.

Hazards that no property covers have a note in `PROJECT.json`: a pipe that a descendant of
git holds open, a draft that is erased by the reset of the form, files that a refresh
checks again, a base among merges, and diffs that are cached across a commit.

Next:

1. The client composed with the scheduler: the contract that the client assumes, as a
   refinement, and that a command waits no longer than others hold permits.
2. `RewritingIsAsAsked` in a form without recursion, and as a theorem. It needs that a
   change is in one commit of a history at most, which is an invariant of git here.
3. `MainWindow` together with `RepositorySelection`: its switch as the step of a selection
   that resets, its refreshes as those whose generation is current.
4. Histories with merges, and the single commands of the history (revert, reset,
   cherry-pick).

## 6. Running

    tlc -config scheduler.cfg MCGitCommandScheduler
    tlapm GitCommandScheduler_proofs.tla

`PROJECT.json` names the module of each configuration, and maps every definition of
the models to the lines it stands for. The longest run, `panels`, takes three
minutes with two workers; the longest proofs, those of the selection, of the rewriting and
of the two modules of panels, a few minutes each.
