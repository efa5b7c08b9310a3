-------------------------- MODULE RepositorySelection --------------------------
(***************************************************************************)
(* Which repository the screen shows: the part of RepositoryStoreViewModel *)
(* (Presentation/Shell/RepositoryStore) that selects a repository, loads   *)
(* and refreshes its screen, pages its history, clones and forgets.        *)
(*                                                                         *)
(* The view model lives on the main actor.  A step is what runs there from *)
(* one await to the next; while a call awaits, every other one may run.    *)
(* Two generation counters decide whether a call that comes back still     *)
(* speaks for the screen.  They are also the names of the calls:           *)
(* selection[g] is the call of selectRepository that drew generation g,    *)
(* refresh[g] the refresh that drew g, with the secondary task it starts.  *)
(*                                                                         *)
(* What is on the screen is abstracted to stamps: the repository that a    *)
(* value was read from and the version of it, a number that grows whenever *)
(* its checkout changes.  A read sees some version between its call and    *)
(* its return.  Messages to the user (errorMessage) are left out.          *)
(***************************************************************************)
EXTENDS Naturals, FiniteSets

CONSTANTS Repo,           \* the repositories
          None,           \* no repository is selected
          MaxVersion,     \* bound: how often a checkout changes
          MaxSelections,  \* bound: calls of selectRepository that do something
          MaxManual,      \* bound: refreshes that belong to no selection
          Managing        \* bound: which behaviours there are, see managing

ASSUME SelectionAssumption ==
  /\ None \notin Repo
  /\ MaxVersion \in Nat /\ MaxSelections \in Nat /\ MaxManual \in Nat
  /\ Managing \subseteq BOOLEAN

VARIABLES version,     \* of each repository, on disk
          saved,       \* the repositories that are remembered
          selectedRepository,
          repositorySelectionGeneration,
          screenDataRefreshGeneration,
          isLoading,
          display,     \* what the screen shows, see Display
          selection,   \* the calls of selectRepository
          refresh,     \* the refreshes and their secondary tasks
          paging,      \* the call of loadMoreHistory, if isLoadingMoreHistory
          removal,     \* the call of removeSelectedRepository
          cloning,     \* the call of cloneRepository
          managing     \* bound: in this behaviour the user forgets and clones a
                       \* repository and pages histories, or else refreshes while
                       \* checkouts change

world   == <<version, saved, managing>>
target  == <<selectedRepository, repositorySelectionGeneration>>
vars == <<world, target, screenDataRefreshGeneration, isLoading, display,
          selection, refresh, paging, removal, cloning>>

SelectionId == 1 .. MaxSelections
RefreshId   == 1 .. (MaxSelections + MaxManual)
Version     == 0 .. MaxVersion
Stamp       == [repo : Repo, version : Version]

\* A field is the set of the reads that its value was made from.
Display ==
  [tip : SUBSET Stamp, inspection : SUBSET Stamp, files : SUBSET Stamp,
   commits : SUBSET Stamp,   \* one for each page
   action : SUBSET Stamp,    \* primaryAction, remoteName, forcePushNeeded, unpushedSHAs
   upstream : SUBSET Stamp,  \* the branch whose upstream decided about action
   stash : SUBSET Stamp,
   more : BOOLEAN]           \* canLoadMoreHistory

Blank == [tip |-> {}, inspection |-> {}, files |-> {}, commits |-> {}, action |-> {},
          upstream |-> {}, stash |-> {}, more |-> FALSE]

TypeOK ==
  /\ version \in [Repo -> Version]
  /\ saved \subseteq Repo
  /\ selectedRepository \in Repo \cup {None}
  /\ repositorySelectionGeneration \in {0} \cup SelectionId
  /\ screenDataRefreshGeneration \in {0} \cup RefreshId
  /\ isLoading \in BOOLEAN
  /\ display \in Display
  /\ selection \in [SelectionId ->
       [at : {"none", "inspecting", "saving", "refreshing", "listing", "over"},
        repo : Repo \cup {None}, since : Version]]
  /\ refresh \in [RefreshId ->
       [at : {"none", "critical", "diff", "secondary", "stash", "over", "failed"},
        repo : Repo \cup {None}, by : {0} \cup SelectionId, inspection : SUBSET Stamp,
        critical : SUBSET Stamp, since : Version, cancelled : BOOLEAN]]
  /\ paging \in [on : BOOLEAN, repo : Repo, since : Version] \cup {[on |-> FALSE]}
  /\ removal \in [at : {"none", "removing", "promoting", "over"}, repo : Repo \cup {None}]
  /\ cloning \in {"none", "running", "over"}
  /\ managing \in Managing

Init ==
  /\ version = [r \in Repo |-> 0]
  /\ saved = Repo
  /\ selectedRepository = None
  /\ repositorySelectionGeneration = 0
  /\ screenDataRefreshGeneration = 0
  /\ isLoading = FALSE
  /\ display = Blank
  /\ selection = [g \in SelectionId |-> [at |-> "none", repo |-> None, since |-> 0]]
  /\ refresh = [g \in RefreshId |->
       [at |-> "none", repo |-> None, by |-> 0, inspection |-> {}, critical |-> {},
        since |-> 0, cancelled |-> FALSE]]
  /\ paging = [on |-> FALSE]
  /\ removal = [at |-> "none", repo |-> None]
  /\ cloning = "none"
  /\ managing \in Managing

-----------------------------------------------------------------------------

\* What a read of repository r may return that was begun at version v.
Read(r, v) == {[repo |-> r, version |-> w] : w \in v .. version[r]}

IsCurrentSelection(g) ==
  /\ repositorySelectionGeneration = g
  /\ selectedRepository = selection[g].repo

\* Faulty variants: one half of the comparison is left out.
IsRefreshTarget_UrlOnly(g)        == selectedRepository = refresh[g].repo
IsRefreshTarget_GenerationOnly(g) == screenDataRefreshGeneration = g

IsRefreshTarget(g) ==
  /\ selectedRepository = refresh[g].repo
  /\ screenDataRefreshGeneration = g

\* Cancels the secondary task: its handle is lost, its git commands fail.
CancelSecondary(calls) ==
  [g \in RefreshId |-> IF calls[g].at \in {"secondary", "stash"}
                         THEN [calls[g] EXCEPT !.cancelled = TRUE] ELSE calls[g]]

\* resetPerRepositoryState.  isLoading and isLoadingMoreHistory stay.
ResetPerRepositoryState ==
  /\ display' = Blank
  /\ refresh' = CancelSecondary(refresh)

\* Selecting what is loaded or being loaded does nothing.
IsLoadedOrLoading(r, loading) ==
  selectedRepository = r /\ (loading \/ display.tip # {})

\* selectRepository up to its first await; loading is what isLoading is then.
BeginSelection(r, loading) ==
  IF IsLoadedOrLoading(r, loading)
    THEN /\ isLoading' = loading
         /\ UNCHANGED <<target, display, selection, refresh>>
    ELSE LET g == repositorySelectionGeneration + 1 IN
         /\ g \in SelectionId
         /\ repositorySelectionGeneration' = g
         /\ selectedRepository' = r
         /\ isLoading' = TRUE
         /\ ResetPerRepositoryState
         /\ selection' = [selection EXCEPT ![g] =
              [at |-> "inspecting", repo |-> r, since |-> version[r]]]

\* refreshRepositoryScreenData up to its first await, with the inspection at hand.
BeginRefresh(r, by, inspection) ==
  LET g == screenDataRefreshGeneration + 1 IN
  /\ g \in RefreshId
  /\ screenDataRefreshGeneration' = g
  /\ refresh' = [refresh EXCEPT ![g] =
       [at |-> "critical", repo |-> r, by |-> by, inspection |-> inspection,
        critical |-> {}, since |-> version[r], cancelled |-> FALSE]]

\* What is kept of a refresh that is over.
Ended(g, how) ==
  [refresh[g] EXCEPT !.at = how, !.inspection = {}, !.critical = {}, !.since = 0, !.cancelled = FALSE]

\* A refresh is over; the selection that awaits it, if any, goes on.
Resume(by) ==
  selection' = [g \in SelectionId |->
    IF g = by THEN [selection[g] EXCEPT !.at = IF IsCurrentSelection(g) THEN "listing" ELSE "over"]
              ELSE selection[g]]

-----------------------------------------------------------------------------

\* The user picks a repository, or the launch picks the last one.
Select(r) ==
  /\ BeginSelection(r, isLoading)
  /\ UNCHANGED <<world, screenDataRefreshGeneration, paging, removal, cloning>>

\* inspectRepository succeeds: the tip is shown, the repository is remembered.
InspectSucceeds(g) ==
  /\ selection[g].at = "inspecting"
  /\ IF IsCurrentSelection(g)
       THEN \E s \in Read(selection[g].repo, selection[g].since) :
              /\ display' = [display EXCEPT !.inspection = {s}, !.tip = {s}]
              /\ selection' = [selection EXCEPT ![g].at = "saving", ![g].since = 0]
       ELSE selection' = [selection EXCEPT ![g].at = "over", ![g].since = 0] /\ UNCHANGED display
  /\ UNCHANGED <<world, target, screenDataRefreshGeneration, isLoading, refresh, paging, removal, cloning>>

\* Faulty variant: a failed selection is simply left.
SelectionFails_Returns(g) ==
  /\ selection[g].at \in {"inspecting", "saving"}
  /\ selection' = [selection EXCEPT ![g].at = "over"]
  /\ display' = [display EXCEPT !.tip = IF IsCurrentSelection(g) THEN {} ELSE @]
  /\ UNCHANGED <<world, target, screenDataRefreshGeneration, isLoading, refresh, paging, removal, cloning>>

\* It throws, or saveOrUpdateRepository does: the tip is unknown, and the screen
\* is loaded all the same.
SelectionFails(g) ==
  /\ selection[g].at \in {"inspecting", "saving"}
  /\ IF IsCurrentSelection(g)
       THEN /\ display' = [display EXCEPT !.tip = {}]
            /\ BeginRefresh(selection[g].repo, g, display.inspection)
            /\ selection' = [selection EXCEPT ![g].at = "refreshing", ![g].since = 0]
       ELSE /\ selection' = [selection EXCEPT ![g].at = "over", ![g].since = 0]
            /\ UNCHANGED <<display, refresh, screenDataRefreshGeneration>>
  /\ UNCHANGED <<world, target, isLoading, paging, removal, cloning>>

\* The repository is saved, and its screen is loaded.
SaveSucceeds(g) ==
  /\ selection[g].at = "saving"
  /\ saved' = saved \cup {selection[g].repo}
  /\ IF IsCurrentSelection(g)
       THEN /\ BeginRefresh(selection[g].repo, g, display.inspection)
            /\ selection' = [selection EXCEPT ![g].at = "refreshing"]
       ELSE /\ selection' = [selection EXCEPT ![g].at = "over"]
            /\ UNCHANGED <<refresh, screenDataRefreshGeneration>>
  /\ UNCHANGED <<version, managing, target, isLoading, display, paging, removal, cloning>>

\* loadSavedRepositories returns: the selection is finished.
ListReturns(g) ==
  /\ selection[g].at = "listing"
  /\ selection' = [selection EXCEPT ![g].at = "over"]
  /\ isLoading' = IF IsCurrentSelection(g) THEN FALSE ELSE isLoading
  /\ UNCHANGED <<world, target, screenDataRefreshGeneration, display, refresh, paging, removal, cloning>>

\* The user, or an operation that has changed the repository, refreshes.
Refresh ==
  /\ ~managing
  /\ selectedRepository # None
  /\ Cardinality({g \in RefreshId : refresh[g].at # "none" /\ refresh[g].by = 0}) < MaxManual
  /\ BeginRefresh(selectedRepository, 0, display.inspection)
  /\ UNCHANGED <<world, target, isLoading, display, selection, paging, removal, cloning>>

\* loadCriticalSnapshot returns and the screen shows it.  The refresh goes on to
\* wait for the diff of the selected file (not at all if no file has changed).
CriticalSucceeds(g) ==
  /\ refresh[g].at = "critical"
  /\ IF IsRefreshTarget(g)
       THEN \E s \in Read(refresh[g].repo, refresh[g].since), full \in {FALSE, managing} :
              /\ display' = [display EXCEPT !.files = {s}, !.commits = {s}, !.more = full,
                                            !.action = {s}, !.upstream = {}]
              /\ refresh' = [refresh EXCEPT ![g].at = "diff", ![g].critical = {s}, ![g].since = 0]
              /\ UNCHANGED selection
       ELSE /\ refresh' = [refresh EXCEPT ![g] = Ended(g, "over")]
            /\ Resume(refresh[g].by)
            /\ UNCHANGED display
  /\ UNCHANGED <<world, target, screenDataRefreshGeneration, isLoading, paging, removal, cloning>>

\* It throws: only a message is shown.
CriticalFails(g) ==
  /\ refresh[g].at = "critical"
  /\ refresh' = [refresh EXCEPT ![g] = Ended(g, "failed")]
  /\ Resume(refresh[g].by)
  /\ UNCHANGED <<world, target, screenDataRefreshGeneration, isLoading, display, paging, removal, cloning>>

\* The diff is there: the secondary task starts in the place of the one before,
\* and the refresh returns.
DiffReturns(g) ==
  /\ refresh[g].at = "diff"
  /\ IF IsRefreshTarget(g)
       THEN refresh' = [CancelSecondary(refresh) EXCEPT ![g].at = "secondary",
                                                        ![g].since = version[refresh[g].repo]]
       ELSE refresh' = [refresh EXCEPT ![g] = Ended(g, "over")]
  /\ Resume(refresh[g].by)
  /\ UNCHANGED <<world, target, screenDataRefreshGeneration, isLoading, display, paging, removal, cloning>>

\* loadSecondarySnapshot returns (the live repository never throws here).  It
\* takes the upstream of the inspected branch if there is an inspection.  A
\* command of a cancelled task fails, and its value falls back to a default.
SecondaryReturns(g) ==
  /\ refresh[g].at = "secondary"
  /\ IF IsRefreshTarget(g)
       THEN /\ \/ \E s \in Read(refresh[g].repo, refresh[g].since) :
                    display' = [display EXCEPT
                      !.action = refresh[g].critical \cup {s},
                      !.upstream = IF refresh[g].inspection = {} THEN {s} ELSE refresh[g].inspection]
               \/ refresh[g].cancelled /\ display' = [display EXCEPT !.action = {}, !.upstream = {}]
            /\ refresh' = [refresh EXCEPT ![g].at = "stash",
                                          ![g].since = version[refresh[g].repo]]
       ELSE refresh' = [refresh EXCEPT ![g] = Ended(g, "over")] /\ UNCHANGED display
  /\ UNCHANGED <<world, target, screenDataRefreshGeneration, isLoading, selection, paging, removal, cloning>>

\* fetchStash returns or throws.  stashEntry is assigned before the guard, which
\* is followed by nothing but logging.
StashReturns(g) ==
  /\ refresh[g].at = "stash"
  /\ refresh' = [refresh EXCEPT ![g] = Ended(g, "over")]
  /\ \/ \E s \in Read(refresh[g].repo, refresh[g].since) : display' = [display EXCEPT !.stash = {s}]
     \/ display' = [display EXCEPT !.stash = {}]
  /\ UNCHANGED <<world, target, screenDataRefreshGeneration, isLoading, selection, paging, removal, cloning>>

-----------------------------------------------------------------------------

\* Faulty variant: paging without a repository.
LoadMore_Unselected ==
  /\ display.more /\ ~paging.on
  /\ paging' = [on |-> TRUE, repo |-> selectedRepository, since |-> 0]
  /\ UNCHANGED <<world, target, screenDataRefreshGeneration, isLoading, display, selection, refresh, removal, cloning>>

\* loadMoreHistory: the user has scrolled to the end of the commits.
LoadMore ==
  /\ display.more /\ ~paging.on
  /\ selectedRepository # None
  /\ paging' = [on |-> TRUE, repo |-> selectedRepository, since |-> version[selectedRepository]]
  /\ UNCHANGED <<world, target, screenDataRefreshGeneration, isLoading, display, selection, refresh, removal, cloning>>

\* The next page is there, or it failed and paging is over.
MoreReturns ==
  /\ paging.on
  /\ paging' = [on |-> FALSE]
  /\ \/ \E s \in Read(paging.repo, paging.since), full \in {FALSE, managing} :
          display' = [display EXCEPT !.commits = @ \cup {s}, !.more = full]
     \/ display' = [display EXCEPT !.more = FALSE]
  /\ UNCHANGED <<world, target, screenDataRefreshGeneration, isLoading, selection, refresh, removal, cloning>>

\* removeSelectedRepository, of a repository that is saved.
Remove ==
  /\ managing
  /\ removal.at = "none"
  /\ selectedRepository \in saved
  /\ removal' = [at |-> "removing", repo |-> selectedRepository]
  /\ UNCHANGED <<world, target, screenDataRefreshGeneration, isLoading, display, selection, refresh, paging, cloning>>

\* Faulty variant: the screen is not cleared.
RemoveReturns_KeepsScreen ==
  /\ removal.at = "removing"
  /\ saved' = saved \ {removal.repo}
  /\ selectedRepository' = None
  /\ removal' = [removal EXCEPT !.at = "promoting"]
  /\ UNCHANGED <<version, managing, repositorySelectionGeneration, screenDataRefreshGeneration,
                 isLoading, display, selection, refresh, paging, cloning>>

\* It is forgotten and nothing is selected, whatever was by now.
RemoveReturns ==
  /\ removal.at = "removing"
  /\ saved' = saved \ {removal.repo}
  /\ selectedRepository' = None
  /\ ResetPerRepositoryState
  /\ removal' = [removal EXCEPT !.at = "promoting"]
  /\ UNCHANGED <<version, managing, repositorySelectionGeneration, screenDataRefreshGeneration,
                 isLoading, selection, paging, cloning>>

\* removeRepository throws: only a message is shown.
RemoveFails ==
  /\ removal.at = "removing"
  /\ removal' = [removal EXCEPT !.at = "over"]
  /\ UNCHANGED <<world, target, screenDataRefreshGeneration, isLoading, display, selection, refresh, paging, cloning>>

\* Another repository that is saved, if any, is selected instead.
Promote ==
  /\ removal.at = "promoting"
  /\ removal' = [removal EXCEPT !.at = "over"]
  /\ \/ \E r \in saved : BeginSelection(r, isLoading)
     \/ UNCHANGED <<target, isLoading, display, selection, refresh>>
  /\ UNCHANGED <<world, screenDataRefreshGeneration, paging, cloning>>

\* cloneRepository, and createRepository with its options.
Clone ==
  /\ managing
  /\ cloning = "none"
  /\ cloning' = "running"
  /\ isLoading' = TRUE
  /\ UNCHANGED <<world, target, screenDataRefreshGeneration, display, selection, refresh, paging, removal>>

\* The new repository is selected.
CloneSucceeds(r) ==
  /\ cloning = "running"
  /\ cloning' = "over"
  /\ BeginSelection(r, FALSE)
  /\ UNCHANGED <<world, screenDataRefreshGeneration, paging, removal>>

\* Faulty variant: the spinner is not taken back.
CloneFails_KeepsSpinner ==
  /\ cloning = "running"
  /\ cloning' = "over"
  /\ UNCHANGED <<world, target, screenDataRefreshGeneration, isLoading, display, selection, refresh, paging, removal>>

CloneFails ==
  /\ cloning = "running"
  /\ cloning' = "over"
  /\ isLoading' = FALSE
  /\ UNCHANGED <<world, target, screenDataRefreshGeneration, display, selection, refresh, paging, removal>>

\* A branch is checked out or a commit made, in the app or outside it.
CheckoutChanges(r) ==
  /\ ~managing
  /\ version[r] < MaxVersion
  /\ version' = [version EXCEPT ![r] = @ + 1]
  /\ UNCHANGED <<saved, managing, target, screenDataRefreshGeneration, isLoading, display, selection,
                 refresh, paging, removal, cloning>>

Next ==
  \/ \E r \in Repo : Select(r) \/ CloneSucceeds(r) \/ CheckoutChanges(r)
  \/ \E g \in SelectionId :
       InspectSucceeds(g) \/ SelectionFails(g) \/ SaveSucceeds(g) \/ ListReturns(g)
  \/ \E g \in RefreshId :
       \/ CriticalSucceeds(g) \/ CriticalFails(g) \/ DiffReturns(g)
       \/ SecondaryReturns(g) \/ StashReturns(g)
  \/ Refresh \/ LoadMore \/ MoreReturns
  \/ Remove \/ RemoveReturns \/ RemoveFails \/ Promote
  \/ Clone \/ CloneFails

Spec == Init /\ [][Next]_vars

-----------------------------------------------------------------------------

\* However selections, refreshes, secondary tasks and removals overlap, what the
\* screen shows of the branch, the changed files and the remote was read from
\* the repository that is selected, and nothing is shown when none is.
ScreenIsOfSelected ==
  \A s \in display.tip \cup display.inspection \cup display.files
          \cup display.action \cup display.upstream : s.repo = selectedRepository

\* A refresh that comes back late never takes the screen back to an older state
\* of the repository.
RefreshNeverGoesBack ==
  [][\A field \in {"files", "action"} :
       \A s \in display[field], t \in display'[field] \ display[field] :
         s.repo = t.repo => s.version <= t.version]_vars

Awaiting ==
  \/ \E g \in SelectionId : selection[g].at \notin {"none", "over"}
  \/ \E g \in RefreshId : refresh[g].at \notin {"none", "over", "failed"}
  \/ paging.on
  \/ removal.at \in {"removing", "promoting"}
  \/ cloning = "running"

\* The generations never drop every answer: when all calls have come back, the
\* spinner is off, and the newest refresh of the selected repository is on the
\* screen with its secondary part, or it failed.
QuietMeansLoaded ==
  ~Awaiting /\ selectedRepository # None =>
    /\ ~isLoading
    /\ screenDataRefreshGeneration # 0
    /\ LET last == refresh[screenDataRefreshGeneration] IN
       /\ last.repo = selectedRepository
       /\ last.at # "failed" => /\ display.files # {} /\ display.upstream # {}
                                /\ display.files \subseteq display.action

\* The spinner of a selected repository has somebody who will take it back: the
\* selection that is current, or a clone.  (A selection whose repository is
\* forgotten meanwhile leaves it behind with nothing selected.)
SpinnerHasOwner ==
  isLoading /\ selectedRepository # None =>
    \/ cloning = "running"
    \/ \E g \in SelectionId : selection[g].at # "over" /\ IsCurrentSelection(g)

\* "No stale repository, branch, or diff data is displayed after a repository
\* switch or refresh" (docs/queue/bugs.md:303), of the stash ...
StashIsOfSelected == \A s \in display.stash : s.repo = selectedRepository

\* ... of the commits ...
HistoryIsOfSelected == \A s \in display.commits : s.repo = selectedRepository

\* ... and of the branch: after a refresh that the user or an operation asked
\* for, with all calls back, the branch on the toolbar and the one whose upstream
\* is compared are not older than the files.
BranchIsRefreshed ==
  LET g == screenDataRefreshGeneration IN
  ~Awaiting /\ g # 0 /\ refresh[g].by = 0 /\ refresh[g].at = "over" =>
    \A s \in display.tip \cup display.upstream, t \in display.files : s.version >= t.version

\* The whole of the sentence.
NothingStale == StashIsOfSelected /\ HistoryIsOfSelected /\ BranchIsRefreshed
=============================================================================
