---------------------- MODULE RepositorySelection_proofs ----------------------
(***************************************************************************)
(* Proofs about RepositorySelection, for any repositories and any bounds   *)
(* on calls and changes.                                                   *)
(***************************************************************************)
EXTENDS RepositorySelection, TLAPS

SelectionCall ==
  [at : {"none", "inspecting", "saving", "refreshing", "listing", "over"},
   repo : Repo \cup {None}, since : Version]

RefreshCall ==
  [at : {"none", "critical", "diff", "secondary", "stash", "over", "failed"},
   repo : Repo \cup {None}, by : {0} \cup SelectionId, inspection : SUBSET Stamp,
   critical : SUBSET Stamp, since : Version, cancelled : BOOLEAN]

\* The calls that have begun are those of the generations drawn so far, and each of
\* them is of a repository.
CallsHaveBegun ==
  /\ \A g \in SelectionId : selection[g].at # "none" <=> g <= repositorySelectionGeneration
  /\ \A g \in RefreshId : refresh[g].at # "none" <=> g <= screenDataRefreshGeneration
  /\ \A g \in SelectionId : selection[g].at # "none" => selection[g].repo \in Repo
  /\ \A g \in RefreshId : refresh[g].at # "none" => refresh[g].repo \in Repo

IsAwaited(g) == refresh[g].at \in {"critical", "diff"}

\* A selection that awaits a refresh awaits only one, and a refresh that is awaited
\* resumes a selection at the point where it awaits.
AwaitedOnce ==
  /\ \A g \in RefreshId : IsAwaited(g) =>
       /\ ~refresh[g].cancelled
       /\ refresh[g].by # 0 => selection[refresh[g].by].at = "refreshing"
  /\ \A g, h \in RefreshId :
       IsAwaited(g) /\ IsAwaited(h) /\ refresh[g].by = refresh[h].by /\ refresh[g].by # 0 => g = h

\* What a refresh carries along was read from its own repository.
CarriesItsOwn ==
  \A g \in RefreshId : \A s \in refresh[g].inspection \cup refresh[g].critical : s.repo = refresh[g].repo

\* No value is newer than the checkout that it was read from.
NothingFromTheFuture ==
  /\ \A s \in display.files \cup display.action : s.version <= version[s.repo]
  /\ \A g \in RefreshId : \A s \in refresh[g].critical : s.version <= version[s.repo]

\* While a repository is selected, the current selection is of it; when that one has
\* begun its refresh, the newest refresh is of it as well, and the screen shows what
\* that refresh has read so far.
ScreenIsLoaded ==
  selectedRepository # None =>
    /\ repositorySelectionGeneration # 0
    /\ selection[repositorySelectionGeneration].repo = selectedRepository
    /\ selection[repositorySelectionGeneration].at \in {"refreshing", "listing", "over"} =>
         /\ screenDataRefreshGeneration # 0
         /\ LET last == refresh[screenDataRefreshGeneration] IN
            /\ last.repo = selectedRepository
            /\ ~last.cancelled
            /\ last.at \in {"diff", "secondary"} =>
                 display.files # {} /\ display.files = last.critical
            /\ last.at \in {"stash", "over"} => /\ display.files # {} /\ display.upstream # {}
                                                /\ display.files \subseteq display.action

\* The newest refresh has begun its read after all that the screen shows of its
\* repository was read.
NewestReadsLater ==
  screenDataRefreshGeneration # 0 =>
    LET last == refresh[screenDataRefreshGeneration] IN
    /\ last.at \in {"critical", "secondary"} =>
         \A s \in display.action : s.repo = last.repo => s.version <= last.since
    /\ last.at = "critical" =>
         \A s \in display.files : s.repo = last.repo => s.version <= last.since
    /\ last.at \in {"diff", "secondary"} =>
         \A s \in display.action, t \in last.critical : s.repo = t.repo => s.version <= t.version

IInv ==
  /\ TypeOK /\ ScreenIsOfSelected /\ SpinnerHasOwner
  /\ CallsHaveBegun /\ AwaitedOnce /\ CarriesItsOwn /\ NothingFromTheFuture
  /\ ScreenIsLoaded /\ NewestReadsLater

-----------------------------------------------------------------------------
(* The helpers of the actions.                                             *)

LEMMA TypeFacts ==
  ASSUME TypeOK
  PROVE  /\ \A r \in Repo : version[r] \in Version
         /\ \A g \in SelectionId : selection[g] \in SelectionCall
         /\ \A g \in RefreshId : refresh[g] \in RefreshCall
         /\ 0 \in Version
         /\ 0 \notin SelectionId /\ 0 \notin RefreshId
BY SelectionAssumption DEF TypeOK, SelectionCall, RefreshCall, SelectionId, RefreshId, Version

\* A read returns a stamp of its repository, of a version from its call to its return.
LEMMA ReadFacts ==
  ASSUME TypeOK, NEW r \in Repo, NEW v \in Version, NEW s \in Read(r, v)
  PROVE  /\ s \in Stamp
         /\ s.repo = r
         /\ s.version \in Nat /\ v <= s.version /\ s.version <= version[r]
<1>1. PICK w \in v .. version[r] : s = [repo |-> r, version |-> w]
  BY DEF Read
<1>2. version[r] \in 0 .. MaxVersion /\ v \in 0 .. MaxVersion
  BY DEF TypeOK, Version
<1>3. w \in 0 .. MaxVersion /\ v <= w /\ w <= version[r]
  BY <1>1, <1>2, SelectionAssumption
<1> QED
  BY <1>1, <1>3 DEF Stamp, Version

\* Cancelling the secondary task changes nothing but its flag.
LEMMA CancelSecondaryFacts ==
  ASSUME TypeOK
  PROVE  /\ CancelSecondary(refresh) \in [RefreshId -> RefreshCall]
         /\ \A g \in RefreshId :
              /\ CancelSecondary(refresh)[g].at = refresh[g].at
              /\ CancelSecondary(refresh)[g].repo = refresh[g].repo
              /\ CancelSecondary(refresh)[g].by = refresh[g].by
              /\ CancelSecondary(refresh)[g].inspection = refresh[g].inspection
              /\ CancelSecondary(refresh)[g].critical = refresh[g].critical
              /\ CancelSecondary(refresh)[g].since = refresh[g].since
              /\ refresh[g].at \notin {"secondary", "stash"} =>
                   CancelSecondary(refresh)[g].cancelled = refresh[g].cancelled
<1>1. ASSUME NEW g \in RefreshId
      PROVE  /\ CancelSecondary(refresh)[g] =
                  IF refresh[g].at \in {"secondary", "stash"}
                    THEN [refresh[g] EXCEPT !.cancelled = TRUE] ELSE refresh[g]
             /\ refresh[g] \in RefreshCall
  BY TypeFacts DEF CancelSecondary
<1>2. ASSUME NEW c \in RefreshCall
      PROVE  LET d == [c EXCEPT !.cancelled = TRUE] IN
             /\ d \in RefreshCall
             /\ d.at = c.at /\ d.repo = c.repo /\ d.by = c.by /\ d.inspection = c.inspection
             /\ d.critical = c.critical /\ d.since = c.since
  BY DEF RefreshCall
<1>3. CancelSecondary(refresh) = [g \in RefreshId |-> CancelSecondary(refresh)[g]]
  BY DEF CancelSecondary
<1>4. ASSUME NEW g \in RefreshId
      PROVE  /\ CancelSecondary(refresh)[g] \in RefreshCall
             /\ CancelSecondary(refresh)[g].at = refresh[g].at
             /\ CancelSecondary(refresh)[g].repo = refresh[g].repo
             /\ CancelSecondary(refresh)[g].by = refresh[g].by
             /\ CancelSecondary(refresh)[g].inspection = refresh[g].inspection
             /\ CancelSecondary(refresh)[g].critical = refresh[g].critical
             /\ CancelSecondary(refresh)[g].since = refresh[g].since
             /\ refresh[g].at \notin {"secondary", "stash"} =>
                  CancelSecondary(refresh)[g].cancelled = refresh[g].cancelled
  <2>1. CASE refresh[g].at \in {"secondary", "stash"}
    BY <1>1, <1>2, <2>1
  <2>2. CASE refresh[g].at \notin {"secondary", "stash"}
    BY <1>1, <2>2
  <2> QED
    BY <2>1, <2>2
<1> HIDE DEF CancelSecondary
<1>5. CancelSecondary(refresh) \in [RefreshId -> RefreshCall]
  BY <1>3, <1>4
<1> QED
  BY <1>4, <1>5

\* Resuming moves the selection that waits, if any, and no other.
LEMMA ResumeFacts ==
  ASSUME TypeOK, NEW by \in {0} \cup SelectionId, Resume(by)
  PROVE  /\ selection' \in [SelectionId -> SelectionCall]
         /\ \A g \in SelectionId :
              /\ selection'[g].repo = selection[g].repo
              /\ g # by => selection'[g] = selection[g]
              /\ g = by /\ IsCurrentSelection(g) => selection'[g].at = "listing"
              /\ g = by /\ ~IsCurrentSelection(g) => selection'[g].at = "over"
<1>1. ASSUME NEW c \in SelectionCall
      PROVE  /\ [c EXCEPT !.at = "listing"] \in SelectionCall /\ [c EXCEPT !.at = "over"] \in SelectionCall
             /\ [c EXCEPT !.at = "listing"].repo = c.repo /\ [c EXCEPT !.at = "over"].repo = c.repo
             /\ [c EXCEPT !.at = "listing"].at = "listing" /\ [c EXCEPT !.at = "over"].at = "over"
  BY DEF SelectionCall
<1>2. ASSUME NEW g \in SelectionId
      PROVE  /\ selection'[g] \in SelectionCall
             /\ selection'[g].repo = selection[g].repo
             /\ g # by => selection'[g] = selection[g]
             /\ g = by /\ IsCurrentSelection(g) => selection'[g].at = "listing"
             /\ g = by /\ ~IsCurrentSelection(g) => selection'[g].at = "over"
  <2> selection[g] \in SelectionCall
    BY TypeFacts
  <2>1. CASE g = by /\ IsCurrentSelection(g)
    <3>1. selection'[g] = [selection[g] EXCEPT !.at = "listing"]
      BY <2>1 DEF Resume
    <3> QED
      BY <1>1, <2>1, <3>1
  <2>2. CASE g = by /\ ~IsCurrentSelection(g)
    <3>1. selection'[g] = [selection[g] EXCEPT !.at = "over"]
      BY <2>2 DEF Resume
    <3> QED
      BY <1>1, <2>2, <3>1
  <2>3. CASE g # by
    BY <2>3 DEF Resume
  <2> QED
    BY <2>1, <2>2, <2>3
<1>3. selection' = [g \in SelectionId |-> selection'[g]]
  BY DEF Resume
<1> QED
  BY <1>2, <1>3

\* What is kept of a refresh that is over.
LEMMA EndedFacts ==
  ASSUME TypeOK, NEW g \in RefreshId, NEW how \in {"over", "failed"}
  PROVE  /\ Ended(g, how) \in RefreshCall
         /\ Ended(g, how).at = how
         /\ Ended(g, how).repo = refresh[g].repo /\ Ended(g, how).by = refresh[g].by
         /\ Ended(g, how).inspection = {} /\ Ended(g, how).critical = {}
         /\ Ended(g, how).cancelled = FALSE
BY TypeFacts DEF Ended, RefreshCall

-----------------------------------------------------------------------------
(* The invariant.                                                          *)

\* The parts that speak of what the calls carry and of what the screen shows.
Data ==
  /\ ScreenIsOfSelected /\ CallsHaveBegun /\ AwaitedOnce /\ CarriesItsOwn
  /\ NothingFromTheFuture /\ ScreenIsLoaded /\ NewestReadsLater

LEMMA InitIInv == Init => IInv
<1> SUFFICES ASSUME Init PROVE IInv
  OBVIOUS
<1>1. TypeOK
  <2>1. Blank \in Display
    BY DEF Blank, Display
  <2>2. /\ 0 \in Version
        /\ selection \in [SelectionId ->
             [at : {"none", "inspecting", "saving", "refreshing", "listing", "over"},
              repo : Repo \cup {None}, since : Version]]
        /\ refresh \in [RefreshId ->
             [at : {"none", "critical", "diff", "secondary", "stash", "over", "failed"},
              repo : Repo \cup {None}, by : {0} \cup SelectionId, inspection : SUBSET Stamp,
              critical : SUBSET Stamp, since : Version, cancelled : BOOLEAN]]
    BY SelectionAssumption DEF Init, Version
  <2> QED
    BY <2>1, <2>2 DEF Init, TypeOK
<1>2. SpinnerHasOwner /\ ScreenIsOfSelected /\ NothingFromTheFuture
  BY DEF Init, SpinnerHasOwner, ScreenIsOfSelected, NothingFromTheFuture, Blank
<1>3. CallsHaveBegun
  <2>1. /\ \A g \in SelectionId : selection[g].at = "none" /\ ~(g <= 0)
        /\ \A g \in RefreshId : refresh[g].at = "none" /\ ~(g <= 0)
    BY SelectionAssumption DEF Init, SelectionId, RefreshId
  <2> QED
    BY <2>1 DEF Init, CallsHaveBegun
<1>4. AwaitedOnce /\ CarriesItsOwn
  BY DEF Init, AwaitedOnce, IsAwaited, CarriesItsOwn
<1>5. ScreenIsLoaded /\ NewestReadsLater
  BY DEF Init, ScreenIsLoaded, NewestReadsLater
<1> QED
  BY <1>1, <1>2, <1>3, <1>4, <1>5 DEF IInv

\* A step that leaves the calls and the screen alone disturbs nothing of them.
LEMMA DataUnchanged ==
  ASSUME Data,
         UNCHANGED <<version, target, screenDataRefreshGeneration, display, selection, refresh>>
  PROVE  Data'
BY DEF Data, target, ScreenIsOfSelected, CallsHaveBegun, AwaitedOnce, IsAwaited, CarriesItsOwn,
       NothingFromTheFuture, ScreenIsLoaded, NewestReadsLater

\* A selection that does something draws a new generation and starts from an empty
\* screen, so that nothing on it can be another repository's.
LEMMA BeginSelectionKeeps ==
  ASSUME IInv, NEW r \in Repo, NEW loading, loading = isLoading \/ loading = FALSE,
         BeginSelection(r, loading),
         UNCHANGED <<version, screenDataRefreshGeneration>>,
         cloning' = cloning \/ loading = FALSE
  PROVE  /\ Data' /\ SpinnerHasOwner'
         /\ selectedRepository' \in Repo \cup {None}
         /\ repositorySelectionGeneration' \in {0} \cup SelectionId
         /\ isLoading' \in BOOLEAN /\ display' \in Display
         /\ selection' \in [SelectionId -> SelectionCall]
         /\ refresh' \in [RefreshId -> RefreshCall]
<1> USE DEF IInv
<1>1. CASE IsLoadedOrLoading(r, loading)
  <2>1. isLoading' = loading /\ UNCHANGED <<target, display, selection, refresh>>
    BY <1>1 DEF BeginSelection
  <2>2. Data'
    BY <2>1, DataUnchanged DEF Data
  <2>3. SpinnerHasOwner'
    BY <2>1 DEF SpinnerHasOwner, IsCurrentSelection, target
  <2> QED
    BY <2>1, <2>2, <2>3 DEF TypeOK, target, SelectionCall, RefreshCall
<1>2. CASE ~IsLoadedOrLoading(r, loading)
  <2> DEFINE g == repositorySelectionGeneration + 1
             call == [at |-> "inspecting", repo |-> r, since |-> version[r]]
  <2>1. /\ g \in SelectionId
        /\ repositorySelectionGeneration' = g
        /\ selectedRepository' = r
        /\ isLoading' = TRUE
        /\ display' = Blank
        /\ refresh' = CancelSecondary(refresh)
        /\ selection' = [selection EXCEPT ![g] = call]
    BY <1>2 DEF BeginSelection, ResetPerRepositoryState
  <2>2. /\ call \in SelectionCall /\ call.at = "inspecting" /\ call.repo = r
        /\ repositorySelectionGeneration \in Nat /\ g = repositorySelectionGeneration + 1
    BY SelectionAssumption DEF SelectionCall, TypeOK, SelectionId
  <2> HIDE DEF g, call
  <2>3. /\ selection' \in [SelectionId -> SelectionCall]
        /\ selection'[g] = call
        /\ \A h \in SelectionId \ {g} : selection'[h] = selection[h]
    BY <2>1, <2>2 DEF TypeOK, SelectionCall
  <2>4. ScreenIsOfSelected' /\ NothingFromTheFuture'
    BY <2>1, CancelSecondaryFacts DEF ScreenIsOfSelected, NothingFromTheFuture, Blank
  <2>5. CallsHaveBegun'
    <3>1. \A h \in SelectionId : selection'[h].at # "none" <=> h <= g
      BY <2>1, <2>2, <2>3 DEF CallsHaveBegun, SelectionId
    <3>2. \A h \in SelectionId : selection'[h].at # "none" => selection'[h].repo \in Repo
      BY <2>2, <2>3 DEF CallsHaveBegun
    <3> QED
      BY <2>1, <3>1, <3>2, CancelSecondaryFacts DEF CallsHaveBegun
  <2>6. AwaitedOnce' /\ CarriesItsOwn'
    <3>1. ~(g <= repositorySelectionGeneration)
      BY <2>2
    <3>2. selection[g].at = "none"
      BY <2>1, <3>1 DEF CallsHaveBegun
    <3>3. \A h \in RefreshId : /\ IsAwaited(h)' <=> IsAwaited(h)
                               /\ refresh'[h].by = refresh[h].by
                               /\ IsAwaited(h) => refresh'[h].cancelled = refresh[h].cancelled
      BY <2>1, CancelSecondaryFacts DEF IsAwaited
    <3>4. \A h \in RefreshId : refresh[h].by \in {0} \cup SelectionId
      BY TypeFacts DEF RefreshCall
    <3>5. \A h \in RefreshId : IsAwaited(h) /\ refresh[h].by # 0 => selection'[refresh[h].by].at = "refreshing"
      BY <2>3, <3>2, <3>4 DEF AwaitedOnce
    <3>6. AwaitedOnce'
      BY <3>3, <3>5 DEF AwaitedOnce
    <3> QED
      BY <2>1, <3>6, CancelSecondaryFacts DEF CarriesItsOwn
  <2>7. ScreenIsLoaded'
    BY <2>1, <2>2, <2>3 DEF ScreenIsLoaded, SelectionId
  <2>8. NewestReadsLater'
    BY <2>1 DEF NewestReadsLater, Blank
  <2>9. SpinnerHasOwner'
    BY <2>1, <2>2, <2>3 DEF SpinnerHasOwner, IsCurrentSelection
  <2>10. refresh' \in [RefreshId -> RefreshCall] /\ display' \in Display
    BY <2>1, CancelSecondaryFacts DEF Blank, Display
  <2> QED
    BY <2>1, <2>3, <2>4, <2>5, <2>6, <2>7, <2>8, <2>9, <2>10 DEF Data
<1> QED
  BY <1>1, <1>2

\* A refresh draws a new generation.  It is of the selected repository, and reads it
\* later than everything that is on the screen by now.
LEMMA BeginRefreshKeeps ==
  ASSUME IInv, selectedRepository # None,
         NEW by \in {0} \cup SelectionId, BeginRefresh(selectedRepository, by, display.inspection),
         UNCHANGED <<version, target, isLoading, cloning>>,
         display' = display \/ display' = [display EXCEPT !.tip = {}],
         \/ by = 0 /\ UNCHANGED selection
         \/ /\ by = repositorySelectionGeneration /\ by # 0
            /\ selection[by].at \in {"inspecting", "saving"}
            /\ selection' \in [SelectionId -> SelectionCall]
            /\ selection'[by].at = "refreshing" /\ selection'[by].repo = selection[by].repo
            /\ \A g \in SelectionId \ {by} : selection'[g] = selection[g]
  PROVE  /\ Data' /\ SpinnerHasOwner'
         /\ screenDataRefreshGeneration' \in {0} \cup RefreshId
         /\ display' \in Display
         /\ refresh' \in [RefreshId -> RefreshCall]
<1> USE DEF IInv
<1> DEFINE r == selectedRepository
           g == screenDataRefreshGeneration + 1
           call == [at |-> "critical", repo |-> r, by |-> by, inspection |-> display.inspection,
                    critical |-> {}, since |-> version[r], cancelled |-> FALSE]
<1>1. /\ g \in RefreshId
      /\ screenDataRefreshGeneration' = g
      /\ refresh' = [refresh EXCEPT ![g] = call]
  BY DEF BeginRefresh
<1>2. /\ screenDataRefreshGeneration \in Nat /\ g = screenDataRefreshGeneration + 1
      /\ r \in Repo /\ r = selectedRepository
  BY SelectionAssumption DEF TypeOK, RefreshId
<1>3. /\ call \in RefreshCall
      /\ call.at = "critical" /\ call.repo = r /\ call.by = by /\ call.inspection = display.inspection
      /\ call.critical = {} /\ call.since = version[r] /\ call.cancelled = FALSE
  BY <1>2 DEF RefreshCall, TypeOK, Display
<1>4. /\ display' \in Display
      /\ display'.inspection = display.inspection /\ display'.files = display.files
      /\ display'.action = display.action /\ display'.upstream = display.upstream
      /\ display'.tip \subseteq display.tip
  BY DEF TypeOK, Display
<1> HIDE DEF g, call, r
<1>5. /\ refresh' \in [RefreshId -> RefreshCall]
      /\ refresh'[g] = call
      /\ \A h \in RefreshId \ {g} : refresh'[h] = refresh[h]
  BY <1>1, <1>3 DEF TypeOK, RefreshCall
<1>6. \A h \in SelectionId : /\ selection'[h].repo = selection[h].repo
                             /\ selection'[h].at # "none" <=> selection[h].at # "none"
                             /\ selection'[h].at = "over" <=> selection[h].at = "over"
                             /\ selection[h].at = "refreshing" => selection'[h].at = "refreshing"
  OBVIOUS
<1>7. ScreenIsOfSelected'
  BY <1>4 DEF ScreenIsOfSelected, target
<1>8. CallsHaveBegun'
  <2>1. \A h \in RefreshId : refresh'[h].at # "none" <=> h <= g
    BY <1>1, <1>2, <1>3, <1>5 DEF CallsHaveBegun, RefreshId
  <2>2. \A h \in RefreshId : refresh'[h].at # "none" => refresh'[h].repo \in Repo
    BY <1>2, <1>3, <1>5 DEF CallsHaveBegun
  <2>3. /\ \A h \in SelectionId : selection'[h].at # "none" <=> h <= repositorySelectionGeneration
        /\ \A h \in SelectionId : selection'[h].at # "none" => selection'[h].repo \in Repo
    BY <1>6 DEF CallsHaveBegun
  <2> QED
    BY <1>1, <2>1, <2>2, <2>3 DEF CallsHaveBegun, target
<1>9. AwaitedOnce'
  <2>1. \A h \in RefreshId \ {g} : IsAwaited(h)' <=> IsAwaited(h)
    BY <1>5 DEF IsAwaited
  <2>2. \A h \in RefreshId \ {g} : IsAwaited(h) /\ refresh[h].by # 0 =>
          refresh[h].by # by /\ selection'[refresh[h].by].at = "refreshing"
    <3>1. \A h \in RefreshId : refresh[h].by \in {0} \cup SelectionId
      BY TypeFacts DEF RefreshCall
    <3> QED
      BY <1>6, <3>1 DEF AwaitedOnce
  <2>3. by # 0 => selection'[by].at = "refreshing"
    OBVIOUS
  <2> QED
    BY <1>3, <1>5, <2>1, <2>2, <2>3 DEF AwaitedOnce
<1>10. CarriesItsOwn'
  BY <1>2, <1>3, <1>5 DEF CarriesItsOwn, ScreenIsOfSelected
<1>11. NothingFromTheFuture'
  BY <1>3, <1>4, <1>5 DEF NothingFromTheFuture
<1>12. ScreenIsLoaded'
  BY <1>1, <1>2, <1>3, <1>5, <1>6, SelectionAssumption
     DEF ScreenIsLoaded, target, TypeOK, RefreshId
<1>13. NewestReadsLater'
  <2>1. \A s \in display.files \cup display.action : s.repo = r => s.version <= version[r]
    BY DEF NothingFromTheFuture
  <2> QED
    BY <1>1, <1>3, <1>4, <1>5, <2>1 DEF NewestReadsLater
<1>14. SpinnerHasOwner'
  BY <1>6 DEF SpinnerHasOwner, IsCurrentSelection, target
<1> QED
  BY <1>1, <1>4, <1>5, <1>7, <1>8, <1>9, <1>10, <1>11, <1>12, <1>13, <1>14 DEF Data

\* The selection that awaits a refresh is at the point where it awaits, so that
\* resuming it skips nothing.
LEMMA AwaitEnds ==
  ASSUME IInv, NEW g \in RefreshId, IsAwaited(g), Resume(refresh[g].by),
         UNCHANGED <<target, isLoading, cloning>>,
         ~IsAwaited(g)',
         \A h \in RefreshId : refresh'[h].by = refresh[h].by,
         \A h \in RefreshId \ {g} : /\ IsAwaited(h)' <=> IsAwaited(h)
                                    /\ IsAwaited(h) => refresh'[h].cancelled = refresh[h].cancelled
  PROVE  /\ selection' \in [SelectionId -> SelectionCall]
         /\ AwaitedOnce' /\ SpinnerHasOwner'
         /\ \A h \in SelectionId :
              /\ selection'[h].repo = selection[h].repo
              /\ selection'[h].at # "none" <=> selection[h].at # "none"
              /\ selection'[h].at \in {"refreshing", "listing", "over"} =>
                   selection[h].at \in {"refreshing", "listing", "over"}
<1> USE DEF IInv
<1> DEFINE by == refresh[g].by
<1>1. by \in {0} \cup SelectionId
  BY TypeFacts DEF RefreshCall
<1>2. by # 0 => selection[by].at = "refreshing"
  BY DEF AwaitedOnce
<1> HIDE DEF by
<1>3. /\ selection' \in [SelectionId -> SelectionCall]
      /\ \A h \in SelectionId :
           /\ selection'[h].repo = selection[h].repo
           /\ h # by => selection'[h] = selection[h]
           /\ h = by /\ IsCurrentSelection(h) => selection'[h].at = "listing"
           /\ h = by /\ ~IsCurrentSelection(h) => selection'[h].at = "over"
  BY <1>1, ResumeFacts DEF by
<1>4. 0 \notin SelectionId
  BY TypeFacts
<1>5. \A h \in SelectionId : h = by => selection'[h].at \in {"listing", "over"}
  BY <1>3 DEF IsCurrentSelection
<1>6. AwaitedOnce'
  <2>1. \A h \in RefreshId : IsAwaited(h)' => h # g /\ IsAwaited(h)
    OBVIOUS
  <2>2. ASSUME NEW h \in RefreshId, IsAwaited(h)', refresh[h].by # 0
        PROVE  selection'[refresh[h].by].at = "refreshing"
    <3>1. refresh[h].by # by /\ selection[refresh[h].by].at = "refreshing"
      BY <2>1, <2>2 DEF AwaitedOnce, by
    <3>2. refresh[h].by \in {0} \cup SelectionId
      BY TypeFacts DEF RefreshCall
    <3> QED
      BY <1>3, <2>2, <3>1, <3>2
  <2>3. \A h \in RefreshId : IsAwaited(h)' => ~refresh'[h].cancelled
    BY <2>1 DEF AwaitedOnce
  <2>4. \A h, k \in RefreshId : IsAwaited(h)' /\ IsAwaited(k)' /\ refresh[h].by = refresh[k].by
          /\ refresh[h].by # 0 => h = k
    BY <2>1 DEF AwaitedOnce
  <2> QED
    BY <2>2, <2>3, <2>4 DEF AwaitedOnce
<1>7. SpinnerHasOwner'
  BY <1>3 DEF SpinnerHasOwner, IsCurrentSelection, target
<1>8. ASSUME NEW h \in SelectionId
      PROVE  /\ selection'[h].at # "none" <=> selection[h].at # "none"
             /\ selection'[h].at \in {"refreshing", "listing", "over"} =>
                  selection[h].at \in {"refreshing", "listing", "over"}
  <2>1. CASE h = by
    BY <1>2, <1>4, <1>5, <2>1
  <2>2. CASE h # by
    BY <1>3, <2>2
  <2> QED
    BY <2>1, <2>2
<1> QED
  BY <1>3, <1>6, <1>7, <1>8

\* The repository of the current selection is selected.
LEMMA CurrentFacts ==
  ASSUME IInv, NEW g \in SelectionId, selection[g].at # "none", IsCurrentSelection(g)
  PROVE  /\ g = repositorySelectionGeneration /\ g # 0
         /\ selection[g].repo = selectedRepository
         /\ selectedRepository \in Repo /\ selectedRepository # None
BY TypeFacts, SelectionAssumption DEF IInv, IsCurrentSelection, CallsHaveBegun

\* A step of a selection that draws no refresh.
LEMMA SelectionGoesOn ==
  ASSUME IInv, NEW g \in SelectionId, selection[g].at \in {"inspecting", "saving"},
         UNCHANGED <<version, target, screenDataRefreshGeneration, isLoading, refresh, cloning>>,
         selection' \in [SelectionId -> SelectionCall],
         selection'[g].repo = selection[g].repo,
         \A h \in SelectionId \ {g} : selection'[h] = selection[h],
         display' \in Display,
         display'.files = display.files, display'.action = display.action,
         display'.upstream = display.upstream,
         \/ IsCurrentSelection(g) /\ selection'[g].at = "saving"
         \/ ~IsCurrentSelection(g) /\ selection'[g].at = "over",
         ScreenIsOfSelected'
  PROVE  Data' /\ SpinnerHasOwner'
<1> USE DEF IInv
<1>1. CallsHaveBegun' /\ CarriesItsOwn'
  BY DEF CallsHaveBegun, CarriesItsOwn, target
<1>2. AwaitedOnce'
  <2>1. \A h \in RefreshId : refresh[h].by \in {0} \cup SelectionId
    BY TypeFacts DEF RefreshCall
  <2> QED
    BY <2>1 DEF AwaitedOnce, IsAwaited
<1>3. NothingFromTheFuture' /\ NewestReadsLater'
  BY DEF NothingFromTheFuture, NewestReadsLater
<1>4. ScreenIsLoaded'
  <2>1. selectedRepository # None => repositorySelectionGeneration \in SelectionId
    BY DEF ScreenIsLoaded, TypeOK
  <2>2. selectedRepository # None /\ g = repositorySelectionGeneration => selection'[g].at = "saving"
    BY DEF ScreenIsLoaded, IsCurrentSelection
  <2> QED
    BY <2>1, <2>2 DEF ScreenIsLoaded, target
<1>5. SpinnerHasOwner'
  BY DEF SpinnerHasOwner, IsCurrentSelection, target
<1> QED
  BY <1>1, <1>2, <1>3, <1>4, <1>5 DEF Data

\* The loads of a refresh: its critical part, and the diff that it waits for.
LEMMA CriticalKeeps ==
  ASSUME IInv, NEW g \in RefreshId, CriticalSucceeds(g) \/ CriticalFails(g) \/ DiffReturns(g)
  PROVE  /\ Data' /\ SpinnerHasOwner'
         /\ display' \in Display
         /\ selection' \in [SelectionId -> SelectionCall]
         /\ refresh' \in [RefreshId -> RefreshCall]
<1> USE DEF IInv
<1> DEFINE r == refresh[g].repo
<1>1. IsAwaited(g)
  BY DEF IsAwaited, CriticalSucceeds, CriticalFails, DiffReturns
<1>2. /\ r \in Repo /\ r # None /\ refresh[g] \in RefreshCall /\ refresh[g].since \in Version
      /\ ~refresh[g].cancelled
      /\ UNCHANGED <<version, target, screenDataRefreshGeneration, isLoading, cloning>>
  <2>1. UNCHANGED <<version, target, screenDataRefreshGeneration, isLoading, cloning>>
    BY DEF world, target, CriticalSucceeds, CriticalFails, DiffReturns
  <2>2. refresh[g] \in RefreshCall
    BY TypeFacts
  <2>3. refresh[g].at # "none" /\ ~refresh[g].cancelled
    BY <1>1 DEF AwaitedOnce, IsAwaited
  <2> QED
    BY <2>1, <2>2, <2>3, SelectionAssumption DEF CallsHaveBegun, RefreshCall
<1>3. screenDataRefreshGeneration \in {0} \cup RefreshId /\ 0 \notin RefreshId
  BY TypeFacts DEF TypeOK
<1> HIDE DEF r
\* It ends without a part of the screen.
<1>4. ASSUME NEW how \in {"over", "failed"},
             refresh' = [refresh EXCEPT ![g] = Ended(g, how)],
             Resume(refresh[g].by), UNCHANGED display,
             how = "over" => ~IsRefreshTarget(g)
      PROVE  /\ Data' /\ SpinnerHasOwner'
             /\ display' \in Display
             /\ selection' \in [SelectionId -> SelectionCall]
             /\ refresh' \in [RefreshId -> RefreshCall]
  <2>1. /\ refresh' \in [RefreshId -> RefreshCall]
        /\ refresh'[g] = Ended(g, how)
        /\ \A h \in RefreshId \ {g} : refresh'[h] = refresh[h]
    BY <1>4, EndedFacts, TypeFacts DEF TypeOK, RefreshCall
  <2>2. /\ refresh'[g].at = how /\ how \notin {"critical", "diff", "none"}
        /\ refresh'[g].repo = refresh[g].repo /\ refresh'[g].by = refresh[g].by
        /\ refresh'[g].inspection = {} /\ refresh'[g].critical = {}
        /\ refresh'[g].cancelled = FALSE
    BY <1>4, <2>1, EndedFacts
  <2>3. /\ selection' \in [SelectionId -> SelectionCall]
        /\ AwaitedOnce' /\ SpinnerHasOwner'
        /\ \A h \in SelectionId :
             /\ selection'[h].repo = selection[h].repo
             /\ selection'[h].at # "none" <=> selection[h].at # "none"
             /\ selection'[h].at \in {"refreshing", "listing", "over"} =>
                  selection[h].at \in {"refreshing", "listing", "over"}
    <3>1. ~IsAwaited(g)' /\ \A h \in RefreshId : refresh'[h].by = refresh[h].by
      BY <2>1, <2>2 DEF IsAwaited
    <3>2. \A h \in RefreshId \ {g} : /\ IsAwaited(h)' <=> IsAwaited(h)
                                     /\ IsAwaited(h) => refresh'[h].cancelled = refresh[h].cancelled
      BY <2>1 DEF IsAwaited
    <3> QED
      BY <1>1, <1>2, <1>4, <3>1, <3>2, AwaitEnds
  <2>4. ScreenIsOfSelected' /\ CarriesItsOwn' /\ NothingFromTheFuture'
    BY <1>2, <1>4, <2>1, <2>2 DEF ScreenIsOfSelected, CarriesItsOwn, NothingFromTheFuture, target
  <2>5. CallsHaveBegun'
    BY <1>1, <1>2, <2>1, <2>2, <2>3 DEF CallsHaveBegun, IsAwaited, target
  <2>6. NewestReadsLater'
    BY <1>2, <1>3, <1>4, <2>1, <2>2 DEF NewestReadsLater
  <2>7. ScreenIsLoaded'
    <3>1. selectedRepository # None => repositorySelectionGeneration \in SelectionId
      BY DEF ScreenIsLoaded, TypeOK
    <3>2. CASE how = "failed" \/ g # screenDataRefreshGeneration
      BY <1>2, <1>3, <1>4, <2>1, <2>2, <2>3, <3>1, <3>2 DEF ScreenIsLoaded, target
    <3>3. CASE how = "over" /\ g = screenDataRefreshGeneration
      BY <1>2, <1>4, <2>3, <3>1, <3>3 DEF ScreenIsLoaded, target, IsRefreshTarget
    <3> QED
      BY <1>4, <3>2, <3>3
  <2> QED
    BY <1>4, <2>1, <2>3, <2>4, <2>5, <2>6, <2>7 DEF Data, TypeOK

\* The critical part is shown.
<1>5. ASSUME CriticalSucceeds(g), IsRefreshTarget(g)
      PROVE  /\ Data' /\ SpinnerHasOwner'
             /\ display' \in Display
             /\ selection' \in [SelectionId -> SelectionCall]
             /\ refresh' \in [RefreshId -> RefreshCall]
  <2>1. PICK s \in Read(r, refresh[g].since), full \in {FALSE, managing} :
          /\ display' = [display EXCEPT !.files = {s}, !.commits = {s}, !.more = full,
                                        !.action = {s}, !.upstream = {}]
          /\ refresh' = [refresh EXCEPT ![g].at = "diff", ![g].critical = {s}, ![g].since = 0]
          /\ UNCHANGED selection
    BY <1>5 DEF CriticalSucceeds, r
  <2>2. /\ s \in Stamp /\ s.repo = r /\ s.version \in Nat
        /\ refresh[g].since <= s.version /\ s.version <= version[r]
    BY <1>2, ReadFacts
  <2>3. /\ display' \in Display
        /\ display'.tip = display.tip /\ display'.inspection = display.inspection
        /\ display'.files = {s} /\ display'.action = {s} /\ display'.upstream = {}
    <3>1. full \in BOOLEAN /\ {s} \in SUBSET Stamp
      BY <2>1, <2>2, SelectionAssumption DEF TypeOK
    <3> QED
      BY <2>1, <3>1 DEF TypeOK, Display
  <2>4. /\ refresh' \in [RefreshId -> RefreshCall]
        /\ refresh'[g].at = "diff" /\ refresh'[g].repo = r /\ refresh'[g].by = refresh[g].by
        /\ refresh'[g].inspection = refresh[g].inspection /\ refresh'[g].critical = {s}
        /\ refresh'[g].cancelled = refresh[g].cancelled
        /\ \A h \in RefreshId \ {g} : refresh'[h] = refresh[h]
    BY <1>2, <2>1, <2>2, TypeFacts DEF TypeOK, RefreshCall, r
  <2>5. /\ g = screenDataRefreshGeneration /\ selectedRepository = r
        /\ refresh[g].at = "critical"
    BY <1>5 DEF IsRefreshTarget, CriticalSucceeds, r
  <2>6. ScreenIsOfSelected' /\ CarriesItsOwn' /\ NothingFromTheFuture'
    BY <1>2, <2>2, <2>3, <2>4, <2>5 DEF ScreenIsOfSelected, CarriesItsOwn, NothingFromTheFuture, target, r
  <2>7. CallsHaveBegun'
    BY <1>1, <1>2, <2>1, <2>4 DEF CallsHaveBegun, IsAwaited, target, r
  <2>8. AwaitedOnce'
    <3>1. \A h \in RefreshId : /\ IsAwaited(h)' <=> IsAwaited(h)
                               /\ refresh'[h].by = refresh[h].by
                               /\ refresh'[h].cancelled = refresh[h].cancelled
      BY <1>1, <2>4 DEF IsAwaited
    <3> QED
      BY <2>1, <3>1 DEF AwaitedOnce
  <2>9. NewestReadsLater'
    BY <1>2, <2>2, <2>3, <2>4, <2>5 DEF NewestReadsLater
  <2>10. ScreenIsLoaded'
    BY <1>2, <2>1, <2>3, <2>4, <2>5 DEF ScreenIsLoaded, target
  <2>11. SpinnerHasOwner'
    BY <1>2, <2>1 DEF SpinnerHasOwner, IsCurrentSelection, target
  <2> QED
    BY <2>1, <2>3, <2>4, <2>6, <2>7, <2>8, <2>9, <2>10, <2>11 DEF Data, TypeOK, SelectionCall
\* The secondary task takes the place of the one before.
<1>6. ASSUME DiffReturns(g), IsRefreshTarget(g)
      PROVE  /\ Data' /\ SpinnerHasOwner'
             /\ display' \in Display
             /\ selection' \in [SelectionId -> SelectionCall]
             /\ refresh' \in [RefreshId -> RefreshCall]
  <2> DEFINE old == CancelSecondary(refresh)
  <2>1. /\ old \in [RefreshId -> RefreshCall]
        /\ \A h \in RefreshId :
             /\ old[h].at = refresh[h].at /\ old[h].repo = refresh[h].repo /\ old[h].by = refresh[h].by
             /\ old[h].inspection = refresh[h].inspection /\ old[h].critical = refresh[h].critical
             /\ refresh[h].at \notin {"secondary", "stash"} => old[h].cancelled = refresh[h].cancelled
    BY CancelSecondaryFacts
  <2>2. /\ refresh' = [old EXCEPT ![g].at = "secondary", ![g].since = version[r]]
        /\ Resume(refresh[g].by) /\ UNCHANGED display
        /\ version[r] \in Version /\ refresh[g].at = "diff"
    BY <1>2, <1>6, TypeFacts DEF DiffReturns, r
  <2> HIDE DEF old
  <2>3. /\ refresh' \in [RefreshId -> RefreshCall]
        /\ refresh'[g].at = "secondary" /\ refresh'[g].repo = r /\ refresh'[g].by = refresh[g].by
        /\ refresh'[g].inspection = refresh[g].inspection /\ refresh'[g].critical = refresh[g].critical
        /\ refresh'[g].since = version[r] /\ refresh'[g].cancelled = refresh[g].cancelled
        /\ \A h \in RefreshId \ {g} : refresh'[h] = old[h]
    BY <2>1, <2>2 DEF RefreshCall, r
  <2>4. /\ selection' \in [SelectionId -> SelectionCall]
        /\ AwaitedOnce' /\ SpinnerHasOwner'
        /\ \A h \in SelectionId :
             /\ selection'[h].repo = selection[h].repo
             /\ selection'[h].at # "none" <=> selection[h].at # "none"
             /\ selection'[h].at \in {"refreshing", "listing", "over"} =>
                  selection[h].at \in {"refreshing", "listing", "over"}
    <3>1. ~IsAwaited(g)' /\ \A h \in RefreshId : refresh'[h].by = refresh[h].by
      BY <2>1, <2>3 DEF IsAwaited
    <3>2. \A h \in RefreshId \ {g} : /\ IsAwaited(h)' <=> IsAwaited(h)
                                     /\ IsAwaited(h) => refresh'[h].cancelled = refresh[h].cancelled
      BY <2>1, <2>3 DEF IsAwaited
    <3> QED
      BY <1>1, <1>2, <2>2, <3>1, <3>2, AwaitEnds
  <2>5. g = screenDataRefreshGeneration /\ selectedRepository = r
    BY <1>6 DEF IsRefreshTarget, r
  <2>6. ScreenIsOfSelected' /\ CarriesItsOwn' /\ NothingFromTheFuture'
    BY <1>2, <2>1, <2>2, <2>3 DEF ScreenIsOfSelected, CarriesItsOwn, NothingFromTheFuture, target, r
  <2>7. CallsHaveBegun'
    BY <1>2, <2>1, <2>2, <2>3, <2>4 DEF CallsHaveBegun, target
  <2>8. NewestReadsLater'
    BY <1>2, <2>2, <2>3, <2>5 DEF NewestReadsLater, NothingFromTheFuture
  <2>9. ScreenIsLoaded'
    <3>1. selectedRepository # None => repositorySelectionGeneration \in SelectionId
      BY DEF ScreenIsLoaded, TypeOK
    <3> QED
      BY <1>2, <2>2, <2>3, <2>4, <2>5, <3>1 DEF ScreenIsLoaded, target
  <2> QED
    BY <2>2, <2>3, <2>4, <2>6, <2>7, <2>8, <2>9 DEF Data, TypeOK
<1> QED
  BY <1>4, <1>5, <1>6 DEF CriticalSucceeds, CriticalFails, DiffReturns

\* The secondary task: what it reads, and the stash.
LEMMA SecondaryKeeps ==
  ASSUME IInv, NEW g \in RefreshId, SecondaryReturns(g) \/ StashReturns(g)
  PROVE  /\ Data'
         /\ display' \in Display
         /\ refresh' \in [RefreshId -> RefreshCall]
<1> USE DEF IInv
<1> DEFINE r == refresh[g].repo
<1>1. UNCHANGED <<version, target, screenDataRefreshGeneration, selection>>
  BY DEF world, target, SecondaryReturns, StashReturns
<1>2. r \in Repo /\ r # None /\ refresh[g] \in RefreshCall /\ refresh[g].since \in Version
  <2>1. refresh[g].at # "none" /\ refresh[g] \in RefreshCall
    BY TypeFacts DEF SecondaryReturns, StashReturns
  <2> QED
    BY <2>1, SelectionAssumption DEF CallsHaveBegun, RefreshCall
<1>3. screenDataRefreshGeneration \in {0} \cup RefreshId /\ 0 \notin RefreshId
  BY TypeFacts DEF TypeOK
<1> HIDE DEF r
\* It ends: the newest refresh of the selected repository only after its stash.
<1>4. ASSUME refresh' = [refresh EXCEPT ![g] = Ended(g, "over")],
             display' \in Display,
             display'.tip = display.tip, display'.inspection = display.inspection,
             display'.files = display.files, display'.action = display.action,
             display'.upstream = display.upstream,
             ~IsAwaited(g), refresh[g].at = "stash" \/ ~IsRefreshTarget(g)
      PROVE  Data' /\ refresh' \in [RefreshId -> RefreshCall]
  <2>1. /\ refresh' \in [RefreshId -> RefreshCall]
        /\ refresh'[g] = Ended(g, "over")
        /\ \A h \in RefreshId \ {g} : refresh'[h] = refresh[h]
    BY <1>4, EndedFacts, TypeFacts DEF TypeOK, RefreshCall
  <2>2. /\ refresh'[g].at = "over"
        /\ refresh'[g].repo = refresh[g].repo /\ refresh'[g].by = refresh[g].by
        /\ refresh'[g].inspection = {} /\ refresh'[g].critical = {}
        /\ refresh'[g].cancelled = FALSE
    BY <2>1, EndedFacts
  <2>3. ScreenIsOfSelected' /\ CarriesItsOwn' /\ NothingFromTheFuture'
    BY <1>1, <1>4, <2>1, <2>2 DEF ScreenIsOfSelected, CarriesItsOwn, NothingFromTheFuture, target
  <2>4. CallsHaveBegun'
    <3>1. refresh[g].at # "none"
      BY DEF SecondaryReturns, StashReturns
    <3> QED
      BY <1>1, <2>1, <2>2, <3>1 DEF CallsHaveBegun, target
  <2>5. AwaitedOnce'
    <3>1. \A h \in RefreshId : IsAwaited(h)' <=> IsAwaited(h)
      BY <1>4, <2>1, <2>2 DEF IsAwaited
    <3>2. \A h \in RefreshId : IsAwaited(h) => h # g /\ refresh'[h] = refresh[h]
      BY <1>4, <2>1
    <3> QED
      BY <1>1, <3>1, <3>2 DEF AwaitedOnce
  <2>6. NewestReadsLater'
    BY <1>1, <1>3, <1>4, <2>1, <2>2 DEF NewestReadsLater
  <2>7. ScreenIsLoaded'
    <3>1. CASE g # screenDataRefreshGeneration
      BY <1>1, <1>3, <1>4, <2>1, <3>1 DEF ScreenIsLoaded, target
    <3>2. CASE g = screenDataRefreshGeneration
      BY <1>1, <1>4, <2>2, <3>2 DEF ScreenIsLoaded, target, IsRefreshTarget
    <3> QED
      BY <3>1, <3>2
  <2> QED
    BY <2>1, <2>3, <2>4, <2>5, <2>6, <2>7 DEF Data
\* What it has read is shown.
<1>5. ASSUME SecondaryReturns(g), IsRefreshTarget(g)
      PROVE  Data' /\ display' \in Display /\ refresh' \in [RefreshId -> RefreshCall]
  <2>1. /\ refresh' = [refresh EXCEPT ![g].at = "stash", ![g].since = version[r]]
        /\ version[r] \in Version /\ refresh[g].at = "secondary"
        /\ g = screenDataRefreshGeneration /\ selectedRepository = r
    BY <1>2, <1>5, TypeFacts DEF SecondaryReturns, IsRefreshTarget, r
  <2>2. /\ refresh' \in [RefreshId -> RefreshCall]
        /\ refresh'[g].at = "stash" /\ refresh'[g].repo = r /\ refresh'[g].by = refresh[g].by
        /\ refresh'[g].inspection = refresh[g].inspection /\ refresh'[g].critical = refresh[g].critical
        /\ refresh'[g].cancelled = refresh[g].cancelled
        /\ \A h \in RefreshId \ {g} : refresh'[h] = refresh[h]
    BY <1>2, <2>1, TypeFacts DEF TypeOK, RefreshCall, r
  <2>3. /\ display' \in Display
        /\ display'.tip = display.tip /\ display'.inspection = display.inspection
        /\ display'.files = display.files
        /\ \/ \E s \in Read(r, refresh[g].since) :
                /\ display'.action = refresh[g].critical \cup {s}
                /\ display'.upstream = IF refresh[g].inspection = {} THEN {s} ELSE refresh[g].inspection
           \/ refresh[g].cancelled /\ display'.action = {} /\ display'.upstream = {}
    <3>1. CASE refresh[g].cancelled /\ display' = [display EXCEPT !.action = {}, !.upstream = {}]
      BY <3>1 DEF TypeOK, Display
    <3>2. ASSUME NEW s \in Read(r, refresh[g].since),
                 display' = [display EXCEPT
                   !.action = refresh[g].critical \cup {s},
                   !.upstream = IF refresh[g].inspection = {} THEN {s} ELSE refresh[g].inspection]
          PROVE  /\ display' \in Display
                 /\ display'.tip = display.tip /\ display'.inspection = display.inspection
                 /\ display'.files = display.files
                 /\ display'.action = refresh[g].critical \cup {s}
                 /\ display'.upstream = IF refresh[g].inspection = {} THEN {s} ELSE refresh[g].inspection
      <4> DEFINE up == IF refresh[g].inspection = {} THEN {s} ELSE refresh[g].inspection
                 act == refresh[g].critical \cup {s}
      <4>1. s \in Stamp
        BY <1>2, ReadFacts
      <4>2. up \in SUBSET Stamp /\ act \in SUBSET Stamp
        BY <1>2, <4>1 DEF RefreshCall
      <4>3. display' = [display EXCEPT !.action = act, !.upstream = up]
        BY <3>2
      <4> HIDE DEF up, act
      <4>4. /\ display' \in Display
            /\ display'.tip = display.tip /\ display'.inspection = display.inspection
            /\ display'.files = display.files
            /\ display'.action = act /\ display'.upstream = up
        BY <4>2, <4>3 DEF TypeOK, Display
      <4> QED
        BY <4>4 DEF up, act
    <3> QED
      BY <1>5, <3>1, <3>2 DEF SecondaryReturns, r
  <2>4. \A s \in Read(r, refresh[g].since) :
          s.repo = r /\ refresh[g].since <= s.version /\ s.version <= version[r]
    BY <1>2, ReadFacts
  <2>5. ScreenIsOfSelected'
    BY <1>1, <2>1, <2>3, <2>4 DEF ScreenIsOfSelected, CarriesItsOwn, target, r
  <2>6. CarriesItsOwn' /\ NothingFromTheFuture'
    <3>1. \A s \in display'.action : s.version <= version[s.repo]
      BY <2>3, <2>4 DEF NothingFromTheFuture
    <3>2. \A h \in RefreshId : /\ refresh'[h].repo = refresh[h].repo
                               /\ refresh'[h].inspection = refresh[h].inspection
                               /\ refresh'[h].critical = refresh[h].critical
      BY <2>2 DEF r
    <3> QED
      BY <1>1, <2>3, <3>1, <3>2 DEF CarriesItsOwn, NothingFromTheFuture
  <2>7. CallsHaveBegun'
    BY <1>1, <2>1, <2>2 DEF CallsHaveBegun, target, r
  <2>8. AwaitedOnce'
    <3>1. \A h \in RefreshId : IsAwaited(h)' <=> IsAwaited(h)
      BY <2>1, <2>2 DEF IsAwaited
    <3>2. \A h \in RefreshId : refresh'[h].by = refresh[h].by /\ refresh'[h].cancelled = refresh[h].cancelled
      BY <2>2
    <3> QED
      BY <1>1, <3>1, <3>2 DEF AwaitedOnce
  <2>9. NewestReadsLater'
    BY <1>1, <2>1, <2>2 DEF NewestReadsLater
  <2>10. ScreenIsLoaded'
    <3>1. ASSUME selectedRepository # None,
                 selection[repositorySelectionGeneration].at \in {"refreshing", "listing", "over"}
          PROVE  /\ ~refresh'[g].cancelled
                 /\ display'.files # {} /\ display'.upstream # {} /\ display'.files \subseteq display'.action
      <4>1. ~refresh[g].cancelled /\ display.files # {} /\ display.files = refresh[g].critical
        BY <2>1, <3>1 DEF ScreenIsLoaded
      <4> QED
        BY <2>2, <2>3, <4>1
    <3> QED
      BY <1>1, <2>1, <2>2, <3>1 DEF ScreenIsLoaded, target
  <2> QED
    BY <2>2, <2>3, <2>5, <2>6, <2>7, <2>8, <2>9, <2>10 DEF Data
<1>6. CASE SecondaryReturns(g) /\ ~IsRefreshTarget(g)
  BY <1>4, <1>6 DEF SecondaryReturns, IsAwaited, TypeOK
<1>7. CASE StashReturns(g)
  <2>1. /\ refresh' = [refresh EXCEPT ![g] = Ended(g, "over")] /\ refresh[g].at = "stash"
        /\ \E x \in SUBSET Stamp : display' = [display EXCEPT !.stash = x]
    <3>1. \A s \in Read(refresh[g].repo, refresh[g].since) : {s} \in SUBSET Stamp
      BY <1>2, ReadFacts DEF r
    <3> QED
      BY <1>7, <3>1 DEF StashReturns
  <2>2. /\ display' \in Display
        /\ display'.tip = display.tip /\ display'.inspection = display.inspection
        /\ display'.files = display.files /\ display'.action = display.action
        /\ display'.upstream = display.upstream
    BY <2>1 DEF TypeOK, Display
  <2> QED
    BY <1>4, <2>1, <2>2 DEF IsAwaited
<1> QED
  BY <1>5, <1>6, <1>7

\* A step that changes neither the calls nor what the screen shows of the branch,
\* the files and the remote.
LEMMA ElsewhereKeeps ==
  ASSUME Data, display \in Display,
         UNCHANGED <<version, target, screenDataRefreshGeneration, selection, refresh>>,
         display'.tip = display.tip, display'.inspection = display.inspection,
         display'.files = display.files, display'.action = display.action,
         display'.upstream = display.upstream
  PROVE  Data'
BY DEF Data, target, ScreenIsOfSelected, CallsHaveBegun, AwaitedOnce, IsAwaited, CarriesItsOwn,
       NothingFromTheFuture, ScreenIsLoaded, NewestReadsLater

\* A change of a checkout makes no value newer than it.
LEMMA CheckoutKeeps ==
  ASSUME IInv, NEW r \in Repo, CheckoutChanges(r)
  PROVE  Data' /\ version' \in [Repo -> Version]
<1> USE DEF IInv
<1>1. /\ version' \in [Repo -> Version]
      /\ \A q \in Repo : version[q] <= version'[q]
  BY SelectionAssumption DEF TypeOK, CheckoutChanges, Version
<1>2. UNCHANGED <<target, screenDataRefreshGeneration, display, selection, refresh>>
  BY DEF CheckoutChanges
<1>3. \A s \in Stamp : s.repo \in Repo /\ s.version \in 0 .. MaxVersion
  BY DEF Stamp, Version
<1>4. \A s \in Stamp : s.version <= version[s.repo] => s.version <= version'[s.repo]
  BY <1>1, <1>3, SelectionAssumption DEF TypeOK, Version
<1>5. NothingFromTheFuture'
  <2>1. display.files \subseteq Stamp /\ display.action \subseteq Stamp
    BY DEF TypeOK, Display
  <2>2. \A g \in RefreshId : refresh[g].critical \subseteq Stamp
    BY TypeFacts DEF RefreshCall
  <2> QED
    BY <1>2, <1>4, <2>1, <2>2 DEF NothingFromTheFuture
<1>6. /\ ScreenIsOfSelected' /\ CallsHaveBegun' /\ AwaitedOnce' /\ CarriesItsOwn'
      /\ ScreenIsLoaded' /\ NewestReadsLater'
  BY <1>2 DEF target, ScreenIsOfSelected, CallsHaveBegun, AwaitedOnce, IsAwaited, CarriesItsOwn,
              ScreenIsLoaded, NewestReadsLater
<1> QED
  BY <1>1, <1>5, <1>6 DEF Data

\* Forgetting the selected repository leaves nothing selected and an empty screen.
LEMMA ForgettingKeeps ==
  ASSUME IInv, RemoveReturns
  PROVE  Data' /\ TypeOK' /\ SpinnerHasOwner'
<1> USE DEF IInv
<1>1. /\ selectedRepository' = None /\ display' = Blank /\ refresh' = CancelSecondary(refresh)
      /\ UNCHANGED <<version, repositorySelectionGeneration, screenDataRefreshGeneration, selection>>
  BY DEF RemoveReturns, ResetPerRepositoryState
<1>2. ScreenIsOfSelected' /\ NothingFromTheFuture' /\ NewestReadsLater'
  BY <1>1, CancelSecondaryFacts DEF ScreenIsOfSelected, NothingFromTheFuture, NewestReadsLater, Blank
<1>3. CallsHaveBegun' /\ CarriesItsOwn'
  BY <1>1, CancelSecondaryFacts DEF CallsHaveBegun, CarriesItsOwn
<1>4. AwaitedOnce'
  <2>1. \A h \in RefreshId : /\ IsAwaited(h)' <=> IsAwaited(h)
                             /\ refresh'[h].by = refresh[h].by
                             /\ IsAwaited(h) => refresh'[h].cancelled = refresh[h].cancelled
    BY <1>1, CancelSecondaryFacts DEF IsAwaited
  <2> QED
    BY <1>1, <2>1 DEF AwaitedOnce
<1>5. ScreenIsLoaded' /\ SpinnerHasOwner'
  BY <1>1 DEF ScreenIsLoaded, SpinnerHasOwner
<1>6. TypeOK'
  <2>1. Blank \in Display
    BY DEF Blank, Display
  <2>2. removal' \in [at : {"none", "removing", "promoting", "over"}, repo : Repo \cup {None}]
    BY DEF RemoveReturns, TypeOK
  <2> QED
    BY <1>1, <2>1, <2>2, CancelSecondaryFacts DEF RemoveReturns, TypeOK, RefreshCall
<1> QED
  BY <1>2, <1>3, <1>4, <1>5, <1>6 DEF Data

LEMMA NextIInv == IInv /\ [Next]_vars => IInv'
<1> SUFFICES ASSUME IInv, [Next]_vars PROVE IInv'
  OBVIOUS
<1> USE DEF IInv
<1>1. ASSUME NEW r \in Repo, Select(r)
      PROVE  IInv'
  <2>1. BeginSelection(r, isLoading) /\ UNCHANGED <<world, screenDataRefreshGeneration, paging, removal, cloning>>
    BY <1>1 DEF Select
  <2>2. UNCHANGED <<version, screenDataRefreshGeneration, cloning>>
    BY <2>1 DEF world
  <2>3. /\ Data' /\ SpinnerHasOwner'
        /\ selectedRepository' \in Repo \cup {None}
        /\ repositorySelectionGeneration' \in {0} \cup SelectionId
        /\ isLoading' \in BOOLEAN /\ display' \in Display
        /\ selection' \in [SelectionId -> SelectionCall]
        /\ refresh' \in [RefreshId -> RefreshCall]
    BY <2>1, <2>2, BeginSelectionKeeps
  <2> QED
    BY <2>1, <2>3 DEF Data, TypeOK, world, SelectionCall, RefreshCall
<1>2. ASSUME NEW r \in Repo, CloneSucceeds(r)
      PROVE  IInv'
  <2>1. /\ BeginSelection(r, FALSE) /\ cloning' = "over"
        /\ UNCHANGED <<world, screenDataRefreshGeneration, paging, removal>>
    BY <1>2 DEF CloneSucceeds
  <2>2. UNCHANGED <<version, screenDataRefreshGeneration>>
    BY <2>1 DEF world
  <2>3. /\ Data' /\ SpinnerHasOwner'
        /\ selectedRepository' \in Repo \cup {None}
        /\ repositorySelectionGeneration' \in {0} \cup SelectionId
        /\ isLoading' \in BOOLEAN /\ display' \in Display
        /\ selection' \in [SelectionId -> SelectionCall]
        /\ refresh' \in [RefreshId -> RefreshCall]
    BY <2>1, <2>2, BeginSelectionKeeps
  <2> QED
    BY <2>1, <2>3 DEF Data, TypeOK, world, SelectionCall, RefreshCall
<1>3. ASSUME Promote
      PROVE  IInv'
  <2>1. /\ removal' = [removal EXCEPT !.at = "over"]
        /\ UNCHANGED <<world, screenDataRefreshGeneration, paging, cloning>>
        /\ \/ \E r \in saved : BeginSelection(r, isLoading)
           \/ UNCHANGED <<target, isLoading, display, selection, refresh>>
    BY <1>3 DEF Promote
  <2>2. removal' \in [at : {"none", "removing", "promoting", "over"}, repo : Repo \cup {None}]
    BY <2>1 DEF TypeOK
  <2>3. CASE \E r \in saved : BeginSelection(r, isLoading)
    <3>1. PICK r \in saved : BeginSelection(r, isLoading)
      BY <2>3
    <3>2. r \in Repo /\ UNCHANGED <<version, screenDataRefreshGeneration, cloning>>
      BY <2>1 DEF TypeOK, world
    <3>3. /\ Data' /\ SpinnerHasOwner'
          /\ selectedRepository' \in Repo \cup {None}
          /\ repositorySelectionGeneration' \in {0} \cup SelectionId
          /\ isLoading' \in BOOLEAN /\ display' \in Display
          /\ selection' \in [SelectionId -> SelectionCall]
          /\ refresh' \in [RefreshId -> RefreshCall]
      BY <3>1, <3>2, BeginSelectionKeeps
    <3> QED
      BY <2>1, <2>2, <3>3 DEF Data, TypeOK, world, SelectionCall, RefreshCall
  <2>4. CASE UNCHANGED <<target, isLoading, display, selection, refresh>>
    <3>1. Data'
      BY <2>1, <2>4, DataUnchanged DEF Data, world
    <3> QED
      BY <2>1, <2>2, <2>4, <3>1 DEF Data, TypeOK, SpinnerHasOwner, IsCurrentSelection, world, target
  <2> QED
    BY <2>1, <2>3, <2>4
<1>4. ASSUME NEW r \in Repo, CheckoutChanges(r)
      PROVE  IInv'
  <2>1. UNCHANGED <<saved, managing, target, screenDataRefreshGeneration, isLoading, display, selection,
                    refresh, paging, removal, cloning>>
    BY <1>4 DEF CheckoutChanges
  <2>2. Data' /\ version' \in [Repo -> Version]
    BY <1>4, CheckoutKeeps
  <2>3. SpinnerHasOwner'
    BY <2>1 DEF SpinnerHasOwner, IsCurrentSelection, target
  <2> QED
    BY <2>1, <2>2, <2>3 DEF Data, TypeOK, target
<1>5. ASSUME NEW g \in SelectionId, InspectSucceeds(g)
      PROVE  IInv'
  <2>1. /\ selection[g].at = "inspecting"
        /\ UNCHANGED <<world, target, screenDataRefreshGeneration, isLoading, refresh, paging, removal, cloning>>
        /\ selection[g] \in SelectionCall
    BY <1>5, TypeFacts DEF InspectSucceeds
  <2>2. CASE IsCurrentSelection(g)
    <3>1. PICK s \in Read(selection[g].repo, selection[g].since) :
            /\ display' = [display EXCEPT !.inspection = {s}, !.tip = {s}]
            /\ selection' = [selection EXCEPT ![g].at = "saving", ![g].since = 0]
      BY <1>5, <2>2 DEF InspectSucceeds
    <3>2. s \in Stamp /\ s.repo = selectedRepository
      BY <2>1, <2>2, ReadFacts, CurrentFacts DEF SelectionCall
    <3>3. /\ display' \in Display
          /\ display'.files = display.files /\ display'.action = display.action
          /\ display'.upstream = display.upstream
          /\ display'.tip = {s} /\ display'.inspection = {s}
      BY <3>1, <3>2 DEF TypeOK, Display
    <3>4. /\ selection' \in [SelectionId -> SelectionCall]
          /\ selection'[g].at = "saving" /\ selection'[g].repo = selection[g].repo
          /\ \A h \in SelectionId \ {g} : selection'[h] = selection[h]
      BY <2>1, <3>1, TypeFacts DEF TypeOK, SelectionCall
    <3>5. ScreenIsOfSelected'
      BY <2>1, <3>2, <3>3 DEF ScreenIsOfSelected, target
    <3>6. Data' /\ SpinnerHasOwner'
      BY <2>1, <2>2, <3>3, <3>4, <3>5, SelectionGoesOn DEF world
    <3> QED
      BY <2>1, <3>3, <3>4, <3>6 DEF Data, TypeOK, world, target, SelectionCall
  <2>3. CASE ~IsCurrentSelection(g)
    <3>1. selection' = [selection EXCEPT ![g].at = "over", ![g].since = 0] /\ UNCHANGED display
      BY <1>5, <2>3 DEF InspectSucceeds
    <3>2. /\ selection' \in [SelectionId -> SelectionCall]
          /\ selection'[g].at = "over" /\ selection'[g].repo = selection[g].repo
          /\ \A h \in SelectionId \ {g} : selection'[h] = selection[h]
      BY <2>1, <3>1, TypeFacts DEF TypeOK, SelectionCall
    <3>3. ScreenIsOfSelected' /\ display' \in Display
      BY <2>1, <3>1 DEF ScreenIsOfSelected, TypeOK, target
    <3>4. Data' /\ SpinnerHasOwner'
      BY <2>1, <2>3, <3>1, <3>2, <3>3, SelectionGoesOn DEF world
    <3> QED
      BY <2>1, <3>1, <3>2, <3>4 DEF Data, TypeOK, world, target, SelectionCall
  <2> QED
    BY <2>2, <2>3
<1>6. ASSUME NEW g \in SelectionId, SelectionFails(g)
      PROVE  IInv'
  <2>1. /\ selection[g].at \in {"inspecting", "saving"}
        /\ UNCHANGED <<world, target, isLoading, paging, removal, cloning>>
        /\ selection[g] \in SelectionCall
    BY <1>6, TypeFacts DEF SelectionFails
  <2>2. CASE IsCurrentSelection(g)
    <3>1. /\ display' = [display EXCEPT !.tip = {}]
          /\ BeginRefresh(selection[g].repo, g, display.inspection)
          /\ selection' = [selection EXCEPT ![g].at = "refreshing", ![g].since = 0]
      BY <1>6, <2>2 DEF SelectionFails
    <3>2. /\ selection' \in [SelectionId -> SelectionCall]
          /\ selection'[g].at = "refreshing" /\ selection'[g].repo = selection[g].repo
          /\ \A h \in SelectionId \ {g} : selection'[h] = selection[h]
      BY <2>1, <3>1, TypeFacts DEF TypeOK, SelectionCall
    <3>3. g = repositorySelectionGeneration /\ g # 0 /\ selection[g].repo = selectedRepository
          /\ selectedRepository # None
      BY <2>1, <2>2, CurrentFacts
    <3>4. /\ Data' /\ SpinnerHasOwner'
          /\ screenDataRefreshGeneration' \in {0} \cup RefreshId
          /\ display' \in Display
          /\ refresh' \in [RefreshId -> RefreshCall]
      BY <2>1, <3>1, <3>2, <3>3, BeginRefreshKeeps DEF world
    <3> QED
      BY <2>1, <3>2, <3>4 DEF Data, TypeOK, world, target, SelectionCall, RefreshCall
  <2>3. CASE ~IsCurrentSelection(g)
    <3>1. /\ selection' = [selection EXCEPT ![g].at = "over", ![g].since = 0]
          /\ UNCHANGED <<display, refresh, screenDataRefreshGeneration>>
      BY <1>6, <2>3 DEF SelectionFails
    <3>2. /\ selection' \in [SelectionId -> SelectionCall]
          /\ selection'[g].at = "over" /\ selection'[g].repo = selection[g].repo
          /\ \A h \in SelectionId \ {g} : selection'[h] = selection[h]
      BY <2>1, <3>1, TypeFacts DEF TypeOK, SelectionCall
    <3>3. ScreenIsOfSelected' /\ display' \in Display
      BY <2>1, <3>1 DEF ScreenIsOfSelected, TypeOK, target
    <3>4. Data' /\ SpinnerHasOwner'
      BY <2>1, <2>3, <3>1, <3>2, <3>3, SelectionGoesOn DEF world
    <3> QED
      BY <2>1, <3>1, <3>2, <3>4 DEF Data, TypeOK, world, target, SelectionCall
  <2> QED
    BY <2>2, <2>3
<1>7. ASSUME NEW g \in SelectionId, SaveSucceeds(g)
      PROVE  IInv'
  <2>1. /\ selection[g].at = "saving"
        /\ saved' = saved \cup {selection[g].repo}
        /\ UNCHANGED <<version, managing, target, isLoading, display, paging, removal, cloning>>
        /\ selection[g] \in SelectionCall /\ selection[g].repo \in Repo
    BY <1>7, TypeFacts DEF SaveSucceeds, CallsHaveBegun
  <2>2. CASE IsCurrentSelection(g)
    <3>1. /\ BeginRefresh(selection[g].repo, g, display.inspection)
          /\ selection' = [selection EXCEPT ![g].at = "refreshing"]
      BY <1>7, <2>2 DEF SaveSucceeds
    <3>2. /\ selection' \in [SelectionId -> SelectionCall]
          /\ selection'[g].at = "refreshing" /\ selection'[g].repo = selection[g].repo
          /\ \A h \in SelectionId \ {g} : selection'[h] = selection[h]
      BY <2>1, <3>1, TypeFacts DEF TypeOK, SelectionCall
    <3>3. g = repositorySelectionGeneration /\ g # 0 /\ selection[g].repo = selectedRepository
          /\ selectedRepository # None
      BY <2>1, <2>2, CurrentFacts
    <3>4. /\ Data' /\ SpinnerHasOwner'
          /\ screenDataRefreshGeneration' \in {0} \cup RefreshId
          /\ display' \in Display
          /\ refresh' \in [RefreshId -> RefreshCall]
      BY <2>1, <3>1, <3>2, <3>3, BeginRefreshKeeps
    <3> QED
      BY <2>1, <3>2, <3>4 DEF Data, TypeOK, target, SelectionCall, RefreshCall
  <2>3. CASE ~IsCurrentSelection(g)
    <3>1. /\ selection' = [selection EXCEPT ![g].at = "over"]
          /\ UNCHANGED <<refresh, screenDataRefreshGeneration>>
      BY <1>7, <2>3 DEF SaveSucceeds
    <3>2. /\ selection' \in [SelectionId -> SelectionCall]
          /\ selection'[g].at = "over" /\ selection'[g].repo = selection[g].repo
          /\ \A h \in SelectionId \ {g} : selection'[h] = selection[h]
      BY <2>1, <3>1, TypeFacts DEF TypeOK, SelectionCall
    <3>3. ScreenIsOfSelected' /\ display' \in Display
      BY <2>1 DEF ScreenIsOfSelected, TypeOK, target
    <3>4. Data' /\ SpinnerHasOwner'
      BY <2>1, <2>3, <3>1, <3>2, <3>3, SelectionGoesOn
    <3> QED
      BY <2>1, <3>1, <3>2, <3>4 DEF Data, TypeOK, target, SelectionCall
  <2> QED
    BY <2>2, <2>3
<1>8. ASSUME NEW g \in SelectionId, ListReturns(g)
      PROVE  IInv'
  <2>1. /\ selection[g].at = "listing"
        /\ selection' = [selection EXCEPT ![g].at = "over"]
        /\ isLoading' = IF IsCurrentSelection(g) THEN FALSE ELSE isLoading
        /\ UNCHANGED <<version, saved, managing, target, screenDataRefreshGeneration, display, refresh, paging,
                       removal, cloning>>
        /\ selection[g] \in SelectionCall
    BY <1>8, TypeFacts DEF ListReturns, world
  <2>2. /\ selection' \in [SelectionId -> SelectionCall]
        /\ selection'[g].at = "over" /\ selection'[g].repo = selection[g].repo
        /\ \A h \in SelectionId \ {g} : selection'[h] = selection[h]
    BY <2>1, TypeFacts DEF TypeOK, SelectionCall
  <2>3. SpinnerHasOwner'
    <3>1. CASE IsCurrentSelection(g)
      BY <2>1, <3>1 DEF SpinnerHasOwner
    <3>2. CASE ~IsCurrentSelection(g)
      <4>1. isLoading' = isLoading
        BY <2>1, <3>2
      <4> QED
        BY <2>1, <2>2, <3>2, <4>1 DEF SpinnerHasOwner, IsCurrentSelection, target
    <3> QED
      BY <3>1, <3>2
  <2>4. ScreenIsOfSelected' /\ NothingFromTheFuture' /\ NewestReadsLater' /\ CarriesItsOwn'
    BY <2>1 DEF ScreenIsOfSelected, NothingFromTheFuture, NewestReadsLater, CarriesItsOwn, target
  <2>5. CallsHaveBegun'
    BY <2>1, <2>2 DEF CallsHaveBegun, target
  <2>6. AwaitedOnce'
    <3>1. \A h \in RefreshId : refresh[h].by \in {0} \cup SelectionId
      BY TypeFacts DEF RefreshCall
    <3> QED
      BY <2>1, <2>2, <3>1 DEF AwaitedOnce, IsAwaited
  <2>7. ScreenIsLoaded'
    <3>1. selectedRepository # None => repositorySelectionGeneration \in SelectionId
      BY DEF ScreenIsLoaded, TypeOK
    <3> QED
      BY <2>1, <2>2, <3>1 DEF ScreenIsLoaded, target
  <2>8. isLoading' \in BOOLEAN
    BY <2>1 DEF TypeOK
  <2> QED
    BY <2>1, <2>2, <2>3, <2>4, <2>5, <2>6, <2>7, <2>8 DEF TypeOK, target, SelectionCall
<1>9. ASSUME Refresh
      PROVE  IInv'
  <2>1. /\ selectedRepository # None
        /\ BeginRefresh(selectedRepository, 0, display.inspection)
        /\ UNCHANGED <<world, target, isLoading, display, selection, paging, removal, cloning>>
    BY <1>9 DEF Refresh
  <2>2. /\ Data' /\ SpinnerHasOwner'
        /\ screenDataRefreshGeneration' \in {0} \cup RefreshId
        /\ display' \in Display
        /\ refresh' \in [RefreshId -> RefreshCall]
    BY <2>1, BeginRefreshKeeps DEF world
  <2> QED
    BY <2>1, <2>2 DEF Data, TypeOK, world, target, RefreshCall
<1>10. ASSUME NEW g \in RefreshId, CriticalSucceeds(g) \/ CriticalFails(g) \/ DiffReturns(g)
       PROVE  IInv'
  <2>1. UNCHANGED <<world, target, screenDataRefreshGeneration, isLoading, paging, removal, cloning>>
    BY <1>10 DEF CriticalSucceeds, CriticalFails, DiffReturns
  <2>2. /\ Data' /\ SpinnerHasOwner'
        /\ display' \in Display
        /\ selection' \in [SelectionId -> SelectionCall]
        /\ refresh' \in [RefreshId -> RefreshCall]
    BY <1>10, CriticalKeeps
  <2> QED
    BY <2>1, <2>2 DEF Data, TypeOK, world, target, SelectionCall, RefreshCall
<1>11. ASSUME NEW g \in RefreshId, SecondaryReturns(g) \/ StashReturns(g)
       PROVE  IInv'
  <2>1. UNCHANGED <<world, target, screenDataRefreshGeneration, isLoading, selection, paging, removal, cloning>>
    BY <1>11 DEF SecondaryReturns, StashReturns
  <2>2. Data' /\ display' \in Display /\ refresh' \in [RefreshId -> RefreshCall]
    BY <1>11, SecondaryKeeps
  <2> QED
    BY <2>1, <2>2 DEF Data, TypeOK, world, target, RefreshCall, SpinnerHasOwner, IsCurrentSelection
<1>12. ASSUME MoreReturns
       PROVE  IInv'
  <2>1. /\ paging.on /\ paging' = [on |-> FALSE]
        /\ UNCHANGED <<world, target, screenDataRefreshGeneration, isLoading, selection, refresh, removal, cloning>>
        /\ \/ \E s \in Read(paging.repo, paging.since), full \in {FALSE, managing} :
                display' = [display EXCEPT !.commits = @ \cup {s}, !.more = full]
           \/ display' = [display EXCEPT !.more = FALSE]
    BY <1>12 DEF MoreReturns
  <2>2. paging.repo \in Repo /\ paging.since \in Version
    <3>1. CASE paging \in [on : BOOLEAN, repo : Repo, since : Version]
      BY <3>1
    <3>2. CASE paging = [on |-> FALSE]
      BY <2>1, <3>2
    <3> QED
      BY <3>1, <3>2 DEF TypeOK
  <2>3. \E x \in SUBSET Stamp, full \in BOOLEAN :
          display' = [display EXCEPT !.commits = x, !.more = full]
    <3>1. display.commits \in SUBSET Stamp /\ managing \in BOOLEAN
      BY SelectionAssumption DEF TypeOK, Display
    <3>2. CASE display' = [display EXCEPT !.more = FALSE]
      <4>1. display' = [display EXCEPT !.commits = display.commits, !.more = FALSE]
        BY <3>2 DEF TypeOK, Display
      <4> QED
        BY <3>1, <4>1
    <3>3. ASSUME NEW s \in Read(paging.repo, paging.since), NEW full \in {FALSE, managing},
                 display' = [display EXCEPT !.commits = @ \cup {s}, !.more = full]
          PROVE  \E x \in SUBSET Stamp, b \in BOOLEAN :
                   display' = [display EXCEPT !.commits = x, !.more = b]
      <4>1. s \in Stamp
        BY <2>2, ReadFacts
      <4>2. display.commits \cup {s} \in SUBSET Stamp /\ full \in BOOLEAN
        BY <3>1, <4>1
      <4> QED
        BY <3>3, <4>2
    <3> QED
      BY <2>1, <3>2, <3>3
  <2>4. /\ display' \in Display
        /\ display'.tip = display.tip /\ display'.inspection = display.inspection
        /\ display'.files = display.files /\ display'.action = display.action
        /\ display'.upstream = display.upstream
    BY <2>3 DEF TypeOK, Display
  <2>5. Data'
    BY <2>1, <2>4, ElsewhereKeeps DEF Data, TypeOK, world
  <2> QED
    BY <2>1, <2>4, <2>5 DEF Data, TypeOK, world, target, SpinnerHasOwner, IsCurrentSelection
<1>13. ASSUME RemoveReturns
       PROVE  IInv'
  BY <1>13, ForgettingKeeps DEF Data
<1>14. ASSUME LoadMore \/ Remove \/ RemoveFails \/ Clone \/ CloneFails
       PROVE  IInv'
  <2>1. UNCHANGED <<world, target, screenDataRefreshGeneration, display, selection, refresh>>
    BY <1>14 DEF LoadMore, Remove, RemoveFails, Clone, CloneFails
  <2>2. Data'
    BY <2>1, DataUnchanged DEF Data, world
  <2>3. SpinnerHasOwner' /\ isLoading' \in BOOLEAN
    <3>1. CASE LoadMore \/ Remove \/ RemoveFails
      BY <2>1, <3>1 DEF LoadMore, Remove, RemoveFails, SpinnerHasOwner, IsCurrentSelection, target, TypeOK
    <3>2. CASE Clone
      BY <3>2 DEF Clone, SpinnerHasOwner
    <3>3. CASE CloneFails
      BY <3>3 DEF CloneFails, SpinnerHasOwner
    <3> QED
      BY <1>14, <3>1, <3>2, <3>3
  <2>4. cloning' \in {"none", "running", "over"}
    BY <1>14 DEF LoadMore, Remove, RemoveFails, Clone, CloneFails, TypeOK
  <2>5. paging' \in [on : BOOLEAN, repo : Repo, since : Version] \cup {[on |-> FALSE]}
    <3>1. CASE LoadMore
      <4>1. /\ paging' = [on |-> TRUE, repo |-> selectedRepository, since |-> version[selectedRepository]]
            /\ selectedRepository \in Repo
        BY <3>1 DEF LoadMore, TypeOK
      <4> QED
        BY <4>1, TypeFacts
    <3>2. CASE ~LoadMore
      BY <1>14, <3>2 DEF Remove, RemoveFails, Clone, CloneFails, TypeOK
    <3> QED
      BY <3>1, <3>2
  <2>6. removal' \in [at : {"none", "removing", "promoting", "over"}, repo : Repo \cup {None}]
    BY <1>14 DEF LoadMore, Remove, RemoveFails, Clone, CloneFails, TypeOK
  <2> QED
    BY <2>1, <2>2, <2>3, <2>4, <2>5, <2>6 DEF Data, TypeOK, world, target
<1>15. CASE UNCHANGED vars
  <2>1. UNCHANGED <<version, target, screenDataRefreshGeneration, display, selection, refresh>>
    BY <1>15 DEF vars, world
  <2>2. Data'
    BY <2>1, DataUnchanged DEF Data
  <2> QED
    BY <1>15, <2>2 DEF Data, vars, world, target, TypeOK, SpinnerHasOwner, IsCurrentSelection
<1> QED
  BY <1>1, <1>2, <1>3, <1>4, <1>5, <1>6, <1>7, <1>8, <1>9, <1>10, <1>11, <1>12, <1>13, <1>14, <1>15 DEF Next

-----------------------------------------------------------------------------
(* What follows.                                                           *)

\* IInv holds in every state that the view model can reach.
THEOREM Invariance == Spec => []IInv
BY InitIInv, NextIInv, PTL DEF Spec

\* The state of the selection and of the screen keeps its type.
THEOREM TypeCorrect == Spec => []TypeOK
<1>1. IInv => TypeOK
  BY DEF IInv
<1> QED
  BY <1>1, Invariance, PTL

\* The branch, the files and the remote on the screen are of the selected repository.
THEOREM ScreenNeverMixes == Spec => []ScreenIsOfSelected
<1>1. IInv => ScreenIsOfSelected
  BY DEF IInv
<1> QED
  BY <1>1, Invariance, PTL

\* The spinner of a selected repository has somebody who will take it back.
THEOREM SpinnerIsOwned == Spec => []SpinnerHasOwner
<1>1. IInv => SpinnerHasOwner
  BY DEF IInv
<1> QED
  BY <1>1, Invariance, PTL

\* With all calls back, the selected repository is on the screen as the newest
\* refresh has read it, or that refresh failed.
THEOREM QuietIsLoaded == Spec => []QuietMeansLoaded
<1>1. IInv => QuietMeansLoaded
  <2> SUFFICES ASSUME IInv, ~Awaiting, selectedRepository # None
               PROVE  /\ ~isLoading
                      /\ screenDataRefreshGeneration # 0
                      /\ LET last == refresh[screenDataRefreshGeneration] IN
                         /\ last.repo = selectedRepository
                         /\ last.at # "failed" => /\ display.files # {} /\ display.upstream # {}
                                                  /\ display.files \subseteq display.action
    BY DEF QuietMeansLoaded
  <2> USE DEF IInv
  <2> DEFINE g == repositorySelectionGeneration
             h == screenDataRefreshGeneration
  <2>1. /\ g \in SelectionId /\ g \in Nat
        /\ selection[g].repo = selectedRepository
    BY SelectionAssumption DEF ScreenIsLoaded, TypeOK, SelectionId
  <2>2. selection[g].at = "over"
    <3>1. selection[g].at # "none"
      BY <2>1 DEF CallsHaveBegun
    <3> QED
      BY <2>1, <3>1 DEF Awaiting
  <2>3. /\ h # 0 /\ refresh[h].repo = selectedRepository
        /\ refresh[h].at \in {"stash", "over"} => /\ display.files # {} /\ display.upstream # {}
                                                  /\ display.files \subseteq display.action
    BY <2>2 DEF ScreenIsLoaded
  <2>4. refresh[h].at \in {"over", "failed"}
    <3>1. h \in RefreshId /\ h \in Nat
      BY <2>3, SelectionAssumption DEF TypeOK, RefreshId
    <3>2. refresh[h].at # "none"
      BY <3>1 DEF CallsHaveBegun
    <3> QED
      BY <3>1, <3>2 DEF Awaiting
  <2>5. ~isLoading
    <3>1. ASSUME NEW k \in SelectionId, selection[k].at # "over", IsCurrentSelection(k)
          PROVE  FALSE
      BY <2>2, <3>1 DEF IsCurrentSelection
    <3>2. cloning # "running"
      BY DEF Awaiting
    <3> QED
      BY <3>1, <3>2 DEF SpinnerHasOwner
  <2> QED
    BY <2>3, <2>4, <2>5
<1> QED
  BY <1>1, Invariance, PTL

NoStepBack ==
  \A field \in {"files", "action"} :
    \A s \in display[field], t \in display'[field] \ display[field] :
      s.repo = t.repo => s.version <= t.version

\* Only the newest refresh writes the files and the remote, its critical part and
\* then its secondary one; each reads later than what it replaces.
LEMMA StepNeverGoesBack == IInv /\ [Next]_vars => NoStepBack
<1> SUFFICES ASSUME IInv, [Next]_vars PROVE NoStepBack
  OBVIOUS
<1> USE DEF IInv
<1>1. ASSUME NEW g \in RefreshId, CriticalSucceeds(g), IsRefreshTarget(g)
      PROVE  NoStepBack
  <2>1. /\ refresh[g].repo \in Repo /\ refresh[g].since \in Version
        /\ refresh[g].at = "critical" /\ g = screenDataRefreshGeneration /\ g # 0
    BY <1>1, TypeFacts DEF CriticalSucceeds, CallsHaveBegun, IsRefreshTarget, RefreshCall
  <2>2. PICK s \in Read(refresh[g].repo, refresh[g].since), full \in {FALSE, managing} :
          display' = [display EXCEPT !.files = {s}, !.commits = {s}, !.more = full,
                                     !.action = {s}, !.upstream = {}]
    BY <1>1 DEF CriticalSucceeds
  <2>3. /\ s.repo = refresh[g].repo /\ s.version \in Nat /\ refresh[g].since <= s.version
    BY <2>1, ReadFacts
  <2>4. display'.files = {s} /\ display'.action = {s}
    BY <2>2 DEF TypeOK, Display
  <2>5. \A u \in display.files \cup display.action : u.repo = s.repo => u.version <= refresh[g].since
    BY <2>1, <2>3 DEF NewestReadsLater
  <2>6. \A u \in display.files \cup display.action : u.version \in Nat
    BY SelectionAssumption DEF TypeOK, Display, Stamp, Version
  <2>7. refresh[g].since \in Nat
    BY <2>1, SelectionAssumption DEF Version
  <2>8. \A u \in display.files \cup display.action : u.repo = s.repo => u.version <= s.version
    BY <2>3, <2>5, <2>6, <2>7
  <2> QED
    BY <2>4, <2>8 DEF NoStepBack
<1>2. ASSUME NEW g \in RefreshId, SecondaryReturns(g), IsRefreshTarget(g)
      PROVE  NoStepBack
  <2>1. /\ refresh[g].repo \in Repo /\ refresh[g].since \in Version
        /\ refresh[g].at = "secondary" /\ g = screenDataRefreshGeneration /\ g # 0
    BY <1>2, TypeFacts DEF SecondaryReturns, CallsHaveBegun, IsRefreshTarget, RefreshCall
  <2>2. /\ display'.files = display.files
        /\ \/ \E s \in Read(refresh[g].repo, refresh[g].since) :
                display'.action = refresh[g].critical \cup {s}
           \/ display'.action = {}
    BY <1>2 DEF SecondaryReturns, TypeOK, Display
  <2>3. \A u \in display.action, t \in refresh[g].critical : u.repo = t.repo => u.version <= t.version
    BY <2>1 DEF NewestReadsLater
  <2>4. ASSUME NEW s \in Read(refresh[g].repo, refresh[g].since), NEW u \in display.action, u.repo = s.repo
        PROVE  u.version <= s.version
    <3>1. /\ s.repo = refresh[g].repo /\ s.version \in Nat /\ refresh[g].since <= s.version
      BY <2>1, ReadFacts
    <3>2. u.version <= refresh[g].since
      BY <2>1, <2>4, <3>1 DEF NewestReadsLater
    <3>3. u.version \in Nat /\ refresh[g].since \in Nat
      BY <2>1, SelectionAssumption DEF TypeOK, Display, Stamp, Version
    <3> QED
      BY <3>1, <3>2, <3>3
  <2> QED
    BY <2>2, <2>3, <2>4 DEF NoStepBack
<1>3. CASE display' = Blank
  BY <1>3 DEF NoStepBack, Blank
<1>4. CASE display'.files = display.files /\ display'.action = display.action
  BY <1>4 DEF NoStepBack
<1>5. CASE \E r \in Repo : Select(r) \/ CloneSucceeds(r) \/ CheckoutChanges(r)
  BY <1>3, <1>4, <1>5 DEF Select, CloneSucceeds, CheckoutChanges, BeginSelection, ResetPerRepositoryState
<1>6. CASE Promote \/ RemoveReturns
  BY <1>3, <1>4, <1>6 DEF Promote, RemoveReturns, BeginSelection, ResetPerRepositoryState
<1>7. CASE \E g \in SelectionId : InspectSucceeds(g) \/ SelectionFails(g) \/ SaveSucceeds(g) \/ ListReturns(g)
  BY <1>4, <1>7 DEF InspectSucceeds, SelectionFails, SaveSucceeds, ListReturns, TypeOK, Display
<1>8. CASE \E g \in RefreshId : /\ ~IsRefreshTarget(g)
                                /\ CriticalSucceeds(g) \/ SecondaryReturns(g)
  BY <1>4, <1>8 DEF CriticalSucceeds, SecondaryReturns
<1>9. CASE \E g \in RefreshId : CriticalFails(g) \/ DiffReturns(g) \/ StashReturns(g)
  BY <1>4, <1>9 DEF CriticalFails, DiffReturns, StashReturns, TypeOK, Display
<1>10. CASE MoreReturns
  BY <1>4, <1>10 DEF MoreReturns, TypeOK, Display
<1>11. CASE Refresh \/ LoadMore \/ Remove \/ RemoveFails \/ Clone \/ CloneFails \/ UNCHANGED vars
  BY <1>4, <1>11 DEF Refresh, LoadMore, Remove, RemoveFails, Clone, CloneFails, vars
<1> QED
  BY <1>1, <1>2, <1>5, <1>6, <1>7, <1>8, <1>9, <1>10, <1>11 DEF Next

\* A refresh that comes back late never takes the screen back to an older state of
\* the repository.
THEOREM NeverGoesBack == Spec => RefreshNeverGoesBack
<1>1. IInv /\ [Next]_vars => [NoStepBack]_vars
  BY StepNeverGoesBack
<1>2. Spec => [][NoStepBack]_vars
  BY <1>1, Invariance, PTL DEF Spec
<1> QED
  BY <1>2 DEF RefreshNeverGoesBack, NoStepBack
=============================================================================
