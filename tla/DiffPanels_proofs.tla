-------------------------- MODULE DiffPanels_proofs --------------------------
(***************************************************************************)
(* Proofs about the two panels that show a diff, DiffPanel and             *)
(* HistoryPanel: for any repositories, files and histories, and any number *)
(* of edits, of requests and of tasks.                                     *)
(***************************************************************************)
EXTENDS DiffPanel, HistoryPanel, WellFoundedInduction, TLAPS

-----------------------------------------------------------------------------
(* DiffPanel.                                                              *)

\* A load is known by its request, and its key holds the edits that it began with; the
\* one that is current is of the selected repository, and the last requested.
LoadsOK ==
  /\ \A l \in diffLoads : /\ l.id <= diffRequestID /\ l.since = l.key.edit
                          /\ IsCurrentDiffRequest(l) => l.key.repo = selectedRepository /\ l.since = requested
  /\ \A l, m \in diffLoads : l.id = m.id => l = m

\* The cache is of the selected repository, and holds for each key the diff of its
\* file, not older than the key.
CacheOK ==
  \A k \in DOMAIN diffCache :
    /\ k.repo = selectedRepository
    /\ diffCache[k] # Blank => /\ diffCache[k].repo = k.repo /\ diffCache[k].path = k.path
                               /\ diffCache[k].edit >= k.edit

\* What is listed is of a repository.
ListOK == listedFiles # {} => selectedRepository # None

DiffIInv ==
  /\ DiffTypeOK /\ selectedRepository \in Repo \cup {None}
  /\ LoadsOK /\ CacheOK /\ ListOK
  /\ DiffIsOfSelection /\ DiffIsFresh /\ SpinnerShowsLoad

-----------------------------------------------------------------------------
(* Loads and the cache.                                                    *)

\* A load that is cancelled is as it was, but not current.
LEMMA CancelledFacts ==
  ASSUME NEW l \in DiffLoad
  PROVE  /\ [l EXCEPT !.cancelled = TRUE] \in DiffLoad
         /\ [l EXCEPT !.cancelled = TRUE].id = l.id /\ [l EXCEPT !.cancelled = TRUE].key = l.key
         /\ [l EXCEPT !.cancelled = TRUE].since = l.since /\ [l EXCEPT !.cancelled = TRUE].cancelled
BY DEF DiffLoad

\* All loads being cancelled, there are as many, and none is current.
LEMMA AllCancelled ==
  ASSUME DiffTypeOK
  PROVE  /\ Cancelled \in SUBSET DiffLoad
         /\ \A m \in Cancelled : m.cancelled /\ \E l \in diffLoads : /\ m.id = l.id /\ m.key = l.key
                                                                     /\ m.since = l.since
                                                                     /\ m = [l EXCEPT !.cancelled = TRUE]
BY CancelledFacts DEF Cancelled, DiffTypeOK

\* They are known by their requests if the loads were.
LEMMA CancelledAreUnique ==
  ASSUME DiffTypeOK, \A l, m \in diffLoads : l.id = m.id => l = m
  PROVE  \A l, m \in Cancelled : l.id = m.id => l = m
<1> SUFFICES ASSUME NEW l \in Cancelled, NEW m \in Cancelled, l.id = m.id PROVE l = m
  OBVIOUS
<1>1. PICK a \in diffLoads : l = [a EXCEPT !.cancelled = TRUE]
  BY DEF Cancelled
<1>2. PICK b \in diffLoads : m = [b EXCEPT !.cancelled = TRUE]
  BY DEF Cancelled
<1>3. a.id = b.id
  BY <1>1, <1>2, CancelledFacts DEF DiffTypeOK
<1> QED BY <1>1, <1>2, <1>3

\* A document that is added to the cache.
LEMMA CacheGrows ==
  ASSUME DiffIInv, NEW k \in DiffKey, k.repo = selectedRepository, NEW d \in Document,
         d # Blank => d.repo = k.repo /\ d.path = k.path /\ d.edit >= k.edit,
         diffCache' = CacheWith(k, d), selectedRepository' = selectedRepository
  PROVE  /\ DOMAIN diffCache' \subseteq DiffKey /\ \A j \in DOMAIN diffCache' : diffCache'[j] \in Document
         /\ CacheOK'
<1>1. /\ DOMAIN diffCache' = DOMAIN diffCache \cup {k}
      /\ \A j \in DOMAIN diffCache' : diffCache'[j] = IF j = k THEN d ELSE diffCache[j]
  BY DEF CacheWith
<1>2. DOMAIN diffCache \subseteq DiffKey /\ \A j \in DOMAIN diffCache : diffCache[j] \in Document
  BY DEF DiffIInv, DiffTypeOK
<1>3. CacheOK
  BY DEF DiffIInv
<1> QED BY <1>1, <1>2, <1>3 DEF CacheOK

\* A request takes the next number.
LEMMA RequestFacts ==
  ASSUME DiffTypeOK, NewRequest
  PROVE  /\ diffRequestID' \in 1 .. MaxRequests /\ diffRequestID' \in 0 .. MaxRequests
         /\ diffRequestID' > diffRequestID /\ diffRequestID' \in Nat /\ diffRequestID \in Nat
BY DiffAssumption DEF DiffTypeOK, NewRequest

\* When all loads are cancelled, or stay, under a new request, none is current.
LEMMA NoneIsCurrent ==
  ASSUME DiffIInv, NewRequest,
         diffLoads' \in {diffLoads, Cancelled}
  PROVE  /\ diffLoads' \in SUBSET DiffLoad
         /\ \A l \in diffLoads' : /\ l.id < diffRequestID' /\ l.id <= diffRequestID' /\ l.since = l.key.edit
                                  /\ ~IsCurrentDiffRequest(l)'
         /\ \A l, m \in diffLoads' : l.id = m.id => l = m
<1>1. /\ \A l \in diffLoads : l.id <= diffRequestID /\ l.since = l.key.edit /\ l.id \in Nat
      /\ \A l, m \in diffLoads : l.id = m.id => l = m
      /\ diffLoads \in SUBSET DiffLoad
  BY DEF DiffIInv, LoadsOK, DiffTypeOK, DiffLoad
<1>2. diffRequestID' > diffRequestID /\ diffRequestID' \in Nat /\ diffRequestID \in Nat
  BY RequestFacts DEF DiffIInv
<1>3. CASE diffLoads' = diffLoads
  BY <1>1, <1>2, <1>3 DEF IsCurrentDiffRequest
<1>4. CASE diffLoads' = Cancelled
  <2>1. /\ Cancelled \in SUBSET DiffLoad
        /\ \A m \in Cancelled : m.cancelled /\ \E l \in diffLoads : /\ m.id = l.id /\ m.key = l.key
                                                                     /\ m.since = l.since
                                                                     /\ m = [l EXCEPT !.cancelled = TRUE]
    BY AllCancelled DEF DiffIInv
  <2>2. \A l, m \in Cancelled : l.id = m.id => l = m
    BY <1>1, CancelledAreUnique DEF DiffIInv
  <2>3. \A l \in Cancelled : l.id < diffRequestID' /\ l.id <= diffRequestID' /\ l.since = l.key.edit
    BY <1>1, <1>2, <2>1
  <2>4. \A l \in diffLoads' : ~IsCurrentDiffRequest(l)'
    BY <1>4, <2>1 DEF IsCurrentDiffRequest
  <2> QED BY <1>4, <2>1, <2>2, <2>3, <2>4
<1> QED BY <1>3, <1>4

\* A file is loaded: its diff is shown from the cache, or a load for it is the one that
\* is current.
LEMMA ScheduleKeeps ==
  ASSUME DiffIInv, NEW f \in File, NEW u \in BOOLEAN, selectedRepository \in Repo, ScheduleLoad(f, u),
         UNCHANGED <<selectedRepository, edits, diffCache>>
  PROVE  /\ selectedFilePath' = f /\ diffRequestID' \in 0 .. MaxRequests
         /\ selectedDiffDocument' \in Document /\ isLoadingDiff' \in BOOLEAN
         /\ diffLoads' \in SUBSET DiffLoad /\ requested' \in 0 .. MaxEdits
         /\ LoadsOK' /\ DiffIsOfSelection' /\ DiffIsFresh' /\ SpinnerShowsLoad'
<1> DEFINE key == CacheKey(f, u)
           now == edits[selectedRepository][f]
           new == [id |-> diffRequestID', key |-> key, cancelled |-> FALSE, since |-> now]
<1>1. NewRequest /\ selectedFilePath' = f /\ requested' = now
  BY DEF ScheduleLoad
<1>2. now \in 0 .. MaxEdits
  BY DEF DiffIInv, DiffTypeOK
<1>3. /\ key \in DiffKey /\ key.repo = selectedRepository /\ key.path = f /\ key.edit = now
      /\ key.untracked = u
  BY <1>2 DEF CacheKey, DiffKey
<1>4. /\ diffRequestID' \in 1 .. MaxRequests /\ diffRequestID' \in 0 .. MaxRequests
      /\ diffRequestID' \in Nat
  BY <1>1, RequestFacts DEF DiffIInv
<1>5. CASE key \in DOMAIN diffCache
  <2>1. /\ selectedDiffDocument' = diffCache[key] /\ isLoadingDiff' = FALSE
        /\ diffLoads' = Cancelled
    BY <1>5 DEF ScheduleLoad
  <2>2. /\ diffLoads' \in SUBSET DiffLoad
        /\ \A l \in diffLoads' : /\ l.id <= diffRequestID' /\ l.since = l.key.edit
                                 /\ ~IsCurrentDiffRequest(l)'
        /\ \A l, m \in diffLoads' : l.id = m.id => l = m
    BY <1>1, <2>1, NoneIsCurrent
  <2>3. /\ diffCache[key] \in Document
        /\ diffCache[key] # Blank => /\ diffCache[key].repo = selectedRepository
                                     /\ diffCache[key].path = f /\ diffCache[key].edit >= now
    BY <1>3, <1>5 DEF DiffIInv, DiffTypeOK, CacheOK
  <2>4. LoadsOK' /\ SpinnerShowsLoad'
    BY <2>2 DEF LoadsOK, SpinnerShowsLoad
  <2>5. DiffIsOfSelection' /\ DiffIsFresh'
    BY <1>1, <2>1, <2>3 DEF DiffIsOfSelection, DiffIsFresh
  <2> HIDE DEF key, now
  <2> QED BY <1>1, <1>2, <1>4, <2>1, <2>2, <2>3, <2>4, <2>5
<1>6. CASE key \notin DOMAIN diffCache
  <2>1. /\ isLoadingDiff' = (isLoadingDiff \/ ~u) /\ diffLoads' = Cancelled \cup {new}
        /\ selectedDiffDocument' = selectedDiffDocument
    BY <1>6 DEF ScheduleLoad
  <2>2. /\ Cancelled \in SUBSET DiffLoad
        /\ \A m \in Cancelled : m.cancelled /\ m.id < diffRequestID' /\ m.since = m.key.edit
        /\ \A l, m \in Cancelled : l.id = m.id => l = m
    <3>1. /\ Cancelled \in SUBSET DiffLoad
          /\ \A m \in Cancelled : m.cancelled /\ \E l \in diffLoads : /\ m.id = l.id /\ m.key = l.key
                                                                       /\ m.since = l.since
                                                                       /\ m = [l EXCEPT !.cancelled = TRUE]
      BY AllCancelled DEF DiffIInv
    <3>2. /\ \A l \in diffLoads : l.id <= diffRequestID /\ l.since = l.key.edit /\ l.id \in Nat
          /\ \A l, m \in diffLoads : l.id = m.id => l = m
      BY DEF DiffIInv, LoadsOK, DiffTypeOK, DiffLoad
    <3>3. diffRequestID' > diffRequestID /\ diffRequestID' \in Nat /\ diffRequestID \in Nat
      BY <1>1, RequestFacts DEF DiffIInv
    <3>4. \A l, m \in Cancelled : l.id = m.id => l = m
      BY <3>2, CancelledAreUnique DEF DiffIInv
    <3> QED BY <3>1, <3>2, <3>3, <3>4
  <2>3. /\ new \in DiffLoad /\ new.id = diffRequestID' /\ ~new.cancelled /\ new.key = key
        /\ new.since = now
    BY <1>2, <1>3, <1>4 DEF DiffLoad
  <2> HIDE DEF new, key, now
  <2>4. diffLoads' \in SUBSET DiffLoad
    BY <2>1, <2>2, <2>3
  <2>5. \A l \in diffLoads' : IsCurrentDiffRequest(l)' <=> l = new
    BY <1>1, <1>3, <2>1, <2>2, <2>3 DEF IsCurrentDiffRequest
  <2>6. LoadsOK'
    <3>1. \A m \in Cancelled : m.id \in Nat
      BY <2>2 DEF DiffLoad
    <3>2. ASSUME NEW l \in diffLoads'
          PROVE /\ l.id <= diffRequestID' /\ l.since = l.key.edit
                /\ IsCurrentDiffRequest(l)' => l.key.repo = selectedRepository' /\ l.since = requested'
      BY <1>1, <1>3, <1>4, <2>1, <2>2, <2>3, <2>5, <3>1
    <3>3. \A l, m \in diffLoads' : l.id = m.id => l = m
      BY <1>4, <2>1, <2>2, <2>3, <3>1
    <3> QED BY <3>2, <3>3 DEF LoadsOK
  <2>7. ~DiffIsQuiet' /\ new \in diffLoads'
    BY <2>1, <2>5 DEF DiffIsQuiet
  <2>8. DiffIsOfSelection' /\ DiffIsFresh'
    BY <2>1, <2>7 DEF DiffIsOfSelection, DiffIsFresh, DiffIInv
  <2>9. SpinnerShowsLoad'
    BY <1>3, <2>1, <2>3, <2>5 DEF SpinnerShowsLoad
  <2> QED BY <1>1, <1>2, <1>4, <2>1, <2>4, <2>6, <2>8, <2>9 DEF DiffIInv, DiffTypeOK
<1> QED BY <1>5, <1>6

\* A selection that is cleared shows nothing, and no load is current.
LEMMA ClearKeeps ==
  ASSUME DiffIInv, ClearDiffSelection, diffLoads' \in {diffLoads, Cancelled}
  PROVE  /\ selectedFilePath' = None /\ diffRequestID' \in 0 .. MaxRequests
         /\ selectedDiffDocument' = Blank /\ diffLoads' \in SUBSET DiffLoad /\ requested' = 0
         /\ LoadsOK' /\ DiffIsOfSelection' /\ DiffIsFresh' /\ SpinnerShowsLoad'
<1>1. NewRequest /\ selectedFilePath' = None /\ selectedDiffDocument' = Blank /\ requested' = 0
  BY DEF ClearDiffSelection
<1>2. /\ diffLoads' \in SUBSET DiffLoad
      /\ \A l \in diffLoads' : /\ l.id <= diffRequestID' /\ l.since = l.key.edit
                               /\ ~IsCurrentDiffRequest(l)'
      /\ \A l, m \in diffLoads' : l.id = m.id => l = m
  BY <1>1, NoneIsCurrent
<1>3. LoadsOK' /\ SpinnerShowsLoad'
  BY <1>2 DEF LoadsOK, SpinnerShowsLoad
<1>4. DiffIsOfSelection' /\ DiffIsFresh'
  BY <1>1 DEF DiffIsOfSelection, DiffIsFresh
<1>5. diffRequestID' \in 0 .. MaxRequests
  BY <1>1, RequestFacts DEF DiffIInv
<1> QED BY <1>1, <1>2, <1>3, <1>4, <1>5

-----------------------------------------------------------------------------
(* The actions.                                                            *)

\* At the start nothing is listed.
LEMMA InitDiffIInv == DiffInit => DiffIInv
<1> SUFFICES ASSUME DiffInit PROVE DiffIInv
  OBVIOUS
<1>1. 0 \in 0 .. MaxEdits /\ 0 \in 0 .. MaxRequests
  BY DiffAssumption
<1>2. DOMAIN diffCache = {}
  BY DEF DiffInit
<1>3. DiffTypeOK
  BY <1>1, <1>2 DEF DiffInit, DiffTypeOK, Document
<1>4. /\ selectedRepository \in Repo \cup {None} /\ LoadsOK /\ CacheOK /\ ListOK
      /\ DiffIsOfSelection /\ DiffIsFresh /\ SpinnerShowsLoad
  BY <1>2 DEF DiffInit, LoadsOK, CacheOK, ListOK, DiffIsOfSelection, DiffIsFresh, SpinnerShowsLoad
<1> QED BY <1>3, <1>4 DEF DiffIInv

\* The user selects a file, or a refresh does.
LEMMA SelectingSteps ==
  ASSUME DiffIInv,
         \/ \E f \in File : SelectChangedFile(f)
         \/ \E S \in SUBSET File : \E U \in SUBSET S : RefreshDiff(S, U)
  PROVE  DiffIInv'
<1>1. ASSUME NEW f \in File, SelectChangedFile(f) PROVE DiffIInv'
  <2>1. /\ f \in listedFiles /\ ScheduleLoad(f, f \in untracked)
        /\ UNCHANGED <<selectedRepository, edits, listedFiles, untracked, diffCache>>
    BY <1>1 DEF SelectChangedFile
  <2>2. selectedRepository \in Repo /\ (f \in untracked) \in BOOLEAN
    BY <2>1 DEF DiffIInv, ListOK
  <2>3. /\ selectedFilePath' = f /\ diffRequestID' \in 0 .. MaxRequests
        /\ selectedDiffDocument' \in Document /\ isLoadingDiff' \in BOOLEAN
        /\ diffLoads' \in SUBSET DiffLoad /\ requested' \in 0 .. MaxEdits
        /\ LoadsOK' /\ DiffIsOfSelection' /\ DiffIsFresh' /\ SpinnerShowsLoad'
    BY <2>1, <2>2, ScheduleKeeps
  <2>4. DiffTypeOK'
    BY <2>1, <2>3 DEF DiffIInv, DiffTypeOK
  <2>5. CacheOK' /\ ListOK'
    BY <2>1 DEF DiffIInv, CacheOK, ListOK
  <2> QED BY <2>1, <2>3, <2>4, <2>5 DEF DiffIInv
<1>2. ASSUME NEW S \in SUBSET File, NEW U \in SUBSET S, RefreshDiff(S, U) PROVE DiffIInv'
  <2>1. /\ selectedRepository \in Repo /\ listedFiles' = S /\ untracked' = U
        /\ UNCHANGED <<selectedRepository, edits, diffCache>>
    BY <1>2 DEF RefreshDiff, DiffIInv
  <2>2. CacheOK' /\ ListOK'
    BY <2>1, RepositoriesAssumption DEF DiffIInv, CacheOK, ListOK
  <2>3. ASSUME NEW f \in S, ScheduleLoad(f, f \in U) PROVE DiffIInv'
    <3>1. /\ selectedFilePath' = f /\ diffRequestID' \in 0 .. MaxRequests
          /\ selectedDiffDocument' \in Document /\ isLoadingDiff' \in BOOLEAN
          /\ diffLoads' \in SUBSET DiffLoad /\ requested' \in 0 .. MaxEdits
          /\ LoadsOK' /\ DiffIsOfSelection' /\ DiffIsFresh' /\ SpinnerShowsLoad'
      <4>1. f \in File /\ (f \in U) \in BOOLEAN
        OBVIOUS
      <4> QED BY <2>1, <2>3, <4>1, ScheduleKeeps
    <3>2. DiffTypeOK'
      BY <2>1, <3>1 DEF DiffIInv, DiffTypeOK
    <3> QED BY <2>1, <2>2, <3>1, <3>2 DEF DiffIInv
  <2>4. CASE S = {} /\ ClearDiffSelection /\ UNCHANGED <<isLoadingDiff, diffLoads>>
    <3>1. /\ selectedFilePath' = None /\ diffRequestID' \in 0 .. MaxRequests
          /\ selectedDiffDocument' = Blank /\ diffLoads' \in SUBSET DiffLoad /\ requested' = 0
          /\ LoadsOK' /\ DiffIsOfSelection' /\ DiffIsFresh' /\ SpinnerShowsLoad'
      BY <2>4, ClearKeeps
    <3>2. 0 \in 0 .. MaxEdits /\ Blank \in Document
      BY DiffAssumption DEF Document
    <3>3. DiffTypeOK'
      BY <2>1, <2>4, <3>1, <3>2 DEF DiffIInv, DiffTypeOK
    <3> QED BY <2>1, <2>2, <3>1, <3>3 DEF DiffIInv
  <2> QED BY <1>2, <2>3, <2>4 DEF RefreshDiff
<1> QED BY <1>1, <1>2

\* Another repository is selected.
LEMMA SwitchStep ==
  ASSUME DiffIInv, NEW r \in Repo \cup {None}, SwitchDiff(r)
  PROVE  DiffIInv'
<1>1. /\ selectedRepository' = r /\ listedFiles' = {} /\ untracked' = {} /\ ClearDiffSelection
      /\ diffLoads' = Cancelled /\ diffCache' = <<>> /\ UNCHANGED <<edits, isLoadingDiff>>
  BY DEF SwitchDiff, Selects
<1>2. /\ selectedFilePath' = None /\ diffRequestID' \in 0 .. MaxRequests
      /\ selectedDiffDocument' = Blank /\ diffLoads' \in SUBSET DiffLoad /\ requested' = 0
      /\ LoadsOK' /\ DiffIsOfSelection' /\ DiffIsFresh' /\ SpinnerShowsLoad'
  BY <1>1, ClearKeeps
<1>3. DOMAIN diffCache' = {}
  BY <1>1
<1>4. 0 \in 0 .. MaxEdits /\ Blank \in Document
  BY DiffAssumption DEF Document
<1>5. DiffTypeOK'
  BY <1>1, <1>2, <1>3, <1>4 DEF DiffIInv, DiffTypeOK
<1>6. CacheOK' /\ ListOK'
  BY <1>1, <1>3 DEF CacheOK, ListOK
<1> QED BY <1>1, <1>2, <1>5, <1>6 DEF DiffIInv

\* A load is over, with document d if it is current: it is of the selection, and what
\* was requested.
LEMMA LoadStep ==
  ASSUME DiffIInv, NEW l \in diffLoads, NEW d \in Document,
         d # Blank => d.repo = l.key.repo /\ d.path = l.key.path /\ d.edit >= l.since,
         selectedDiffDocument' = IF IsCurrentDiffRequest(l) THEN d ELSE selectedDiffDocument,
         \/ diffCache' = diffCache
         \/ IsCurrentDiffRequest(l) /\ diffCache' = CacheWith(l.key, d),
         isLoadingDiff' = SpinnerAfter(l), diffLoads' = diffLoads \ {l},
         UNCHANGED <<selectedRepository, edits, listedFiles, untracked, selectedFilePath,
                     diffRequestID, requested>>
  PROVE  DiffIInv'
<1>1. /\ l \in DiffLoad /\ l.key \in DiffKey /\ l.since = l.key.edit
      /\ IsCurrentDiffRequest(l) => l.key.repo = selectedRepository /\ l.since = requested
  BY DEF DiffIInv, DiffTypeOK, LoadsOK, DiffLoad
<1>2. /\ DOMAIN diffCache' \subseteq DiffKey /\ \A k \in DOMAIN diffCache' : diffCache'[k] \in Document
      /\ CacheOK'
  <2>1. CASE diffCache' = diffCache
    BY <2>1 DEF DiffIInv, DiffTypeOK, CacheOK
  <2>2. CASE IsCurrentDiffRequest(l) /\ diffCache' = CacheWith(l.key, d)
    BY <1>1, <2>2, CacheGrows
  <2> QED BY <2>1, <2>2
<1>3. isLoadingDiff' \in BOOLEAN
  BY DEF SpinnerAfter
<1>4. DiffTypeOK'
  BY <1>2, <1>3 DEF DiffIInv, DiffTypeOK
<1>5. \A m : IsCurrentDiffRequest(m)' <=> IsCurrentDiffRequest(m)
  BY DEF IsCurrentDiffRequest
<1>6. LoadsOK' /\ ListOK'
  BY <1>5 DEF DiffIInv, LoadsOK, ListOK
<1>7. DiffIsOfSelection' /\ DiffIsFresh'
  <2>1. CASE IsCurrentDiffRequest(l)
    BY <1>1, <2>1 DEF DiffIsOfSelection, DiffIsFresh, IsCurrentDiffRequest
  <2>2. CASE ~IsCurrentDiffRequest(l)
    <3>1. DiffIsQuiet' => DiffIsQuiet
      BY <1>5, <2>2 DEF DiffIsQuiet
    <3> QED BY <2>2, <3>1 DEF DiffIInv, DiffIsOfSelection, DiffIsFresh
  <2> QED BY <2>1, <2>2
<1>8. SpinnerShowsLoad'
  <2> SUFFICES ASSUME NEW m \in diffLoads', IsCurrentDiffRequest(m)', ~m.key.untracked
               PROVE isLoadingDiff'
    BY DEF SpinnerShowsLoad
  <2>1. m \in diffLoads /\ IsCurrentDiffRequest(m) /\ m # l
    BY <1>5
  <2>2. isLoadingDiff
    BY <2>1 DEF DiffIInv, SpinnerShowsLoad
  <2>3. l.id # diffRequestID
    BY <2>1 DEF DiffIInv, LoadsOK, IsCurrentDiffRequest
  <2> QED BY <2>2, <2>3 DEF SpinnerAfter
<1> QED BY <1>2, <1>4, <1>6, <1>7, <1>8 DEF DiffIInv

\* git diff returns or fails.
LEMMA LoadSteps ==
  ASSUME DiffIInv, NEW l \in diffLoads, DiffFails(l) \/ \E e \in 0 .. MaxEdits : DiffReturns(l, e)
  PROVE  DiffIInv'
<1>1. l \in DiffLoad /\ l.key \in DiffKey /\ l.since \in 0 .. MaxEdits
  BY DEF DiffIInv, DiffTypeOK, DiffLoad
<1>2. CASE DiffFails(l)
  <2>1. Blank \in Document
    BY DEF Document
  <2> QED BY <1>2, <2>1, LoadStep DEF DiffFails
<1>3. ASSUME NEW e \in 0 .. MaxEdits, DiffReturns(l, e) PROVE DiffIInv'
  <2> DEFINE d == [repo |-> l.key.repo, path |-> l.key.path, edit |-> e]
  <2>1. d \in Document /\ d.repo = l.key.repo /\ d.path = l.key.path /\ d.edit = e
    BY <1>1 DEF Document, DiffKey
  <2>2. edits[l.key.repo][l.key.path] \in 0 .. MaxEdits
    BY <1>1 DEF DiffKey, DiffIInv, DiffTypeOK
  <2>3. d.edit >= l.since
    BY <1>1, <1>3, <2>1, <2>2, DiffAssumption DEF DiffReturns
  <2>4. /\ selectedDiffDocument' = IF IsCurrentDiffRequest(l) THEN d ELSE selectedDiffDocument
        /\ diffCache' = IF IsCurrentDiffRequest(l) THEN CacheWith(l.key, d) ELSE diffCache
        /\ isLoadingDiff' = SpinnerAfter(l) /\ diffLoads' = diffLoads \ {l}
        /\ UNCHANGED <<selectedRepository, edits, listedFiles, untracked, selectedFilePath,
                        diffRequestID, requested>>
    BY <1>3 DEF DiffReturns
  <2> HIDE DEF d
  <2> QED BY <2>1, <2>3, <2>4, LoadStep
<1> QED BY <1>2, <1>3

\* Every step keeps the inductive invariant.
LEMMA NextDiffIInv == DiffIInv /\ [DiffNext]_<<selectedRepository, diffVars>> => DiffIInv'
<1> SUFFICES ASSUME DiffIInv, [DiffNext]_<<selectedRepository, diffVars>> PROVE DiffIInv'
  OBVIOUS
<1>1. ASSUME NEW r \in Repo, NEW f \in File, EditFile(r, f) PROVE DiffIInv'
  <2>1. /\ edits' = [edits EXCEPT ![r][f] = @ + 1] /\ edits[r][f] < MaxEdits
        /\ UNCHANGED <<selectedRepository, listedFiles, untracked, selectedFilePath, diffRequestID,
                        diffCache, selectedDiffDocument, isLoadingDiff, diffLoads, requested>>
    BY <1>1 DEF EditFile
  <2>2. edits' \in [Repo -> [File -> 0 .. MaxEdits]]
    BY <2>1, DiffAssumption DEF DiffIInv, DiffTypeOK
  <2>3. DiffTypeOK'
    BY <2>1, <2>2 DEF DiffIInv, DiffTypeOK
  <2> QED BY <2>1, <2>3 DEF DiffIInv, LoadsOK, CacheOK, ListOK, DiffIsOfSelection, DiffIsFresh, DiffIsQuiet,
                           SpinnerShowsLoad, IsCurrentDiffRequest
<1>2. CASE UNCHANGED <<selectedRepository, diffVars>>
  BY <1>2 DEF diffVars, DiffIInv, DiffTypeOK, LoadsOK, CacheOK, ListOK, DiffIsOfSelection, DiffIsFresh,
              DiffIsQuiet, SpinnerShowsLoad, IsCurrentDiffRequest
<1> QED BY <1>1, <1>2, SelectingSteps, SwitchStep, LoadSteps DEF DiffNext

-----------------------------------------------------------------------------
(* What follows for the diff.                                              *)

\* The inductive invariant holds throughout.
THEOREM DiffInvariance == DiffSpec => []DiffIInv
  BY InitDiffIInv, NextDiffIInv, PTL DEF DiffSpec

\* Every variable of DiffHandler has its type: a file that is selected is listed.
THEOREM DiffTypeCorrect == DiffSpec => []DiffTypeOK
<1>1. DiffIInv => DiffTypeOK
  BY DEF DiffIInv
<1> QED BY <1>1, DiffInvariance, PTL

\* isCurrentDiffRequest drops every answer that is not of the last selection: the diff
\* is of the selected repository and, in the end, of the selected file.
THEOREM DiffFollowsSelection == DiffSpec => []DiffIsOfSelection
<1>1. DiffIInv => DiffIsOfSelection
  BY DEF DiffIInv
<1> QED BY <1>1, DiffInvariance, PTL

\* The cache of DiffHandler never shows a diff that is older than the file was when it
\* was selected.
THEOREM CacheIsFresh == DiffSpec => []DiffIsFresh
<1>1. DiffIInv => DiffIsFresh
  BY DEF DiffIInv
<1> QED BY <1>1, DiffInvariance, PTL

\* The defer of a load that was superseded leaves the spinner of the current one on.
THEOREM SpinnerIsKept == DiffSpec => []SpinnerShowsLoad
<1>1. DiffIInv => SpinnerShowsLoad
  BY DEF DiffIInv
<1> QED BY <1>1, DiffInvariance, PTL

-----------------------------------------------------------------------------
(* HistoryPanel.                                                           *)

\* A task that was not cancelled is of the selected repository.
TasksAreOfRepository ==
  \A t \in historyTasks :
    /\ t.at = "files" => t.isLoad
    /\ t.at = "diff" => t.path # None
    /\ ~t.cancelled => t.repo = selectedRepository

\* What is shown is of the selected repository, and of a file.
ShownIsOfRepository ==
  /\ selectedRepository = None => history = <<>>
  /\ commitFiles # Nothing => commitFiles.repo = selectedRepository
  /\ diffDocument # Nothing => diffDocument.repo = selectedRepository
  /\ selectedCommitFilePath = None => diffDocument = Nothing

IsSelected(sha, path) == sha = selectedCommitDiffSHA /\ path = selectedCommitFilePath

\* The diff is that of the selection, or a task is about to load the one that is.
DiffIsAwaited ==
  diffDocument # Nothing =>
    \/ IsSelected(diffDocument.sha, diffDocument.path)
    \/ \E t \in historyTasks : ~t.cancelled /\ (t.at = "diff" => IsSelected(t.sha, t.path))

\* While there is an anchor, its files are what is loading.
AnchorIsLoading == loadingCommitFilesSHA # None /\ anchorSHA # None => loadingCommitFilesSHA = anchorSHA

\* The task that loads the files of the anchor: no other can end the load of its commit.
LoadsAnchor(t) ==
  /\ t.at = "files" /\ ~t.cancelled /\ t.sha = anchorSHA /\ loadingCommitFilesSHA = anchorSHA
  /\ \A u \in historyTasks : u.at = "files" /\ u.sha = anchorSHA => u = t

\* The files are those of the anchor, or a task loads them, or it is known why not.
FilesAreAwaited ==
  anchorSHA # None /\ missing = "never" => AnchorIsShown \/ \E t \in historyTasks : LoadsAnchor(t)

HistoryIInv ==
  /\ HistoryTypeOK /\ selectedRepository \in Repo \cup {None}
  /\ TasksAreOfRepository /\ ShownIsOfRepository
  /\ DiffIsAwaited /\ AnchorIsLoading /\ FilesAreAwaited

\* What the histories and their commits are.
LEMMA CommitFacts ==
  /\ \A h \in Histories : Range(h) \subseteq Commit /\ (h # <<>> => Head(h) \in Range(h))
  /\ \A c \in Commit : /\ FilesOf[c] \in Seq(CommitFile)
                       /\ Range(FilesOf[c]) \subseteq CommitFile
                       /\ FirstFile(c) \in CommitFile \cup {None}
<1>1. \A h \in Histories : Range(h) \subseteq Commit /\ (h # <<>> => Head(h) \in Range(h))
  <2>1. ASSUME NEW h \in Histories PROVE Range(h) \subseteq Commit
    BY Zenon DEF Commit
  <2>2. ASSUME NEW h \in Histories, h # <<>> PROVE Head(h) \in Range(h)
    BY <2>2, HistoryAssumption DEF Range
  <2> QED BY <2>1, <2>2
<1>2. \A c \in Commit : FilesOf[c] \in Seq(CommitFile)
  BY HistoryAssumption
<1>3. ASSUME NEW c \in Commit PROVE Range(FilesOf[c]) \subseteq CommitFile
  BY Zenon DEF CommitFile
<1>4. ASSUME NEW c \in Commit PROVE FirstFile(c) \in CommitFile \cup {None}
  BY <1>2 DEF FirstFile
<1> QED BY <1>1, <1>2, <1>3, <1>4

\* The least of a set of positions is one of them.
LEMMA MinPosition ==
  ASSUME NEW S \in SUBSET Nat, S # {}
  PROVE  Min(S) \in S
<1>1. PICK m \in S : \A n \in S : ~(<<n, m>> \in OpToRel(<, Nat))
  BY NatLessThanWellFounded, WFMin
<1>2. \A n \in S : ~(n < m)
  BY <1>1 DEF OpToRel
<1>3. \E k \in S : \A n \in S : k <= n
  BY <1>2
<1> QED BY <1>3 DEF Min

\* The topmost commit of a selection in the list is one of it, and of the list.
LEMMA TopmostFacts ==
  ASSUME HistoryTypeOK, NEW S, S \cap Range(history) # {}
  PROVE  Topmost(S) \in S \cap Range(history)
<1> DEFINE at == {i \in DOMAIN history : history[i] \in S}
<1>1. history \in Seq(Commit)
  BY HistoryAssumption DEF HistoryTypeOK
<1>2. at \in SUBSET Nat /\ at # {}
  BY <1>1 DEF Range
<1> HIDE DEF at
<1>3. Min(at) \in at
  BY <1>2, MinPosition
<1> QED BY <1>3 DEF Topmost, Range, at

\* The tasks, when some are cancelled: the others are as they were.
LEMMA CancelFacts ==
  ASSUME HistoryTypeOK, NEW S \in SUBSET historyTasks
  PROVE  /\ Cancel(S) \in SUBSET HistoryTask
         /\ historyTasks \ S \subseteq Cancel(S)
         /\ \A u \in Cancel(S) :
              \/ u \in historyTasks \ S
              \/ u.cancelled /\ \E t \in S : /\ u.isLoad = t.isLoad /\ u.at = t.at
                                             /\ u.sha = t.sha /\ u.path = t.path
<1>1. ASSUME NEW t \in historyTasks
      PROVE  /\ [t EXCEPT !.cancelled = TRUE] \in HistoryTask /\ t \in HistoryTask
             /\ [t EXCEPT !.cancelled = TRUE].cancelled
             /\ [t EXCEPT !.cancelled = TRUE].isLoad = t.isLoad
             /\ [t EXCEPT !.cancelled = TRUE].at = t.at
             /\ [t EXCEPT !.cancelled = TRUE].sha = t.sha
             /\ [t EXCEPT !.cancelled = TRUE].path = t.path
  BY DEF HistoryTypeOK, HistoryTask
<1> QED BY <1>1 DEF Cancel

\* A load that begins is of the selected repository, and was not cancelled.
LEMMA LoadStarts ==
  ASSUME HistoryTypeOK, selectedRepository \in Repo, NEW S \in SUBSET HistoryTask,
         NEW c \in Commit, Start(S, TRUE, "files", c, None)
  PROVE  \E t \in HistoryTask :
           /\ historyTasks' = S \cup {t}
           /\ t.isLoad /\ t.at = "files" /\ t.repo = selectedRepository
           /\ t.sha = c /\ t.path = None /\ ~t.cancelled
<1>1. PICK id \in 1 .. MaxTasks :
        historyTasks' = S \cup {[id |-> id, isLoad |-> TRUE, at |-> "files", repo |-> selectedRepository,
                                 sha |-> c, path |-> None, cancelled |-> FALSE]}
  BY DEF Start
<1> DEFINE t == [id |-> id, isLoad |-> TRUE, at |-> "files", repo |-> selectedRepository,
                 sha |-> c, path |-> None, cancelled |-> FALSE]
<1>2. t \in HistoryTask
  BY DEF HistoryTask
<1>3. /\ t.isLoad /\ t.at = "files" /\ t.repo = selectedRepository
      /\ t.sha = c /\ t.path = None /\ ~t.cancelled
  OBVIOUS
<1>4. historyTasks' = S \cup {t}
  BY <1>1
<1> HIDE DEF t
<1> QED BY <1>2, <1>3, <1>4

\* The files of the anchor are loaded: its task is the one that may end the load,
\* unless a load of the same commit is under way.
LEMMA LoadKeeps ==
  ASSUME HistoryIInv, selectedRepository \in Repo, selectedRepository' = selectedRepository,
         NEW c \in Commit, LoadHistoryFiles(c), anchorSHA' = c
  PROVE  /\ historyTasks' \in SUBSET HistoryTask /\ loadingCommitFilesSHA' = c
         /\ missing' \in {"never", "failed", "superseded"}
         /\ TasksAreOfRepository' /\ AnchorIsLoading' /\ FilesAreAwaited'
         /\ \E t \in historyTasks' : ~t.cancelled /\ t.at = "files"
<1> DEFINE old == Cancel(historyTasks)
<1>1. /\ old \in SUBSET HistoryTask
      /\ \A u \in old : u.cancelled /\ \E t \in historyTasks : /\ u.isLoad = t.isLoad /\ u.at = t.at
                                                               /\ u.sha = t.sha /\ u.path = t.path
  BY CancelFacts DEF HistoryIInv
<1>2. /\ Start(old, TRUE, "files", c, None) /\ loadingCommitFilesSHA' = c
      /\ missing' = IF \E t \in historyTasks : t.at = "files" /\ t.sha = c THEN "superseded" ELSE "never"
  BY DEF LoadHistoryFiles
<1> HIDE DEF old
<1>3. PICK n \in HistoryTask :
           /\ historyTasks' = old \cup {n}
           /\ n.isLoad /\ n.at = "files" /\ n.repo = selectedRepository
           /\ n.sha = c /\ n.path = None /\ ~n.cancelled
  BY <1>1, <1>2, LoadStarts DEF HistoryIInv
<1>4. TasksAreOfRepository'
  <2>1. \A t \in historyTasks : (t.at = "files" => t.isLoad) /\ (t.at = "diff" => t.path # None)
    BY DEF HistoryIInv, TasksAreOfRepository
  <2> QED BY <1>1, <1>3, <2>1 DEF TasksAreOfRepository
<1>5. AnchorIsLoading'
  BY <1>2 DEF AnchorIsLoading
<1>6. FilesAreAwaited'
  <2>1. ASSUME missing' = "never" PROVE LoadsAnchor(n)'
    <3>1. \A t \in historyTasks : ~(t.at = "files" /\ t.sha = c)
      BY <1>2, <2>1
    <3>2. \A u \in old : ~(u.at = "files" /\ u.sha = c)
      BY <1>1, <3>1
    <3> QED BY <1>2, <1>3, <3>2 DEF LoadsAnchor
  <2> QED BY <1>3, <2>1 DEF FilesAreAwaited
<1> QED BY <1>1, <1>2, <1>3, <1>4, <1>5, <1>6

-----------------------------------------------------------------------------
(* Its actions.                                                            *)

LEMMA InitHistoryIInv == HistoryInit => HistoryIInv
BY HistoryAssumption
   DEF HistoryInit, HistoryIInv, HistoryTypeOK, TasksAreOfRepository, ShownIsOfRepository,
       DiffIsAwaited, AnchorIsLoading, FilesAreAwaited

\* Another selection of commits.
LEMMA UpdateStep ==
  ASSUME HistoryIInv, NEW S \in SUBSET Commit, UpdateHistorySelection(S)
  PROVE  HistoryIInv'
<1> DEFINE added == S \ selectedSHAs
           anchors == CASE Cardinality(added) = 1 -> added
                        [] Cardinality(added) # 1 /\ anchorSHA \notin S /\ S # {} -> {Topmost(S)}
                        [] OTHER -> {}
<1>1. /\ S \subseteq Range(history) /\ selectedSHAs' = S
      /\ IF anchors = {}
           THEN /\ anchorSHA' = IF anchorSHA \in S THEN anchorSHA ELSE None
                /\ UNCHANGED <<historyTasks, loadingCommitFilesSHA, missing>>
           ELSE \E c \in anchors : anchorSHA' = c /\ LoadHistoryFiles(c)
      /\ UNCHANGED <<selectedRepository, history, commitFiles, selectedCommitFilePath,
                     selectedCommitDiffSHA, diffDocument>>
  BY DEF UpdateHistorySelection
<1>2. anchors \subseteq S
  <2>1. S # {} => Topmost(S) \in S
    BY <1>1, TopmostFacts DEF HistoryIInv
  <2> QED BY <2>1
<1> HIDE DEF added, anchors
<1>3. CASE anchors = {}
  <2>1. /\ anchorSHA' \in {anchorSHA, None} /\ anchorSHA' \in S \cup {None}
        /\ UNCHANGED <<historyTasks, loadingCommitFilesSHA, missing>>
    BY <1>1, <1>3
  <2>2. HistoryTypeOK'
    BY <1>1, <2>1 DEF HistoryIInv, HistoryTypeOK
  <2>3. TasksAreOfRepository' /\ ShownIsOfRepository' /\ DiffIsAwaited' /\ AnchorIsLoading'
    BY <1>1, <2>1 DEF HistoryIInv, TasksAreOfRepository, ShownIsOfRepository, DiffIsAwaited,
                      AnchorIsLoading, IsSelected
  <2>4. FilesAreAwaited'
    BY <1>1, <2>1 DEF HistoryIInv, FilesAreAwaited, AnchorIsShown, LoadsAnchor
  <2> QED BY <1>1, <2>2, <2>3, <2>4 DEF HistoryIInv
<1>4. CASE anchors # {}
  <2>1. PICK c \in anchors : anchorSHA' = c /\ LoadHistoryFiles(c)
    BY <1>1, <1>4
  <2>2. c \in S /\ c \in Commit
    BY <1>2
  <2>3. history # <<>>
    BY <1>1, <2>2 DEF Range
  <2>4. selectedRepository \in Repo
    BY <2>3 DEF HistoryIInv, ShownIsOfRepository
  <2>5. /\ historyTasks' \in SUBSET HistoryTask /\ loadingCommitFilesSHA' = c
        /\ missing' \in {"never", "failed", "superseded"}
        /\ TasksAreOfRepository' /\ AnchorIsLoading' /\ FilesAreAwaited'
        /\ \E t \in historyTasks' : ~t.cancelled /\ t.at = "files"
    BY <1>1, <2>1, <2>2, <2>4, LoadKeeps
  <2>6. HistoryTypeOK'
    BY <1>1, <2>1, <2>2, <2>5 DEF HistoryIInv, HistoryTypeOK
  <2>7. ShownIsOfRepository'
    BY <1>1 DEF HistoryIInv, ShownIsOfRepository
  <2>8. DiffIsAwaited'
    BY <2>5 DEF DiffIsAwaited
  <2> QED BY <1>1, <2>4, <2>5, <2>6, <2>7, <2>8 DEF HistoryIInv
<1> QED BY <1>3, <1>4

\* A refresh.
LEMMA RefreshStep ==
  ASSUME HistoryIInv, NEW h \in Histories, RefreshHistory(h)
  PROVE  HistoryIInv'
<1>1. selectedRepository \in Repo /\ selectedRepository' = selectedRepository /\ history' = h
  BY DEF RefreshHistory, HistoryIInv
<1>2. CASE commitFiles = Nothing /\ h # <<>>
  <2> DEFINE c == IF anchorSHA \in Range(h) THEN anchorSHA ELSE Head(h)
  <2>1. selectedSHAs' = {c} /\ anchorSHA' = c /\ ResetFiles /\ LoadHistoryFiles(c)
    BY <1>2 DEF RefreshHistory
  <2>2. c \in Commit
    BY <1>2, CommitFacts
  <2> HIDE DEF c
  <2>3. /\ historyTasks' \in SUBSET HistoryTask /\ loadingCommitFilesSHA' = c
        /\ missing' \in {"never", "failed", "superseded"}
        /\ TasksAreOfRepository' /\ AnchorIsLoading' /\ FilesAreAwaited'
    BY <1>1, <2>1, <2>2, LoadKeeps
  <2>4. /\ commitFiles' = Nothing /\ selectedCommitFilePath' = None /\ selectedCommitDiffSHA' = None
        /\ diffDocument' = Nothing
    BY <2>1 DEF ResetFiles
  <2>5. HistoryTypeOK'
    BY <1>1, <2>1, <2>2, <2>3, <2>4 DEF HistoryIInv, HistoryTypeOK
  <2>6. ShownIsOfRepository' /\ DiffIsAwaited'
    BY <1>1, <2>4, RepositoriesAssumption DEF ShownIsOfRepository, DiffIsAwaited
  <2> QED BY <1>1, <2>3, <2>5, <2>6 DEF HistoryIInv
<1>3. CASE ~(commitFiles = Nothing /\ h # <<>>)
  <2>1. UNCHANGED <<selectedSHAs, anchorSHA, commitFiles, selectedCommitFilePath, missing,
                    selectedCommitDiffSHA, diffDocument, historyTasks, loadingCommitFilesSHA>>
    BY <1>3 DEF RefreshHistory
  <2>2. HistoryTypeOK'
    BY <1>1, <2>1 DEF HistoryIInv, HistoryTypeOK
  <2>3. /\ TasksAreOfRepository' /\ ShownIsOfRepository' /\ DiffIsAwaited' /\ AnchorIsLoading'
        /\ FilesAreAwaited'
    BY <1>1, <2>1, RepositoriesAssumption
       DEF HistoryIInv, TasksAreOfRepository, ShownIsOfRepository, DiffIsAwaited,
           AnchorIsLoading, IsSelected, FilesAreAwaited, AnchorIsShown, LoadsAnchor
  <2> QED BY <1>1, <2>2, <2>3 DEF HistoryIInv
<1> QED BY <1>2, <1>3

\* An operation forgets the selection, or another repository is selected.
LEMMA ResetStep ==
  ASSUME HistoryIInv, ClearHistorySelection \/ \E r \in Repo \cup {None} : SwitchHistory(r)
  PROVE  HistoryIInv'
<1>1. /\ selectedRepository' \in Repo \cup {None} /\ history' \in Histories
      /\ selectedSHAs' = {} /\ anchorSHA' = None /\ ResetFiles /\ loadingCommitFilesSHA' = None
      /\ missing' = missing
      /\ \/ selectedRepository' = selectedRepository /\ history' = history /\ historyTasks' = historyTasks
         \/ history' = <<>> /\ historyTasks' = Cancel(historyTasks)
  BY HistoryAssumption DEF ClearHistorySelection, SwitchHistory, Selects, HistoryIInv, HistoryTypeOK
<1>2. /\ commitFiles' = Nothing /\ selectedCommitFilePath' = None /\ selectedCommitDiffSHA' = None
      /\ diffDocument' = Nothing
  BY <1>1 DEF ResetFiles
<1>3. /\ Cancel(historyTasks) \in SUBSET HistoryTask
      /\ \A u \in Cancel(historyTasks) :
           u.cancelled /\ \E t \in historyTasks : /\ u.isLoad = t.isLoad /\ u.at = t.at
                                                  /\ u.sha = t.sha /\ u.path = t.path
  BY CancelFacts DEF HistoryIInv
<1>4. historyTasks' \in SUBSET HistoryTask
  BY <1>1, <1>3 DEF HistoryIInv, HistoryTypeOK
<1>5. HistoryTypeOK'
  BY <1>1, <1>2, <1>4 DEF HistoryIInv, HistoryTypeOK
<1>6. TasksAreOfRepository'
  <2>1. TasksAreOfRepository
    BY DEF HistoryIInv
  <2> QED BY <1>1, <1>3, <2>1 DEF TasksAreOfRepository
<1>7. ShownIsOfRepository' /\ DiffIsAwaited' /\ AnchorIsLoading' /\ FilesAreAwaited'
  BY <1>1, <1>2 DEF HistoryIInv, ShownIsOfRepository, DiffIsAwaited, AnchorIsLoading, FilesAreAwaited
<1> QED BY <1>1, <1>5, <1>6, <1>7 DEF HistoryIInv

\* The commit whose file a click shows is in the list.
LEMMA SelectedFacts ==
  ASSUME HistoryTypeOK, history # <<>>
  PROVE  SelectedCommit \in Commit
<1>1. Range(history) \subseteq Commit /\ Head(history) \in Range(history)
  BY CommitFacts DEF HistoryTypeOK
<1>2. CASE anchorSHA \in Range(history)
  BY <1>1, <1>2 DEF SelectedCommit
<1>3. CASE anchorSHA \notin Range(history) /\ selectedSHAs \cap Range(history) # {}
  <2>1. Topmost(selectedSHAs) \in Range(history)
    BY <1>3, TopmostFacts
  <2> QED BY <1>1, <1>3, <2>1 DEF SelectedCommit
<1>4. CASE anchorSHA \notin Range(history) /\ ~(selectedSHAs \cap Range(history) # {})
  BY <1>1, <1>4 DEF SelectedCommit
<1> QED BY <1>2, <1>3, <1>4

\* The user selects a file: its diff is loaded, and the load of the files goes on.
LEMMA SelectFileStep ==
  ASSUME HistoryIInv, NEW f \in CommitFile, SelectHistoryFile(f)
  PROVE  HistoryIInv'
<1> DEFINE c    == SelectedCommit
           S    == {t \in historyTasks : ~t.isLoad}
           kept == Cancel(S)
<1>1. /\ commitFiles # Nothing /\ history # <<>> /\ Start(kept, FALSE, "diff", c, f)
      /\ selectedCommitFilePath' = f /\ selectedCommitDiffSHA' = c
      /\ UNCHANGED <<selectedRepository, history, selectedSHAs, anchorSHA, commitFiles,
                     loadingCommitFilesSHA, diffDocument, missing>>
  BY DEF SelectHistoryFile
<1>2. c \in Commit /\ f # None
  BY <1>1, SelectedFacts, HistoryAssumption DEF HistoryIInv
<1>3. selectedRepository \in Repo
  BY <1>1 DEF HistoryIInv, ShownIsOfRepository
<1>4. /\ kept \in SUBSET HistoryTask /\ historyTasks \ S \subseteq kept
      /\ \A u \in kept : \/ u \in historyTasks \ S
                         \/ u.cancelled /\ \E t \in S : /\ u.isLoad = t.isLoad /\ u.at = t.at
                                                        /\ u.sha = t.sha /\ u.path = t.path
  BY CancelFacts DEF HistoryIInv
<1>5. S = {t \in historyTasks : ~t.isLoad}
  OBVIOUS
<1> HIDE DEF c, S, kept
<1>6. PICK n \in HistoryTask :
           /\ historyTasks' = kept \cup {n}
           /\ ~n.isLoad /\ n.at = "diff" /\ n.repo = selectedRepository
           /\ n.sha = c /\ n.path = f /\ ~n.cancelled
  <2>1. PICK id \in 1 .. MaxTasks :
          historyTasks' = kept \cup {[id |-> id, isLoad |-> FALSE, at |-> "diff", repo |-> selectedRepository,
                                      sha |-> c, path |-> f, cancelled |-> FALSE]}
    BY <1>1 DEF Start
  <2> DEFINE n == [id |-> id, isLoad |-> FALSE, at |-> "diff", repo |-> selectedRepository,
                   sha |-> c, path |-> f, cancelled |-> FALSE]
  <2>2. n \in HistoryTask
    BY <1>2, <1>3 DEF HistoryTask
  <2>3. /\ ~n.isLoad /\ n.at = "diff" /\ n.repo = selectedRepository
        /\ n.sha = c /\ n.path = f /\ ~n.cancelled
    OBVIOUS
  <2>4. historyTasks' = kept \cup {n}
    BY <2>1
  <2> HIDE DEF n
  <2> QED BY <2>2, <2>3, <2>4
<1>7. HistoryTypeOK'
  BY <1>1, <1>2, <1>4, <1>6 DEF HistoryIInv, HistoryTypeOK
<1>8. \A t \in historyTasks : (t.at = "files" => t.isLoad) /\ (t.at = "diff" => t.path # None)
                              /\ (~t.cancelled => t.repo = selectedRepository)
  BY DEF HistoryIInv, TasksAreOfRepository
<1>9. TasksAreOfRepository'
  <2> SUFFICES ASSUME NEW u \in historyTasks'
               PROVE  /\ u.at = "files" => u.isLoad
                      /\ u.at = "diff" => u.path # None
                      /\ ~u.cancelled => u.repo = selectedRepository'
    BY DEF TasksAreOfRepository
  <2>1. CASE u = n
    BY <1>1, <1>2, <1>6, <2>1
  <2>2. CASE u \in historyTasks \ S
    BY <1>1, <1>8, <2>2
  <2>3. ASSUME u.cancelled, NEW t \in S, u.isLoad = t.isLoad, u.at = t.at, u.path = t.path
        PROVE  (u.at = "files" => u.isLoad) /\ (u.at = "diff" => u.path # None)
    BY <1>5, <1>8, <2>3
  <2> QED BY <1>4, <1>6, <2>1, <2>2, <2>3
<1>10. ShownIsOfRepository'
  BY <1>1, <1>2 DEF HistoryIInv, ShownIsOfRepository
<1>11. DiffIsAwaited' /\ AnchorIsLoading'
  BY <1>1, <1>6 DEF HistoryIInv, DiffIsAwaited, AnchorIsLoading, IsSelected
<1>12. FilesAreAwaited'
  <2>1. ASSUME NEW t \in historyTasks, LoadsAnchor(t) PROVE t \in historyTasks' /\ LoadsAnchor(t)'
    <3>1. t.at = "files" /\ t \in historyTasks \ S
      BY <1>5, <1>8, <2>1 DEF LoadsAnchor
    <3>2. \A u \in historyTasks' : u.at = "files" => u \in historyTasks
      BY <1>4, <1>5, <1>6, <1>8
    <3> QED BY <1>1, <1>4, <1>6, <2>1, <3>1, <3>2 DEF LoadsAnchor
  <2> QED BY <1>1, <2>1 DEF HistoryIInv, FilesAreAwaited, AnchorIsShown
<1> QED BY <1>1, <1>3, <1>7, <1>9, <1>10, <1>11, <1>12 DEF HistoryIInv

\* A load of files is over.  If it was that of the anchor, its files are shown or could
\* not be read; and the diff of the file that is selected then is loaded next.
LEMMA FilesStep ==
  ASSUME HistoryIInv, NEW t \in historyTasks, NEW isRead \in BOOLEAN, FilesReturn(t, isRead)
  PROVE  HistoryIInv'
<1> DEFINE live  == IsCurrentFiles(t)
           files == IF isRead THEN ShownFiles(t.repo, t.sha) ELSE Nothing
           path  == IF ~live THEN selectedCommitFilePath ELSE IF isRead THEN FirstFile(t.sha) ELSE None
           goesOn == ~t.cancelled /\ path # None
           n == [t EXCEPT !.at = "diff", !.path = path]
<1>1. /\ t.at = "files"
      /\ commitFiles' = IF live THEN files ELSE commitFiles
      /\ selectedCommitFilePath' = path
      /\ selectedCommitDiffSHA' = IF goesOn THEN t.sha
                                  ELSE IF live /\ path = None THEN None ELSE selectedCommitDiffSHA
      /\ diffDocument' = IF live /\ path = None THEN Nothing ELSE diffDocument
      /\ loadingCommitFilesSHA' = IF loadingCommitFilesSHA = t.sha THEN None ELSE loadingCommitFilesSHA
      /\ historyTasks' = (historyTasks \ {t}) \cup IF goesOn THEN {n} ELSE {}
      /\ missing' = IF live /\ ~isRead THEN "failed" ELSE missing
      /\ UNCHANGED <<selectedRepository, history, selectedSHAs, anchorSHA>>
  BY DEF FilesReturn
<1>2. /\ t \in HistoryTask /\ t.sha \in Commit /\ t.repo \in Repo
      /\ (~t.cancelled => t.repo = selectedRepository) /\ (t.at = "files" => t.isLoad)
  BY DEF HistoryIInv, HistoryTypeOK, HistoryTask, TasksAreOfRepository
<1>3. path \in CommitFile \cup {None}
  BY <1>2, CommitFacts DEF HistoryIInv, HistoryTypeOK
<1>4. files \in [repo : Repo, sha : Commit] \cup {Nothing}
      /\ (files # Nothing => files.repo = t.repo)
      /\ (isRead => files = ShownFiles(t.repo, t.sha))
  BY <1>2 DEF ShownFiles
<1>5. /\ n \in HistoryTask /\ n.at = "diff" /\ n.path = path /\ n.sha = t.sha /\ n.repo = t.repo
      /\ n.cancelled = t.cancelled
  BY <1>2, <1>3 DEF HistoryTask
<1>6. /\ (live <=> ~t.cancelled /\ loadingCommitFilesSHA = t.sha)
      /\ (~live => path = selectedCommitFilePath)
      /\ (goesOn <=> ~t.cancelled /\ path # None)
  BY DEF IsCurrentFiles
<1> HIDE DEF live, files, path, goesOn, n
<1>7. historyTasks' \in SUBSET HistoryTask
  BY <1>1, <1>5 DEF HistoryIInv, HistoryTypeOK
<1>8. HistoryTypeOK'
  <2>1. /\ history' \in Histories /\ selectedSHAs' \in SUBSET Commit /\ anchorSHA' \in selectedSHAs' \cup {None}
        /\ commitFiles' \in [repo : Repo, sha : Commit] \cup {Nothing}
        /\ loadingCommitFilesSHA' \in Commit \cup {None}
    BY <1>1, <1>4 DEF HistoryIInv, HistoryTypeOK
  <2>2. /\ selectedCommitFilePath' \in CommitFile \cup {None}
        /\ selectedCommitDiffSHA' \in Commit \cup {None}
        /\ diffDocument' \in [repo : Repo, sha : Commit, path : CommitFile] \cup {Nothing}
        /\ missing' \in {"never", "failed", "superseded"}
    BY <1>1, <1>2, <1>3 DEF HistoryIInv, HistoryTypeOK
  <2> QED BY <1>7, <2>1, <2>2 DEF HistoryTypeOK
<1>9. TasksAreOfRepository'
  <2>1. \A u \in historyTasks' : u \in historyTasks \/ (u = n /\ goesOn)
    BY <1>1
  <2>2. TasksAreOfRepository
    BY DEF HistoryIInv
  <2> QED BY <1>1, <1>2, <1>5, <1>6, <2>1, <2>2 DEF TasksAreOfRepository
<1>10. ShownIsOfRepository'
  <2>1. ShownIsOfRepository
    BY DEF HistoryIInv
  <2> QED BY <1>1, <1>2, <1>4, <1>6, <2>1 DEF ShownIsOfRepository
<1>11. DiffIsAwaited'
  <2> SUFFICES ASSUME diffDocument' # Nothing
               PROVE  \/ IsSelected(diffDocument.sha, diffDocument.path)'
                      \/ \E u \in historyTasks' : ~u.cancelled /\ (u.at = "diff" => IsSelected(u.sha, u.path)')
    BY DEF DiffIsAwaited, IsSelected
  <2>1. CASE goesOn
    BY <1>1, <1>5, <1>6, <2>1 DEF IsSelected
  <2>2. CASE ~goesOn
    <3>1. diffDocument' = diffDocument /\ ~(live /\ path = None)
      BY <1>1
    <3>2. path # None
      BY <1>6, <3>1 DEF HistoryIInv, ShownIsOfRepository
    <3>3. t.cancelled /\ ~live
      BY <1>6, <2>2, <3>2
    <3>4. UNCHANGED <<selectedCommitFilePath, selectedCommitDiffSHA>>
      BY <1>1, <1>6, <2>2, <3>3
    <3>5. \A u \in historyTasks : ~u.cancelled => u \in historyTasks'
      BY <1>1, <3>3
    <3> QED BY <3>1, <3>4, <3>5 DEF HistoryIInv, DiffIsAwaited, IsSelected
  <2> QED BY <2>1, <2>2
<1>12. AnchorIsLoading'
  BY <1>1 DEF HistoryIInv, AnchorIsLoading
<1>13. FilesAreAwaited'
  <2> SUFFICES ASSUME anchorSHA # None, missing' = "never"
               PROVE  AnchorIsShown' \/ \E u \in historyTasks' : LoadsAnchor(u)'
    BY <1>1 DEF FilesAreAwaited
  <2>1. missing = "never" /\ (live => isRead)
    BY <1>1
  <2>2. live => t.sha = anchorSHA
    BY <1>2, <1>6, HistoryAssumption DEF HistoryIInv, AnchorIsLoading
  <2>3. CASE live
    BY <1>1, <1>2, <1>4, <1>6, <2>1, <2>2, <2>3 DEF AnchorIsShown
  <2>4. CASE ~live /\ AnchorIsShown
    BY <1>1, <2>4 DEF AnchorIsShown
  <2>5. ASSUME ~live, NEW u \in historyTasks, LoadsAnchor(u)
        PROVE  u \in historyTasks' /\ LoadsAnchor(u)'
    <3>1. u # t
      BY <1>6, <2>5 DEF LoadsAnchor
    <3>2. t.sha # anchorSHA
      BY <1>1, <2>5, <3>1 DEF LoadsAnchor
    <3>3. loadingCommitFilesSHA' = loadingCommitFilesSHA
      BY <1>1, <2>5, <3>2 DEF LoadsAnchor
    <3>4. u \in historyTasks' /\ \A v \in historyTasks' : v.at = "files" => v \in historyTasks
      BY <1>1, <1>5, <3>1
    <3> QED BY <1>1, <2>5, <3>3, <3>4 DEF LoadsAnchor
  <2> QED BY <2>1, <2>3, <2>4, <2>5 DEF HistoryIInv, FilesAreAwaited
<1> QED BY <1>1, <1>8, <1>9, <1>10, <1>11, <1>12, <1>13 DEF HistoryIInv

\* The diff of a file is back.
LEMMA DiffStep ==
  ASSUME HistoryIInv, NEW t \in historyTasks, NEW isRead \in BOOLEAN, CommitDiffReturns(t, isRead)
  PROVE  HistoryIInv'
<1> DEFINE d == IF isRead THEN [repo |-> t.repo, sha |-> t.sha, path |-> t.path] ELSE Nothing
<1>1. /\ t.at = "diff"
      /\ diffDocument' = IF IsCurrentDiff(t) THEN d ELSE diffDocument
      /\ historyTasks' = historyTasks \ {t}
      /\ UNCHANGED <<selectedRepository, history, selectedSHAs, anchorSHA, commitFiles,
                     loadingCommitFilesSHA, selectedCommitFilePath, selectedCommitDiffSHA, missing>>
  BY DEF CommitDiffReturns
<1>2. /\ t.repo \in Repo /\ t.sha \in Commit /\ t.path \in CommitFile
      /\ (~t.cancelled => t.repo = selectedRepository)
  BY <1>1 DEF HistoryIInv, HistoryTypeOK, HistoryTask, TasksAreOfRepository
<1>3. /\ d \in [repo : Repo, sha : Commit, path : CommitFile] \cup {Nothing}
      /\ (d # Nothing => d.repo = t.repo /\ d.sha = t.sha /\ d.path = t.path)
  BY <1>2
<1> HIDE DEF d
<1>4. HistoryTypeOK'
  BY <1>1, <1>3 DEF HistoryIInv, HistoryTypeOK
<1>5. TasksAreOfRepository' /\ AnchorIsLoading'
  BY <1>1 DEF HistoryIInv, TasksAreOfRepository, AnchorIsLoading
<1>6. ShownIsOfRepository'
  BY <1>1, <1>2, <1>3, HistoryAssumption DEF HistoryIInv, ShownIsOfRepository, IsCurrentDiff
<1>7. DiffIsAwaited'
  <2>1. CASE IsCurrentDiff(t)
    BY <1>1, <1>3, <2>1 DEF DiffIsAwaited, IsCurrentDiff, IsSelected
  <2>2. CASE ~IsCurrentDiff(t)
    <3>1. ~(~t.cancelled /\ IsSelected(t.sha, t.path))
      BY <2>2 DEF IsCurrentDiff, IsSelected
    <3> QED BY <1>1, <2>2, <3>1 DEF HistoryIInv, DiffIsAwaited, IsSelected
  <2> QED BY <2>1, <2>2
<1>8. FilesAreAwaited'
  BY <1>1 DEF HistoryIInv, FilesAreAwaited, AnchorIsShown, LoadsAnchor
<1> QED BY <1>1, <1>4, <1>5, <1>6, <1>7, <1>8 DEF HistoryIInv

\* Every step keeps the inductive invariant.
LEMMA NextHistoryIInv ==
  HistoryIInv /\ [HistoryNext]_<<selectedRepository, historyVars>> => HistoryIInv'
<1> SUFFICES ASSUME HistoryIInv, [HistoryNext]_<<selectedRepository, historyVars>> PROVE HistoryIInv'
  OBVIOUS
<1>1. CASE UNCHANGED <<selectedRepository, historyVars>>
  BY <1>1 DEF historyVars, HistoryIInv, HistoryTypeOK, TasksAreOfRepository, ShownIsOfRepository,
              DiffIsAwaited, IsSelected, AnchorIsLoading, FilesAreAwaited, AnchorIsShown, LoadsAnchor
<1> QED BY <1>1, UpdateStep, RefreshStep, ResetStep, SelectFileStep, FilesStep, DiffStep DEF HistoryNext

-----------------------------------------------------------------------------
(* What follows for the history.                                           *)

\* The inductive invariant holds throughout.
THEOREM HistoryInvariance == HistorySpec => []HistoryIInv
  BY InitHistoryIInv, NextHistoryIInv, PTL DEF HistorySpec

\* Every variable of HistoryHandler has its type: the anchor is one of the selection.
THEOREM HistoryTypeCorrect == HistorySpec => []HistoryTypeOK
<1>1. HistoryIInv => HistoryTypeOK
  BY DEF HistoryIInv
<1> QED BY <1>1, HistoryInvariance, PTL

\* isCurrentDiff drops every answer that is not of the last selection: the diff of a
\* commit is of the selected repository and, in the end, of the file selected last.
THEOREM CommitDiffFollowsSelection == HistorySpec => []CommitDiffIsOfSelection
<1>1. HistoryIInv => CommitDiffIsOfSelection
  BY DEF HistoryIInv, CommitDiffIsOfSelection, ShownIsOfRepository, DiffIsAwaited, IsSelected, HistoryIsQuiet
<1> QED BY <1>1, HistoryInvariance, PTL

\* In the end the files are those of the commit that was clicked last, unless they could
\* not be read or loadHistoryFiles overtook a load of the same commit.
THEOREM FilesAreThoseOfAnchor == HistorySpec => []FilesFollowAnchor
<1>1. HistoryIInv => FilesFollowAnchor
  BY DEF HistoryIInv, FilesFollowAnchor, FilesAreAwaited, LoadsAnchor, HistoryIsQuiet
<1> QED BY <1>1, HistoryInvariance, PTL
===============================================================================
