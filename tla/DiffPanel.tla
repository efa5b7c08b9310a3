------------------------------- MODULE DiffPanel -------------------------------
(***************************************************************************)
(* The diff of a changed file: DiffHandler, with the calls that the store  *)
(* makes of it.  Every click, and every refresh, cancels the load that is  *)
(* under way and starts another; what comes back late is dropped, and what *)
(* was loaded is kept in a cache until another repository is selected.     *)
(*                                                                         *)
(* The main actor runs tasks in the order they were made, so the two that  *)
(* a click makes are one step with it, up to the first await of loadDiff.  *)
(* A file's date and size are the number of its edits; of its status only  *)
(* this is kept, whether it is untracked.                                  *)
(***************************************************************************)
EXTENDS Window, Naturals

CONSTANTS File,         \* the files of the repositories
          MaxRequests,  \* bound: diffRequestID
          MaxEdits      \* bound: edits of a file

ASSUME DiffAssumption == MaxRequests \in Nat /\ MaxEdits \in Nat

VARIABLES edits,         \* of each repository and file: how often it was edited
          listedFiles,   \* changedFiles of the store
          untracked,     \* those of them that are untracked
          selectedFilePath,
          diffRequestID,
          diffCache,
          selectedDiffDocument,
          isLoadingDiff,
          diffLoads,     \* the calls of loadDiff that wait
          requested      \* history: the edits of the file when it was last requested

diffVars == <<edits, listedFiles, untracked, selectedFilePath, diffRequestID, diffCache,
              selectedDiffDocument, isLoadingDiff, diffLoads, requested>>

Blank == [repo |-> None]

Document == [repo : Repo, path : File, edit : 0 .. MaxEdits] \cup {Blank}
DiffKey  == [repo : Repo, path : File, untracked : BOOLEAN, edit : 0 .. MaxEdits]
DiffLoad == [id : 1 .. MaxRequests, key : DiffKey, since : 0 .. MaxEdits, cancelled : BOOLEAN]

DiffTypeOK ==
  /\ edits \in [Repo -> [File -> 0 .. MaxEdits]]
  /\ listedFiles \in SUBSET File /\ untracked \in SUBSET listedFiles
  /\ selectedFilePath \in listedFiles \cup {None}
  /\ diffRequestID \in 0 .. MaxRequests
  /\ DOMAIN diffCache \subseteq DiffKey /\ \A k \in DOMAIN diffCache : diffCache[k] \in Document
  /\ selectedDiffDocument \in Document
  /\ isLoadingDiff \in BOOLEAN
  /\ diffLoads \in SUBSET DiffLoad
  /\ requested \in 0 .. MaxEdits

DiffInit ==
  /\ selectedRepository = None
  /\ edits = [r \in Repo |-> [f \in File |-> 0]]
  /\ listedFiles = {} /\ untracked = {}
  /\ selectedFilePath = None
  /\ diffRequestID = 0
  /\ diffCache = <<>>
  /\ selectedDiffDocument = Blank
  /\ isLoadingDiff = FALSE
  /\ diffLoads = {}
  /\ requested = 0

-----------------------------------------------------------------------------

\* Faulty variant: only the cancellation counts.
IsCurrentDiffRequest_NotCancelled(l) == ~l.cancelled

IsCurrentDiffRequest(l) ==
  ~l.cancelled /\ diffRequestID = l.id /\ selectedFilePath = l.key.path

\* Faulty variant: the date and the size are left out.
CacheKey_NoDate(f, isUntracked) ==
  [repo |-> selectedRepository, path |-> f, untracked |-> isUntracked, edit |-> 0]

CacheKey(f, isUntracked) ==
  [repo |-> selectedRepository, path |-> f, untracked |-> isUntracked,
   edit |-> edits[selectedRepository][f]]

CacheWith(key, document) ==
  [k \in DOMAIN diffCache \cup {key} |-> IF k = key THEN document ELSE diffCache[k]]

NewRequest == diffRequestID < MaxRequests /\ diffRequestID' = diffRequestID + 1

Cancelled == {[l EXCEPT !.cancelled = TRUE] : l \in diffLoads}

\* scheduleChangedFileDiffLoad of the file, with loadDiff up to its first await.  A
\* document of the cache is shown at once, and only a tracked file has a spinner.
ScheduleLoad(f, isUntracked) ==
  LET key == CacheKey(f, isUntracked) IN
  /\ NewRequest
  /\ selectedFilePath' = f
  /\ requested' = edits[selectedRepository][f]
  /\ IF key \in DOMAIN diffCache
       THEN /\ selectedDiffDocument' = diffCache[key]
            /\ isLoadingDiff' = FALSE
            /\ diffLoads' = Cancelled
       ELSE /\ isLoadingDiff' = (isLoadingDiff \/ ~isUntracked)
            /\ diffLoads' = Cancelled \cup {[id |-> diffRequestID', key |-> key, cancelled |-> FALSE,
                                             since |-> edits[selectedRepository][f]]}
            /\ UNCHANGED selectedDiffDocument

\* clearSelection: the load that is under way is not cancelled.
ClearDiffSelection ==
  /\ NewRequest
  /\ selectedFilePath' = None
  /\ selectedDiffDocument' = Blank
  /\ requested' = 0

\* The user selects a file of the list.
SelectChangedFile(f) ==
  /\ f \in listedFiles
  /\ ScheduleLoad(f, f \in untracked)
  /\ UNCHANGED <<selectedRepository, edits, listedFiles, untracked, diffCache>>

\* A refresh shows the files S, those in U untracked.  The selection stays on its
\* file, or moves to the first one, and is loaded again.
RefreshDiff(S, U) ==
  /\ selectedRepository # None
  /\ listedFiles' = S /\ untracked' = U
  /\ \/ \E f \in S : /\ selectedFilePath \in S => f = selectedFilePath
                     /\ ScheduleLoad(f, f \in U)
     \/ S = {} /\ ClearDiffSelection /\ UNCHANGED <<isLoadingDiff, diffLoads>>
  /\ UNCHANGED <<selectedRepository, edits, diffCache>>

\* resetPerRepositoryState
SwitchDiff(r) ==
  /\ Selects(r)
  /\ listedFiles' = {} /\ untracked' = {}
  /\ ClearDiffSelection
  /\ diffLoads' = Cancelled
  /\ diffCache' = <<>>
  /\ UNCHANGED <<edits, isLoadingDiff>>

\* Faulty variant: whichever load ends, the spinner does.
SpinnerAfter_Unchecked(l) == isLoadingDiff /\ l.key.untracked

\* The defer of the load of a tracked file.
SpinnerAfter(l) == isLoadingDiff /\ (l.key.untracked \/ diffRequestID # l.id)

\* git diff, or the content of the file, is back: what the file was like at some time
\* since.
DiffReturns(l, e) ==
  /\ l \in diffLoads /\ e \in l.since .. edits[l.key.repo][l.key.path]
  /\ IF IsCurrentDiffRequest(l)
       THEN /\ selectedDiffDocument' = [repo |-> l.key.repo, path |-> l.key.path, edit |-> e]
            /\ diffCache' = CacheWith(l.key, selectedDiffDocument')
       ELSE UNCHANGED <<selectedDiffDocument, diffCache>>
  /\ isLoadingDiff' = SpinnerAfter(l)
  /\ diffLoads' = diffLoads \ {l}
  /\ UNCHANGED <<selectedRepository, edits, listedFiles, untracked, selectedFilePath,
                 diffRequestID, requested>>

\* It fails: an empty document, which is kept if the file is untracked.
DiffFails(l) ==
  /\ l \in diffLoads
  /\ selectedDiffDocument' = IF IsCurrentDiffRequest(l) THEN Blank ELSE selectedDiffDocument
  /\ diffCache' = IF IsCurrentDiffRequest(l) /\ l.key.untracked THEN CacheWith(l.key, Blank)
                                                                ELSE diffCache
  /\ isLoadingDiff' = SpinnerAfter(l)
  /\ diffLoads' = diffLoads \ {l}
  /\ UNCHANGED <<selectedRepository, edits, listedFiles, untracked, selectedFilePath,
                 diffRequestID, requested>>

\* A file is edited in an editor.
EditFile(r, f) ==
  /\ edits[r][f] < MaxEdits
  /\ edits' = [edits EXCEPT ![r][f] = @ + 1]
  /\ UNCHANGED <<selectedRepository, listedFiles, untracked, selectedFilePath, diffRequestID,
                 diffCache, selectedDiffDocument, isLoadingDiff, diffLoads, requested>>

DiffNext ==
  \/ \E f \in File : SelectChangedFile(f)
  \/ \E S \in SUBSET File : \E U \in SUBSET S : RefreshDiff(S, U)
  \/ \E r \in Repo \cup {None} : SwitchDiff(r)
  \/ \E l \in diffLoads : DiffFails(l) \/ \E e \in 0 .. MaxEdits : DiffReturns(l, e)
  \/ \E r \in Repo, f \in File : EditFile(r, f)

DiffSpec == DiffInit /\ [][DiffNext]_<<selectedRepository, diffVars>>

-----------------------------------------------------------------------------

DiffIsQuiet == ~ \E l \in diffLoads : IsCurrentDiffRequest(l)

\* The diff on the screen is never of another repository; when no load is under way
\* that could still change it, it is of the file that was selected last, however
\* the loads were overtaken.
DiffIsOfSelection ==
  selectedDiffDocument # Blank =>
    /\ selectedDiffDocument.repo = selectedRepository
    /\ DiffIsQuiet => selectedDiffDocument.path = selectedFilePath

\* ... and it is not older than the file was when it was selected, or refreshed: the
\* cache does not survive an edit.
DiffIsFresh ==
  selectedDiffDocument # Blank /\ DiffIsQuiet => selectedDiffDocument.edit >= requested

\* While the diff of a tracked file is loaded for the screen, the spinner is on: no
\* load that was superseded takes it away.
SpinnerShowsLoad ==
  (\E l \in diffLoads : IsCurrentDiffRequest(l) /\ ~l.key.untracked) => isLoadingDiff
================================================================================
