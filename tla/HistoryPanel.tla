------------------------------ MODULE HistoryPanel ------------------------------
(***************************************************************************)
(* The commit that is shown in the history: HistoryHandler, with the calls *)
(* that the store makes of it.  The files of the anchor, the commit that   *)
(* was clicked last, are loaded, and then the diff of the first of them;   *)
(* the user may select another file meanwhile.                             *)
(*                                                                         *)
(* As in DiffPanel, a click's task runs with the click up to its first     *)
(* await.  The spinner isLoadingDiff is left out.                          *)
(***************************************************************************)
EXTENDS Window, Naturals, SequencesExt

CONSTANTS Histories,  \* the histories that a repository may have, newest first
          FilesOf,    \* of each commit, its files
          MaxTasks    \* bound: the tasks that are under way

Commit == UNION {Range(h) : h \in Histories}
CommitFile == UNION {Range(FilesOf[c]) : c \in Commit}

\* A repository may have no commits, and a commit no files.
ASSUME HistoryAssumption == /\ <<>> \in Histories
                            /\ \A h \in Histories : h \in Seq(Commit) /\ IsInjective(h)
                            /\ FilesOf \in [Commit -> Seq(CommitFile)]
                            /\ \A c \in Commit : IsInjective(FilesOf[c])
                            /\ None \notin Commit /\ None \notin CommitFile /\ MaxTasks \in Nat

VARIABLES history,  \* commits of the store
          selectedSHAs, anchorSHA,
          commitFiles,            \* whose files are shown
          loadingCommitFilesSHA,  \* nil unless isLoadingCommitFiles
          selectedCommitFilePath, selectedCommitDiffSHA,
          diffDocument,
          historyTasks,  \* historyLoadTask and historyFileDiffTask, and those they replaced
          missing        \* history: why the files of the anchor may not be shown

historyVars == <<history, selectedSHAs, anchorSHA, commitFiles, loadingCommitFilesSHA,
                 selectedCommitFilePath, selectedCommitDiffSHA, diffDocument,
                 historyTasks, missing>>

\* What is shown: of no commit, or no file.
Nothing == [repo |-> None]

HistoryTask == [id : 1 .. MaxTasks, isLoad : BOOLEAN, at : {"files", "diff"}, repo : Repo, sha : Commit,
                path : CommitFile \cup {None}, cancelled : BOOLEAN]

HistoryTypeOK ==
  /\ history \in Histories
  /\ selectedSHAs \in SUBSET Commit /\ anchorSHA \in selectedSHAs \cup {None}
  /\ commitFiles \in [repo : Repo, sha : Commit] \cup {Nothing}
  /\ loadingCommitFilesSHA \in Commit \cup {None}
  /\ selectedCommitFilePath \in CommitFile \cup {None}
  /\ selectedCommitDiffSHA \in Commit \cup {None}
  /\ diffDocument \in [repo : Repo, sha : Commit, path : CommitFile] \cup {Nothing}
  /\ historyTasks \in SUBSET HistoryTask
  /\ missing \in {"never", "failed", "superseded"}

HistoryInit ==
  /\ selectedRepository = None
  /\ history = <<>>
  /\ selectedSHAs = {} /\ anchorSHA = None
  /\ commitFiles = Nothing
  /\ loadingCommitFilesSHA = None
  /\ selectedCommitFilePath = None /\ selectedCommitDiffSHA = None
  /\ diffDocument = Nothing
  /\ historyTasks = {}
  /\ missing = "never"

-----------------------------------------------------------------------------

FirstFile(c) == IF FilesOf[c] = <<>> THEN None ELSE Head(FilesOf[c])
ShownFiles(r, c) == IF FilesOf[c] = <<>> THEN Nothing ELSE [repo |-> r, sha |-> c]

\* The newest commit of S in the list.
Topmost(S) == history[Min({i \in DOMAIN history : history[i] \in S})]

\* selectedCommit(in:)
SelectedCommit ==
  CASE anchorSHA \in Range(history) -> anchorSHA
    [] anchorSHA \notin Range(history) /\ selectedSHAs \cap Range(history) # {} -> Topmost(selectedSHAs)
    [] OTHER -> Head(history)

\* The tasks, when those of S are cancelled.
Cancel(S) == {IF t \in S THEN [t EXCEPT !.cancelled = TRUE] ELSE t : t \in historyTasks}

\* A task begins; S are the others.
Start(S, isLoad, at, c, path) ==
  \E id \in 1 .. MaxTasks :
    /\ \A i \in 1 .. MaxTasks : (\A t \in S : t.id # i) => id <= i
    /\ \A t \in S : t.id # id
    /\ historyTasks' = S \cup {[id |-> id, isLoad |-> isLoad, at |-> at, repo |-> selectedRepository,
                                sha |-> c, path |-> path, cancelled |-> FALSE]}

\* loadHistoryFiles, with loadFiles up to its first await.
LoadHistoryFiles(c) ==
  /\ Start(Cancel(historyTasks), TRUE, "files", c, None)
  /\ loadingCommitFilesSHA' = c
  /\ missing' = IF \E t \in historyTasks : t.at = "files" /\ t.sha = c THEN "superseded" ELSE "never"

\* resetFiles
ResetFiles ==
  /\ commitFiles' = Nothing
  /\ selectedCommitFilePath' = None /\ selectedCommitDiffSHA' = None
  /\ diffDocument' = Nothing

\* applySelection: the anchor that it returns, whose files are to be loaded, is
\* the commit that was added, or the topmost one if the old anchor is lost.
UpdateHistorySelection(S) ==
  LET added   == S \ selectedSHAs
      anchors == CASE Cardinality(added) = 1 -> added
                   [] Cardinality(added) # 1 /\ anchorSHA \notin S /\ S # {} -> {Topmost(S)}
                   [] OTHER -> {}
  IN
  /\ S \subseteq Range(history)
  /\ selectedSHAs' = S
  /\ IF anchors = {}
       THEN /\ anchorSHA' = IF anchorSHA \in S THEN anchorSHA ELSE None
            /\ UNCHANGED <<historyTasks, loadingCommitFilesSHA, missing>>
       ELSE \E c \in anchors : anchorSHA' = c /\ LoadHistoryFiles(c)
  /\ UNCHANGED <<selectedRepository, history, commitFiles, selectedCommitFilePath,
                 selectedCommitDiffSHA, diffDocument>>

\* clearSelection, of an operation that rewrites history: what is under way goes on.
ClearHistorySelection ==
  /\ selectedRepository # None
  /\ selectedSHAs' = {} /\ anchorSHA' = None
  /\ ResetFiles
  /\ loadingCommitFilesSHA' = None
  /\ UNCHANGED <<selectedRepository, history, historyTasks, missing>>

\* A refresh shows the history h.  If no files are shown, the anchor, or the newest
\* commit, is selected.
RefreshHistory(h) ==
  /\ selectedRepository # None
  /\ history' = h
  /\ IF commitFiles = Nothing /\ h # <<>>
       THEN LET c == IF anchorSHA \in Range(h) THEN anchorSHA ELSE Head(h) IN
            /\ selectedSHAs' = {c} /\ anchorSHA' = c
            /\ ResetFiles
            /\ LoadHistoryFiles(c)
       ELSE UNCHANGED <<selectedSHAs, anchorSHA, commitFiles, selectedCommitFilePath, missing,
                        selectedCommitDiffSHA, diffDocument, historyTasks, loadingCommitFilesSHA>>
  /\ UNCHANGED selectedRepository

\* resetPerRepositoryState
SwitchHistory(r) ==
  /\ Selects(r)
  /\ history' = <<>>
  /\ selectedSHAs' = {} /\ anchorSHA' = None
  /\ ResetFiles
  /\ loadingCommitFilesSHA' = None
  /\ historyTasks' = Cancel(historyTasks)
  /\ UNCHANGED missing

\* selectHistoryFile
SelectHistoryFile(f) ==
  /\ commitFiles # Nothing /\ history # <<>> /\ f \in Range(FilesOf[commitFiles.sha])
  /\ Start(Cancel({t \in historyTasks : ~t.isLoad}), FALSE, "diff", SelectedCommit, f)
  /\ selectedCommitFilePath' = f /\ selectedCommitDiffSHA' = SelectedCommit
  /\ UNCHANGED <<selectedRepository, history, selectedSHAs, anchorSHA, commitFiles,
                 loadingCommitFilesSHA, diffDocument, missing>>

\* Faulty variant: the files are shown, whatever was selected meanwhile.
IsCurrentFiles_Any(t) == TRUE

IsCurrentFiles(t) == ~t.cancelled /\ loadingCommitFilesSHA = t.sha

\* The files of a commit are back, or none if they could not be read.  The defer asks
\* for the commit, not for the load.  A task that was not cancelled loads the diff of
\* the file that is selected by then.
FilesReturn(t, isRead) ==
  LET live  == IsCurrentFiles(t)
      files == IF isRead THEN ShownFiles(t.repo, t.sha) ELSE Nothing
      path  == IF ~live THEN selectedCommitFilePath ELSE IF isRead THEN FirstFile(t.sha) ELSE None
      goesOn == ~t.cancelled /\ path # None
  IN
  /\ t \in historyTasks /\ t.at = "files"
  /\ commitFiles' = IF live THEN files ELSE commitFiles
  /\ selectedCommitFilePath' = path
  /\ selectedCommitDiffSHA' = IF goesOn THEN t.sha
                              ELSE IF live /\ path = None THEN None ELSE selectedCommitDiffSHA
  /\ diffDocument' = IF live /\ path = None THEN Nothing ELSE diffDocument
  /\ loadingCommitFilesSHA' = IF loadingCommitFilesSHA = t.sha THEN None ELSE loadingCommitFilesSHA
  /\ historyTasks' = (historyTasks \ {t})
                       \cup IF goesOn THEN {[t EXCEPT !.at = "diff", !.path = path]} ELSE {}
  /\ missing' = IF live /\ ~isRead THEN "failed" ELSE missing
  /\ UNCHANGED <<selectedRepository, history, selectedSHAs, anchorSHA>>

\* Faulty variant: the commit is not asked for.
IsCurrentDiff_PathOnly(t) == ~t.cancelled /\ selectedCommitFilePath = t.path

IsCurrentDiff(t) ==
  ~t.cancelled /\ selectedCommitFilePath = t.path /\ selectedCommitDiffSHA = t.sha

\* The diff of a file is back, or an empty one.
CommitDiffReturns(t, isRead) ==
  /\ t \in historyTasks /\ t.at = "diff"
  /\ IF IsCurrentDiff(t)
       THEN diffDocument' = IF isRead THEN [repo |-> t.repo, sha |-> t.sha, path |-> t.path] ELSE Nothing
       ELSE UNCHANGED diffDocument
  /\ historyTasks' = historyTasks \ {t}
  /\ UNCHANGED <<selectedRepository, history, selectedSHAs, anchorSHA, commitFiles,
                 loadingCommitFilesSHA, selectedCommitFilePath, selectedCommitDiffSHA, missing>>

HistoryNext ==
  \/ \E S \in SUBSET Commit : UpdateHistorySelection(S)
  \/ \E h \in Histories : RefreshHistory(h)
  \/ \E r \in Repo \cup {None} : SwitchHistory(r)
  \/ \E f \in CommitFile : SelectHistoryFile(f)
  \/ ClearHistorySelection
  \/ \E t \in historyTasks, isRead \in BOOLEAN : FilesReturn(t, isRead) \/ CommitDiffReturns(t, isRead)

HistorySpec == HistoryInit /\ [][HistoryNext]_<<selectedRepository, historyVars>>

-----------------------------------------------------------------------------

HistoryIsQuiet == \A t \in historyTasks : t.cancelled

\* When every load is over, the diff is blank or that of the file and the commit that
\* were selected last; it is never of another repository.
CommitDiffIsOfSelection ==
  diffDocument # Nothing =>
    /\ diffDocument.repo = selectedRepository
    /\ HistoryIsQuiet => diffDocument.sha = selectedCommitDiffSHA
                           /\ diffDocument.path = selectedCommitFilePath

AnchorIsShown == commitFiles = ShownFiles(selectedRepository, anchorSHA)

\* When every load is over, the files are those of the anchor, unless they could not be
\* read, or were loaded while a superseded load of the same commit was under way.
FilesFollowAnchor == HistoryIsQuiet /\ anchorSHA # None /\ missing = "never" => AnchorIsShown

\* "anchorSHA is the last-clicked commit — its files/diff are the ones shown"
\* (HistoryHandler.swift:8), once every load is over and has been read.
FilesAreOfAnchor == HistoryIsQuiet /\ anchorSHA # None /\ missing # "failed" => AnchorIsShown
=================================================================================
