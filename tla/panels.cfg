CONSTANTS
  r1 = r1
  r2 = r2
  p1 = p1
  p2 = p2
  b1 = b1
  c1 = c1
  None = None
  Repo = {r1, r2}
  Path = {p1, p2}
  MaxUndos = 1
  File = {p1, p2}
  MaxRequests = 4
  MaxEdits = 1
  Histories <- ThreeHistories
  FilesOf <- FilesOfThree
  MaxTasks = 2
  Stash = {p1, p2}
  MaxCalls = 1
  Branch = {b1}
  MaxGenerations = 3
  MaxChanges = 1
  MaxBranchCalls = 2
  ConflictPath = {c1}
  MaxStops = 2
  MaxConflictCalls = 2
SPECIFICATION PanelSpec
SYMMETRY PanelSymmetry
INVARIANTS
  PanelTypeOK
  WholeSelection
  DiffIsOfSelection
  DiffIsFresh
  SpinnerShowsLoad
  CommitDiffIsOfSelection
  FilesFollowAnchor
  SheetIsInStep
  GuardIsOfRepository
  PendingHasCall
  ListFollowsGit
  ContinueMeansResolved
PROPERTIES
  ListNeverGoesBack
CHECK_DEADLOCK FALSE
