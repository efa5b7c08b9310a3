CONSTANTS
  r1 = r1
  r2 = r2
  Repo = {r1, r2}
  None = None
  MaxVersion = 1
  MaxSelections = 2
  MaxManual = 1
  Managing = {TRUE, FALSE}
SPECIFICATION Spec
SYMMETRY RepoSymmetry
INVARIANTS
  TypeOK
  ScreenIsOfSelected
  SpinnerHasOwner
  QuietMeansLoaded
PROPERTIES
  RefreshNeverGoesBack
CHECK_DEADLOCK FALSE
