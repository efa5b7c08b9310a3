\* One command, every manner of ending, with and without quitting.
CONSTANTS
  c1 = c1
  c2 = c2
  Command = {c1}
  Cancellable = {c1}
  Manner = {"byItself", "onTerm", "onKill"}
  Quits = TRUE
CHECK_DEADLOCK FALSE
SPECIFICATION Spec
INVARIANTS
  TypeOK
  PermitCoversProcess
  NothingOutlivesRun
  OutcomeIsTrue
  SweepReachesRunning
PROPERTIES
  EveryCommandEnds
