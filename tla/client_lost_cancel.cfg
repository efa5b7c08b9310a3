\* One command, every manner of ending, nobody quits.
CONSTANTS
  c1 = c1
  c2 = c2
  Command = {c1}
  Cancellable = {c1}
  Manner = {"byItself", "onTerm", "onKill"}
  Quits = FALSE
CHECK_DEADLOCK FALSE
SPECIFICATION Spec
PROPERTIES
  CancellationTerminates
