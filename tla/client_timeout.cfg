\* One command that nobody cancels, nobody quits.
CONSTANTS
  c1 = c1
  c2 = c2
  Command = {c1}
  Cancellable = {}
  Manner = {"byItself", "onTerm", "onKill"}
  Quits = FALSE
CHECK_DEADLOCK FALSE
SPECIFICATION Spec
INVARIANTS
  TimeoutIsReported
