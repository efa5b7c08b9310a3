\* Four commands on limits of one: two run, two wait, new ones keep coming.
CONSTANTS
  c1 = c1
  c2 = c2
  c3 = c3
  c4 = c4
  Command = {c1, c2, c3, c4}
  Cancellable = {c2}
  MaximumRunningCommands = 2
  MaximumRunningByPriority <- UnitLimits
SPECIFICATION Spec
INVARIANTS
  TypeOK
  Accounting
  LimitsKept
  EachCallerQueuedOnce
  NoIdleSlot
PROPERTIES
  ServedInOrder
  ImplementsAdmission
  InteractiveAndVisibleServed
  BackgroundStarvedOnlyByQueue
