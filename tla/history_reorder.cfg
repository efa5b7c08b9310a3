CONSTANTS
  r1 = r1
  p1 = p1
  p2 = p2
  p3 = p3
  p4 = p4
  Repo = {r1}
  None = None
  Path = {p1, p2, p3, p4}
  Initial <- ThreeCommits
  MaxOthers = 5
SPECIFICATION RewriteSpec
PROPERTY
  ReorderKeepsCommits
CHECK_DEADLOCK FALSE
