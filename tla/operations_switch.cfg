CONSTANTS
  r1 = r1
  r2 = r2
  o1 = o1
  o2 = o2
  o3 = o3
  Repo = {r1, r2}
  Operation = {o1, o2, o3}
SPECIFICATION Spec
SYMMETRY Symmetry
INVARIANTS
  MutationsDoNotOverlap
