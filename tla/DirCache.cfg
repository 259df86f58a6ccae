SPECIFICATION Spec
CONSTANTS
  a = a
  b = b
  c = c
  Paths <- TreePaths
  Versions = {v1, v2}
  Absent = absent
  Tasks = {t1}
  Clashes = FALSE
  MaxDoubts = 0
SYMMETRY Symmetry
INVARIANT Coherent
