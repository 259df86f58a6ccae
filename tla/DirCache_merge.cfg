SPECIFICATION MergeSpec
CONSTANTS
  a = a
  b = b
  c = c
  Paths <- SmallPaths
  Versions = {v1, v2}
  Absent = absent
  Tasks = {t1}
  Clashes = FALSE
  MaxDoubts = 0
INVARIANTS Coherent
