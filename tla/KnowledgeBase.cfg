SPECIFICATION Spec
CONSTANTS
  t1 = t1
  t2 = t2
  t3 = t3
  Tasks = {t1, t2, t3}
  MaxDocs = 2
  MaxChunks = 3
  Batch = 2
SYMMETRY Identical
INVARIANTS TypeOK StatusMatchesVectors
CHECK_DEADLOCK FALSE
