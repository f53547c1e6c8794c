SPECIFICATION Spec
CONSTANTS
  a = a
  b = b
  c = c
  Calls = {a, b, c}
  Completion = Completion
  MaxActions = 2
  Attempts = 2
  Undecided = Undecided
SYMMETRY Identical
INVARIANTS TypeOK ToldTruly
PROPERTIES Atomic
CHECK_DEADLOCK FALSE
