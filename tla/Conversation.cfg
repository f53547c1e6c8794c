SPECIFICATION Spec
CONSTANTS
  s1 = s1
  b1 = b1
  r1 = r1
  r2 = r2
  b2 = b2
  Sessions = {s1, b1, b2}
  Roots = {s1}
  Runs = {r1, r2}
  Questions = {q1, q2}
  q1 = q1
  q2 = q2
  NoSession = NoSession
  NoRun = NoRun
  LoadLimit = 2
  Trigger = 2
  KeepRecent = 1
  MaxMessages = 4
SYMMETRY Identical
INVARIANTS TypeOK SummaryCovers BranchBeforeRun
PROPERTIES BranchFrozen
CHECK_DEADLOCK FALSE
