SPECIFICATION Spec
CONSTANTS
  s1 = s1
  q1 = q1
  q2 = q2
  q3 = q3
  r1 = r1
  r2 = r2
  c1 = c1
  c2 = c2
  Runs = {r1}
  Sessions = {s1}
  SessionOf <- OneSession
  Requests = {q1}
  BlankInput = {}
  Calls = {c1}
  NoRun = NoRun
  NoRequest = NoRequest
  NoCall = NoCall
  ReclaimLimit = 2
PROPERTY CancelIsFinal
CHECK_DEADLOCK FALSE
