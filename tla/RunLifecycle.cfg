SPECIFICATION FairSpec
CONSTANTS
  s1 = s1
  q1 = q1
  q2 = q2
  q3 = q3
  r1 = r1
  r2 = r2
  c1 = c1
  c2 = c2
  Runs = {r1, r2}
  Sessions = {s1}
  SessionOf <- OneSession
  Requests = {q1, q2, q3}
  BlankInput = {q3}
  Calls = {c1, c2}
  NoRun = NoRun
  NoRequest = NoRequest
  NoCall = NoCall
  ReclaimLimit = 2
CONSTRAINT InOrder
INVARIANTS TypeOK OneWorkerPerRun RegistryExact SuspendedKeepsQuestion
PROPERTIES Leased WorkerEnds CrashReclaimed
CHECK_DEADLOCK FALSE
