SPECIFICATION Spec
CONSTANTS
  Calls = {a}
  CommitCall = CommitCall
  DataAnalysis <- Analysis
  MaxSegments = 2
  MaxWorkers = 2
  MaxActions = 2
  MaxAutomatic = 1
INVARIANT ResumedRunCommits
CHECK_DEADLOCK FALSE
