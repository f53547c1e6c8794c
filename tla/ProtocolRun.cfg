SPECIFICATION FairSpec
CONSTANTS
  Calls = {a, b}
  CommitCall = CommitCall
  DataAnalysis <- Analysis
  MaxSegments = 3
  MaxWorkers = 2
  MaxActions = 3
  MaxAutomatic = 1
INVARIANTS TypeOK JournalExact Published OneOpenSegment RequestedIsInFlight CompletedIsAnswered
PROPERTIES EndedStaysEnded RunSettles
CHECK_DEADLOCK FALSE
