SPECIFICATION Spec
CONSTANTS
  Phases = {"load", "report"}
  Pipelines = 2
  MaxEvents = 5
  CheckSteps = 2
  ChunkSteps = 1
  SectionSteps = 2
INVARIANTS TypeOK SectionsTile
PROPERTIES TraceCompletes
CHECK_DEADLOCK FALSE
