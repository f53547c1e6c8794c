SPECIFICATION Spec
CONSTANTS
  c1 = c1
  c2 = c2
  Calls = {c1, c2}
  Governed = {c1}
  Tasks = {c1}
  NoCall = NoCall
  Pipelines = 2
INVARIANTS TypeOK ResultsSettled TerminalEndsRun
CHECK_DEADLOCK FALSE
