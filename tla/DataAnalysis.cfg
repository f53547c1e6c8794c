SPECIFICATION Spec
CONSTANTS
  User = {R1, R2}
  Structured = {R1}
  Derived = {R2}
  Modes = {"live", "unavailable"}
  MaxCalls = 4
  Width = 2
INVARIANTS TypeOK PhaseSound DecisionIsCurrent EvidenceInOrder ClaimsRest ReportAfterClaims
CHECK_DEADLOCK FALSE
