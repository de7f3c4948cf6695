SPECIFICATION Spec
CONSTANTS
  Files = {f}
  start_port = 10
  end_port = 12
  MaxChildren = 2
INVARIANTS CompletedSurvives
CHECK_DEADLOCK FALSE
