SPECIFICATION Spec
CONSTANTS
  MaxEdits = 2
INVARIANT ReadySurvivesHangup
CHECK_DEADLOCK FALSE
