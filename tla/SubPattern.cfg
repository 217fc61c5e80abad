SPECIFICATION PatternSpec
CONSTANTS
  Colon = Colon
  Star = Star
  Newline = Newline
  Digit = {d1, d2}
  AccountField = 3
  AccountLen = 1
  MaxPattern = 5
  MaxSubject = 6
INVARIANTS PinSound ExactOnlyItself PinComplete
CHECK_DEADLOCK FALSE
