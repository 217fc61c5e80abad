SPECIFICATION FairSpec
CONSTANTS
  MaxEdits = 2
INVARIANTS LastHangupHonoured ServesValid
PROPERTIES ReloadsOnlyAdvance HangupLeadsToReload
CHECK_DEADLOCK FALSE
