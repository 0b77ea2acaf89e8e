SPECIFICATION Spec
CONSTANTS
  Trials <- SomeTrials
  MaxOutages = 2
CHECK_DEADLOCK FALSE
INVARIANTS ReportIsEarned FailureHasACause
