SPECIFICATION Spec
CONSTANTS
  o1 = o1
  h1 = h1
  Calls <- SomeCalls
  Heartbeats = {h1}
  MaxAttempts = 2
  Limit = 2
  FailClosed = FALSE
CHECK_DEADLOCK FALSE
INVARIANTS TypeOK AdmittedWithinLimit SuccessTookEffect EveryMinuteEnds
