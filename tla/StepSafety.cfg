SPECIFICATION Spec
CONSTANTS
  Semantics = {"AtMostOncePerRetry", "AtLeastOncePerRetry"}
  Starts = {"Step", "StepAsync"}
  MaxAttempts = 2
  MaxInvocations = 3
CHECK_DEADLOCK FALSE
INVARIANTS TypeOK AttemptRunsOnce AttemptsBounded
PROPERTIES NoRerunAfterOutcome ImplementsContract
