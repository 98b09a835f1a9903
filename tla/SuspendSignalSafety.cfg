SPECIFICATION Spec
CONSTANTS
  Root = root
  Async = {a1}
  RootKinds = {"launch", "await"}
  AsyncKinds = {"await", "step"}
  RootCalls = 2
  AsyncCalls = 2
  Polled = {a1}
  MaxPolls = 1
  CtxEnds = TRUE
CHECK_DEADLOCK FALSE
INVARIANTS TypeOK NoLostWakeup SwallowedIsPending
PROPERTIES DecidesOnlyWhenStuck DrainCoversSpans
