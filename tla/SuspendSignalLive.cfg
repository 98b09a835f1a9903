SPECIFICATION FairSpec
CONSTANTS
  Root = root
  Async = {a1}
  RootKinds = {"launch", "await", "checkpoint"}
  AsyncKinds = {"await", "step"}
  RootCalls = 2
  AsyncCalls = 1
  Polled = {root}
  MaxPolls = 1
  CtxEnds = FALSE
CHECK_DEADLOCK FALSE
INVARIANT DoneReleasesAll
PROPERTY InvocationEnds
