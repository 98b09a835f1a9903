SPECIFICATION FairSpec
CONSTANTS
  Branches = {root, b1}
  Root = root
  Invoker = invoker
  Kinds = {"checkpoint", "noWait"}
  Sizes = {2}
  BatchBytes = 1
  BatchUpdates = 2
  MaxRequests = 2
  Faults = {"cancelBranch", "cancelInvocation", "noToken"}
CHECK_DEADLOCK FALSE
INVARIANTS AckedStartRecorded CutoffHonoured
PROPERTIES EveryRequestAnswered OutcomeIsReported
