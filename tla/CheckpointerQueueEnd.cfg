SPECIFICATION Spec
CONSTANTS
  Branches = {root}
  Root = root
  Invoker = invoker
  Kinds = {"checkpoint", "noWait"}
  Sizes = {1}
  BatchBytes = 2
  BatchUpdates = 2
  MaxRequests = 2
  Faults = {}
CHECK_DEADLOCK FALSE
INVARIANT QueuedSentBeforeResponse
