SPECIFICATION Spec
CONSTANTS
  TotalItems = 2
  Concurrencies = {2}
  Nestings = {"NORMAL"}
  Policies <- LargeItems
  Oversizes = {"item"}
  MaxInvocations = 2
INVARIANT
  RecordedItemReplays
CHECK_DEADLOCK FALSE
