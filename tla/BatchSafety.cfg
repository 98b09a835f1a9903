SPECIFICATION Spec
CONSTANTS
  TotalItems = 3
  Concurrencies = {1, 2}
  Nestings = {"NORMAL", "FLAT"}
  Policies <- MCPolicies
  Oversizes = {"batch", "item"}
  MaxInvocations = 2
INVARIANTS
  TypeOK
  IdsAgree
  ReasonJustified
  NeverStuck
PROPERTIES
  ImplementsContract
  NothingAfterParent
  SuspendsOnlyWhenStuck
CHECK_DEADLOCK FALSE
