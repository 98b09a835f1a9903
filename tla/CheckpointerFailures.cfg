SPECIFICATION Spec
CONSTANTS
  Branches = {root, b1}
  Root = root
  Invoker = invoker
  Kinds = {"checkpoint", "noWait", "poll"}
  Sizes = {1}
  BatchBytes = 2
  BatchUpdates = 2
  MaxRequests = 2
  Faults = {"noToken", "loseReply", "supersede", "reject", "serdes"}
CHECK_DEADLOCK FALSE
INVARIANTS TypeOK TokenAgreement RecordedIsPrefix AnswersJustified
PROPERTY ImplementsLog
