SPECIFICATION Spec
CONSTANTS
  Programs <- OneStep
  MaxFailures = 1
INVARIANT EndsRecorded
