SPECIFICATION Spec
CONSTANTS
  Programs <- SubmitterFails
  MaxFailures = 1
PROPERTY OutcomesStable
