SPECIFICATION Spec
CONSTANTS
  Programs <- Handled
  MaxFailures = 1
INVARIANTS TypeOK HookDiscipline LoggedOnce NothingRunsUnderResult NeverRejected Resumable
PROPERTY OutcomesStable
