SPECIFICATION Spec
CONSTANTS
  Names = {0, 1, 3, 4, 7}
  InitialSize = 3
  Start <- MCStart
  CanAdd = TRUE
  CanDelete = TRUE
  CanDeleteAny = TRUE
INVARIANTS VisitedOnce VisitsAll
PROPERTY VisitsWhatIsThere NextReturns
CHECK_DEADLOCK FALSE
