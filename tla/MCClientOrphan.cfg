SPECIFICATION Spec
CONSTANTS
  MaxCommands = 2
  MaxFaults = 2
  MaxRevisions = 2
INVARIANTS
  UnsavedOffersRetry
CHECK_DEADLOCK FALSE
