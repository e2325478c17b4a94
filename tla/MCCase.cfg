SPECIFICATION Spec
CONSTANTS
  MaxAttempts = 2
  MaxRequests = 2
  MaxActs = 2
  MaxFaults = 2
INVARIANTS
  AppliedOnceAsAsked
  JournalTellsTheTruth
  RequestHoldsItsCase
  ResolvedIsSettled
PROPERTIES
  FrozenUntouched
  RequestsConclude
CHECK_DEADLOCK FALSE
