SPECIFICATION FairSpec
CONSTANTS
  MaxCommands = 2
  MaxFaults = 1
  MaxRevisions = 2
INVARIANTS
  TypeOK
  AppliedInOrder
  SummaryIsTheSession
PROPERTIES
  WholeSessionIsStaged
  ResumedStaysOpen
  QueueDrains
  CompletedIsSaved
CHECK_DEADLOCK FALSE
