SPECIFICATION Spec
CONSTANTS
  MaxCommands = 2
  MaxFaults = 1
  MaxRevisions = 2
INVARIANTS
  CompletionIsSavable
CHECK_DEADLOCK FALSE
