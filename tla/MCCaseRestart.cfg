SPECIFICATION Spec
CONSTANTS
  MaxAttempts = 2
  MaxRequests = 2
  MaxActs = 2
  MaxFaults = 2
PROPERTIES
  ReceiptIsReconciled
CHECK_DEADLOCK FALSE
