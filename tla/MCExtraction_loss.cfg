SPECIFICATION Spec
CONSTANTS
  Stream <- MCStream
  Limits = {1, 2, 3}
  MaxAttempts = 2
  MaxRestarts = 0
  MaxErrors = 0
INVARIANTS RemovedWhenConsumed
CHECK_DEADLOCK FALSE
