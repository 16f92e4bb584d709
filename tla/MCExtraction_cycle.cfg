SPECIFICATION FairSpec
CONSTANTS
  Stream <- MCStream
  Limits = {1, 2, 3}
  MaxAttempts = 2
  MaxRestarts = 1
  MaxErrors = 1
INVARIANTS
  BatchesTile
  FirstWindowKept
  PublishedWhenClosed
  NeverBlockedInOrdinaryOperation
PROPERTIES
  DatasetsImmutable
  ClosedWindowsPublished
CHECK_DEADLOCK FALSE
