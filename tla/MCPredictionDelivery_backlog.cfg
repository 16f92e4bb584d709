SPECIFICATION Spec
CONSTANTS
  live = live
  replay = replay
  l1 = l1
  l2 = l2
  m1 = m1
  k = k
  NoKey = NoKey
  NoSource = NoSource
  NoEvent = NoEvent
  Source = {live, replay}
  Event = {l1, l2, m1}
  Key = {k}
  KeyOf <- MCKeyOf
  Batches <- MCBacklog
  Receipts = {"promoted"}
  MaxAttempts = 2
  MaxRuns = 2
  MaxRestarts = 0
  MaxDiskErrors = 0
INVARIANT MaintenancePreempts
CHECK_DEADLOCK FALSE
