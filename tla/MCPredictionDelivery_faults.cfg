SPECIFICATION Spec
CONSTANTS
  live = live
  replay = replay
  l1 = l1
  l2 = l2
  m1 = m1
  k = k
  NoKey = NoKey
  NoSource = NoSource
  NoEvent = NoEvent
  Source = {live}
  Event = {m1}
  Key = {k}
  KeyOf <- MCKeyOf
  Batches <- MCSingle
  Receipts = {"accepted", "promoted", "refused"}
  MaxAttempts = 3
  MaxRuns = 2
  MaxRestarts = 2
  MaxDiskErrors = 2
INVARIANTS PostsBounded RunStateNeverAhead NothingUnregistered
PROPERTIES ImplementsDelivery EverySettles
CHECK_DEADLOCK FALSE
