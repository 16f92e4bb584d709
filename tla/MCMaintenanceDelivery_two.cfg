SPECIFICATION DeliverySpec
CONSTANTS
  a1 = a1
  a2 = a2
  a3 = a3
  machine = machine
  actionA = actionA
  NoEvent = NoEvent
  NoWorker = NoWorker
  Events = {a1, a2, a3}
  Workers = {w1, w2}
  Stream <- MCStream
  Lifecycle <- MCLifecycle
  Version <- MCVersion
  MaxAttempts = 2
  MaxReplays = 1
  Deployments <- MCDeployments
SYMMETRY Symmetry
INVARIANTS ProcessedReached ReachedInOrder CopiesBounded
CHECK_DEADLOCK FALSE
