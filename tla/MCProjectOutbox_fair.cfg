SPECIFICATION FairSpec
CONSTANTS
  a1 = a1
  a2 = a2
  b1 = b1
  c1 = c1
  machine1 = machine1
  machine2 = machine2
  actionA = actionA
  actionB = actionB
  actionC = actionC
  NoEvent = NoEvent
  NoWorker = NoWorker
  Events = {a1, a2, c1}
  Workers = {w1, w2}
  Stream <- MCStream
  Lifecycle <- MCLifecycle
  Version <- MCVersion
  MaxAttempts = 2
  MaxReplays = 1
INVARIANTS HandledInOrder NoStreamBlocksAnother
PROPERTIES ImplementsDelivery EventuallyDelivered
CHECK_DEADLOCK FALSE
