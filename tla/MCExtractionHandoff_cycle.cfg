SPECIFICATION FairSpec
CONSTANTS
  h1 = h1
  loop = loop
  r1 = r1
  Handoffs <- MCHandoffs
  Loop = loop
  Requests <- MCRequests
  MaxRetries = 2
  MaxStarts = 2
  MaxFaults = 2
INVARIANTS EnqueuedIsQueued RecordKept EnqueueingAttended
PROPERTIES EveryHandoffDecided
CHECK_DEADLOCK FALSE
