SPECIFICATION FairSpec
CONSTANTS
  Jobs = {j1, j2, j3, l1}
  Legacy = {l1}
  Inputs = {live, copy, replay1, replay2, old}
  MaxAttempts = 2
  MaxRestarts = 2
  MaxStoreErrors = 1
  NoEvent = NoEvent
  NoJob = NoJob
  j1 = j1
  j2 = j2
  j3 = j3
  live = live
  copy = copy
  replay1 = replay1
  replay2 = replay2
  old = old
  ev1 = ev1
  SourceIdentity <- MCSourceIdentity
  DedupKey <- MCDedupKey
  ReplayEvent <- MCReplayEvent
  LegacyInput <- MCLegacyInput
  LegacySeq <- MCLegacySeq
ACTION_CONSTRAINT IdsInOrder
INVARIANTS UniqueSourceIdentity AttemptBound OvertakenOnce
PROPERTIES TerminalStable EveryJobSettles
CHECK_DEADLOCK FALSE
