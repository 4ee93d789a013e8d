SPECIFICATION Spec
CONSTANTS
  ControlRequests = {c1}
  Endpoints = {e1}
  InTargets = {e1}
  MaxId = 7
  MaxTransfers = 3
  Devices = {d1}
  Results = {"ok"}
  MaxSelections = 3
  DrainLimit = 2
  MaxActionsPerPoll = 1
  RingCap = 1
  MaxPending = 2
  None = None
INVARIANTS SnapshotLoadable OwnCompletion SuccessMeansExecuted QueueServed
PROPERTIES ExecutedOnce TransferFinishes
CHECK_DEADLOCK FALSE
