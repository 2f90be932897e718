SPECIFICATION SoloSpec
CONSTANTS
  Client = {a}
  ClientsMax = 1
  RequestMax = 2
  Kinds = {"write"}
  None = None
  CheckpointOps = 2
  CompactionOps = 1
  OpMax = 4
  RestartMax = 1
INVARIANTS ExecutedOnce
CHECK_DEADLOCK FALSE
