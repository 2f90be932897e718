SPECIFICATION ReplicaSpec
CONSTANTS
  Copies = 4
  ViewMax = 2
  CheckpointMax = 1
  FaultMax = 2
  Torn = Torn
  Client = {a, b}
  ClientsMax = 1
  RequestMax = 2
  Kinds = {"read", "write"}
  None = None
  CheckpointOps = 2
  CompactionOps = 1
  OpMax = 4
  RestartMax = 2
  CrashMax = 2
INVARIANTS NeverRegresses OpenFindsQuorum QueuedUpdatesAdvance NoViewForgotten RepliedIsWritten EvictedIsEvicted CheckpointOfLog
PROPERTIES AtomicUpdate RepairKeepsQuorum
CHECK_DEADLOCK FALSE
