SPECIFICATION Spec
CONSTANTS
  Client = {a}
  ClientsMax = 1
  RequestMax = 1
  Kinds = {"write"}
  None = None
  ReplicaCount = 4
  QuorumReplication = 2
  QuorumViewChange = 3
  OpMax = 1
  ViewMax = 3
  Requester = a
INVARIANTS EvictedIsEvicted
ACTION_CONSTRAINTS Partition
CHECK_DEADLOCK FALSE
