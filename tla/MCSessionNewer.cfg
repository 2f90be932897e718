SPECIFICATION Spec
CONSTANTS
  Client = {a, b}
  ClientsMax = 1
  RequestMax = 1
  Kinds = {"write"}
  None = None
  ReplicaCount = 4
  QuorumReplication = 2
  QuorumViewChange = 3
  OpMax = 3
  ViewMax = 3
  Requester = a
INVARIANTS NoClientBug
ACTION_CONSTRAINTS OneRequester Partition Silence
CHECK_DEADLOCK FALSE
