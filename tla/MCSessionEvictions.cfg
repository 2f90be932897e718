SPECIFICATION Spec
CONSTANTS
  Client = {a, b}
  ClientsMax = 1
  RequestMax = 1
  Kinds = {"write"}
  None = None
  ReplicaCount = 2
  QuorumReplication = 2
  QuorumViewChange = 2
  OpMax = 3
  ViewMax = 2
  Requester = a
INVARIANTS ExecuteAssertions ReceiptsProven PreparedOnce
ACTION_CONSTRAINT OneRequester
CHECK_DEADLOCK FALSE
