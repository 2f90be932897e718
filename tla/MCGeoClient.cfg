SPECIFICATION FairSpec
CONSTANTS
  Thread = {a, b}
  TagMax = 2
  PacketMax = 4
  ClientMax = 3
  None = None
  Operation = {"upsert_events", "get_topology"}
  Writer = a
  MaxRetries = 1
  CallMax = 2
INVARIANTS OwnAnswer CallsInOrder AnsweredIsExecuted
PROPERTIES CallsReturn
ACTION_CONSTRAINTS OneOfEach QuietClose PromptEviction
CHECK_DEADLOCK FALSE
