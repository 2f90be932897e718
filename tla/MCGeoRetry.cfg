SPECIFICATION Spec
CONSTANTS
  Thread = {a}
  TagMax = 3
  PacketMax = 6
  ClientMax = 3
  None = None
  Operation = {"upsert_events"}
  MaxRetries = 2
  CallMax = 2
INVARIANTS NoDoubleExecution
CHECK_DEADLOCK FALSE
