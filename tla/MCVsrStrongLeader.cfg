CONSTANTS
    ReplicaCount = 2
    QuorumReplication = 1
    QuorumViewChange = 2
    PipelineMax = 1
    OpMax = 1
    ViewMax = 2
    CrashMax = 3
    None = None
    Torn = Torn
    Rotten = Rotten
    Rotting = {}
SPECIFICATION Spec
INVARIANTS Agreement
ACTION_CONSTRAINTS NoResend
CHECK_DEADLOCK FALSE
