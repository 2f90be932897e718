CONSTANTS
    ReplicaCount = 3
    QuorumReplication = 2
    QuorumViewChange = 2
    PipelineMax = 2
    OpMax = 1
    ViewMax = 1
    CrashMax = 0
    None = None
    Torn = Torn
    Rotten = Rotten
    Rotting = {}
SPECIFICATION FairSpec
INVARIANTS TypeOK Agreement
PROPERTIES Converges
CHECK_DEADLOCK FALSE
