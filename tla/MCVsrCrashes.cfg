CONSTANTS
    ReplicaCount = 2
    QuorumReplication = 2
    QuorumViewChange = 2
    PipelineMax = 2
    OpMax = 2
    ViewMax = 2
    CrashMax = 2
    None = None
    Torn = Torn
    Rotten = Rotten
    Rotting = {1, 2}
SPECIFICATION Spec
INVARIANTS NoHashChainPanic HandlerAssertions PrimaryHoldsCommitted AcknowledgedKept AcknowledgedNeverNacked AdvertisedDurable DoViewChangePromise
PROPERTIES ImplementsLog NoDoublePrepare DurableNeverRegresses
ACTION_CONSTRAINTS NoResend OpsOrViews
CHECK_DEADLOCK FALSE
