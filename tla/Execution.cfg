SPECIFICATION FairSpec
CONSTANTS
    Providers = {"inmem", "sql"}
    Arg = Arg
    None = None
    Bodies = {None, 0, 1}
    MaxInvocations = 2
INVARIANTS
    TypeOK
    OwnOutput
    ArgumentDelivered
    GaugeCountsCalls
PROPERTIES
    EveryInvocationAnswered
CHECK_DEADLOCK FALSE
