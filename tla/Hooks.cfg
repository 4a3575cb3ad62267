\* Up to two termination hooks and regular stages, fair behaviours, with crashes.
SPECIFICATION FairSpec
CONSTANTS
    MaxStages = 3
    MaxTerminationHooks = 2
    MaxDeps = 1
    MaxSpawns = 2
    Operations = {"supply", "thenApply", "terminationHook"}
    External = {}
    FailureKinds = {"crash"}
    Provider = "sqlite3"
INVARIANTS
    DrainedBeforeEnd
    HooksRunLIFO

    
\* A flow is driven by its clients and stops when they do.
CHECK_DEADLOCK FALSE
