SPECIFICATION Spec
CONSTANTS
    MaxStages = 2
    MaxTerminationHooks = 0
    MaxDeps = 0
    MaxSpawns = 2
    Operations = {"supply"}
    External = {}
    FailureKinds = {"crash"}
    Provider = "mysql"
INVARIANTS
    InvokedAtMostOnce
\* A flow is driven by its clients and stops when they do.
CHECK_DEADLOCK FALSE
