\* Stages composed with delays, with values and with each other, with restarts, which
\* calls and timers of the earlier incarnation survive, and the in-memory provider.
SPECIFICATION Spec
CONSTANTS
    MaxStages = 3
    MaxTerminationHooks = 0
    MaxDeps = 1
    MaxSpawns = 2
    Operations = {"completedValue", "delay", "thenCompose"}
    External = {}
    FailureKinds = {"restart"}
    Provider = "inmem"
INVARIANTS
    FirstResultWins
    LastComposedCompletes
\* A flow is driven by its clients and stops when they do.
CHECK_DEADLOCK FALSE
