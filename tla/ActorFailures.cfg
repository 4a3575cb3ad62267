\* Two stages, every kind of failure, clients that complete stages themselves.
SPECIFICATION Spec
CONSTANTS
    MaxStages = 2
    MaxTerminationHooks = 1
    MaxDeps = 1
    MaxSpawns = 2
    Operations = {"supply", "terminationHook", "delay", "thenCompose", "invokeFunction"}
    External = {"supply"}
    FailureKinds = {"restart", "crash", "passivate"}
    Provider = "mysql"
INVARIANTS
    TypeOK
    
    
    NothingLeftUndone
    
    InvokedOncePerIncarnation
    
    

    
\* A flow is driven by its clients and stops when they do.
CHECK_DEADLOCK FALSE
