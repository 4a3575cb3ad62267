SPECIFICATION Spec
CONSTANTS
    Nil = Nil
    Env <- MCEnv
    FlowIds <- MCFlowIds
    Fold <- MCFold
    FlowNames <- MCFlowNames
    StageNames <- MCStageNames
    OpNames <- MCOpNames
    Queries <- MCQueries
    Existing = {"f1"}
    StageIDs <- MCStageIDs
    MaxStages = 2
    MaxTerminationHooks = 1
    MaxCalls = 1
    MaxFaults = 0
INVARIANT
    ErrorsReachCallers
CHECK_DEADLOCK FALSE
