SPECIFICATION FairSpec
CONSTANTS
    Nil = Nil
    Env <- MCEnv
    FlowIds <- MCFlowIds
    Fold <- MCFold
    FlowNames <- MCFlowNames
    StageNames <- MCStageNames
    OpNames <- MCOpNames
    Queries <- MCQueries
    Existing = {"f1"}
    StageIDs <- MCStageIDs
    MaxStages = 2
    MaxTerminationHooks = 1
    MaxCalls = 2
    MaxFaults = 1
INVARIANTS
    TypeOK
    RoutedToOwner
    NoNilCommands
    AnswerMatchesEffect
    OneCompleter
    AwaitTellsResult
    AnsweredIsVisible
PROPERTIES
    EveryCallEnds
CHECK_DEADLOCK FALSE
