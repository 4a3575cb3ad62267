\* One flow, three requests, two failures.
SPECIFICATION FairSpec
CONSTANTS
    Flows = {f1}
    None = None
    MaxRequests = 3
    MaxFaults = 2
INVARIANTS
    
    RecordedBeforeAnswered
    OnlyDoneOrIdleRetired
    AnswersTellTheTruth
PROPERTIES
    ActiveRespawned
    FailedActorRecovers
\* Requests come from clients, and may stop coming.
CHECK_DEADLOCK FALSE
