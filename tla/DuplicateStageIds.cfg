SPECIFICATION Spec
CONSTANTS
    Flows = {f1}
    None = None
    MaxRequests = 3
    MaxFaults = 1
INVARIANT StageIdsUnique
CHECK_DEADLOCK FALSE
