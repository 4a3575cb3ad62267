SPECIFICATION FairSpec
CONSTANTS
    Provider = "sql"
    Modes = {"events", "lifecycle"}
    FromIndexes = {0, 1}
    BufferSize = 2
    MaxEvents = 3
INVARIANTS
    
    
    NoSendOnClosed
    
PROPERTIES
    OverflowEndsStream
    ClosedStreamReleased
CHECK_DEADLOCK FALSE
