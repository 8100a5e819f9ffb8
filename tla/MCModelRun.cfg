SPECIFICATION RunSpec
CONSTANTS
    Bytes <- MCBytes
    Limit = 2
    MaxPrinted = 4
    Processes = {leader, child, grandchild}
    Leader = leader
    Documents <- MCDocuments
INVARIANTS
    RunTypeOK
    BufferIsPrefix
    TruncationIsReported
    ResultOfWholeOutput
    CancelLeavesNoGroup
PROPERTIES
    RunEnds
CHECK_DEADLOCK FALSE
