CONSTANTS
    Char <- Chars
    TextSets <- WrittenSets
    Params <- OpenParams
    GoArgs <- GoLists
    Sets <- FrameSets
    Faults <- FrameFaults
    MaxFrames = 2
    MaxSize = 20
    Requests <- ConnRequests
    MaxRequests = 3
SPECIFICATION MCSpec
INVARIANTS
    TextRead
    FramesAligned
    RepliesPairUp
    EndsCleanly
PROPERTIES
    FramesRead
    RequestsServed
