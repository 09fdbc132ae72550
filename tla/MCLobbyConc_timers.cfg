CONSTANTS
    MaxPlayerID = 2
    MaxRoomID = 2
    Capacities = {2}
    Timed = {1, 2}
    Starters = {2}
    Creators = {1}
    MaxRequests = 3
    Free = Free
    NoRow = NoRow
    NoSum = NoSum
    Sums <- RowType
    ControlSum <- MCRowSum
SPECIFICATION LiveSpec
INVARIANTS
    
    NoEntryAfterDisconnect
PROPERTIES
    HandlersFinish
