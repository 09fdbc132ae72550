CONSTANTS
    MaxPlayerID = 1
    MaxRoomID = 2
    Capacities = {2}
    Timed = {1}
    Starters = {}
    Creators = {1}
    MaxRequests = 4
    Free = Free
    NoRow = NoRow
    NoSum = NoSum
    Sums <- RowType
    ControlSum <- MCRowSum
SPECIFICATION Spec
INVARIANTS
    DisconnectClosesRoom
