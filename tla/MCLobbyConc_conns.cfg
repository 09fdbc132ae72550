CONSTANTS
    MaxPlayerID = 3
    MaxRoomID = 2
    Capacities = {2}
    Timed = {}
    Starters = {1, 2}
    Creators = {1, 2}
    MaxRequests = 4
    Free = Free
    NoRow = NoRow
    NoSum = NoSum
    Sums <- RowType
    ControlSum <- MCRowSum
SPECIFICATION Spec
INVARIANTS
    PlayerMapCurrent
    DisconnectClosesRoom
    ListedRoomsResolve
