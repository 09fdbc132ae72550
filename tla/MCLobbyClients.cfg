CONSTANTS
    c1 = c1  c2 = c2  c3 = c3
    Conn = {c1, c2}
    NoConn = NoConn
    MaxPlayerID = 2
    MaxRoomID = 2
    Capacities = {2}
    Viewers = {c1}
    Hangers = {c1, c2}
    DevFlags = {TRUE, FALSE}
    ShowStartedRooms = FALSE
    Sums <- MCSums
    ControlSum <- MCControlSum
SPECIFICATION LiveSpec
INVARIANTS
    GetTblComplete
PROPERTIES
    SilentRoomsReaped
ACTION_CONSTRAINT OneAtATime
