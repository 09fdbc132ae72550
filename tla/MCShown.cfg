SPECIFICATION MCSpec
CONSTANTS
    MaxPlayerID = 3
    MaxRoomID = 2
    MaxRecords = 2
    Capacities = {3}
    Sums <- PageSums
    ControlSum <- PageSum
    Hosts = {7}
    KeepAlive = 2
    MaxDelay = 1
    MaxTime = 9
    MaxLost = 1
    Kinds = {"ok", "short", "foreign"}
    RoomIDs = {9, 16}
    MaxTitleLen = 3
    RawTitles <- TwoTitles
    RowCapacities = {10}
INVARIANTS
    EditsDetected
    RowSound
    PageNamesMembers
    EndpointRecent
    HostReached
PROPERTIES
    NamedInJoinOrder
CHECK_DEADLOCK FALSE
