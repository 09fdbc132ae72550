CONSTANTS
    c1 = c1  c2 = c2  c3 = c3
    Conn = {c1, c2, c3}
    NoConn = NoConn
    MaxPlayerID = 3
    MaxRoomID = 2
    Capacities = {2}
    Viewers = {}
    Hangers = {}
    DevFlags = {FALSE}
    ShowStartedRooms = FALSE
    Sums <- MCSums
    ControlSum <- MCControlSum
SPECIFICATION Spec
INVARIANTS
    TypeOK
    RegistrySound
    SessionsSound
    KeepAliveCovers
PROPERTIES
    RoomLifecycle
    
    KeepsPromises
SYMMETRY MCSymmetry
