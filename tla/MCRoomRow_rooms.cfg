SPECIFICATION RowSpec
CONSTANTS
    RoomIDs = {10, 22}
    MaxTitleLen = 60
    RawTitles <- MCOneTitle
    RowCapacities = {2, 8}
INVARIANTS
    RoomsDistinguished
CHECK_DEADLOCK FALSE
