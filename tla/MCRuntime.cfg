SPECIFICATION MCSpec
CONSTANTS
    Configs <- Layers
    Foreign = {"tcp", "a"}
    MaxInflight = 1
INVARIANTS
    ListenersSound
PROPERTIES
    
    ProxyStops
    CancelStopsListeners
CHECK_DEADLOCK FALSE
