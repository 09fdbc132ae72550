CONSTANTS
    p1 = p1  p2 = p2  stranger = stranger  Host = p1  NoStat = NoStat
    Player = {p1, p2}
    Reporters = {p1, p2}
    Wire = 4
    Word = 8
    Window <- MCWindow
    StartLists <- MCStartLists
    TimeSteps = {0, 2}
    CountSteps = {1}
    ScoreSteps <- OneScore
    Populations = {0}
    Stores <- OneStock
    MaxTime = 2
    MaxReports = 2
    MaxMatch = 2
SPECIFICATION MCSpec
INVARIANTS
    StatsFollowGame
    RollingExact
    TicksInStep
    
