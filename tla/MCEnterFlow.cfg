SPECIFICATION MCSpec
CONSTANTS
    c1 = c1  c2 = c2
    Conns = {c1, c2}
    Requests <- FewRequests
    Configured = {"lcn", "wcl"}
    Known = {"lcn", "wcl"}
    IssuedIDs = {1}
    ExpFrom = 3
    MaxNickLen = 2
INVARIANTS
    IdentitiesSound
    PostsReachIssuer
PROPERTIES
    EnterAnswered
