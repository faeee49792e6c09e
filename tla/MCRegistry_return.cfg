CONSTANTS
    c1 = c1
    c2 = c2
    s1 = s1
    s2 = s2
    Nobody = Nobody
    Clients = {c1, c2}
    Servers = {s1}
    MayCrash = {c1}
    MayAbandon = {c2}
    MayLose = {c2}
    MayDial = {c2}
    Callee <- MCCallee
    MaxStarts = 2
    MaxCalls <- MCTwice
    MaxDials = 1
SPECIFICATION FairSpec
INVARIANTS ProxyKnowsClient
PROPERTIES Forgotten RegisterReturns
CHECK_DEADLOCK FALSE
