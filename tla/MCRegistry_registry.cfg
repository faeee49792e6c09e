CONSTANTS
    c1 = c1
    c2 = c2
    s1 = s1
    s2 = s2
    Nobody = Nobody
    Clients = {c1, c2}
    Servers = {s1, s2}
    MayCrash = {c1}
    MayAbandon = {c2}
    MayLose = {}
    MayDial = {c2}
    Callee <- MCCallee
    MaxStarts = 2
    MaxCalls <- MCMaxCalls
    MaxDials = 2
SPECIFICATION Spec
INVARIANTS TypeOK MapsAgree ListedWhileConnected ProxyKnowsClient RefusedOnlyIfAskedBefore
CHECK_DEADLOCK FALSE
