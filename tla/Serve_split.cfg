SPECIFICATION Spec
CONSTANTS
    Requests <- MCRequests
    Keepalive = TRUE
    BuffSize = 5
    MaxRequests = 2
    MaxTimeouts = 0
    Uris = {"a", "b"}
    Globs <- MCGlobs
    Servlets = {s, t}
    NoServlet = NoServlet
    MaxTableOps = 3
    Responses <- MCResponses
    RspBuffSize = 6
    MaxExchanges = 2
    MaxRspTimeouts = 1
    Callers = {u, v}
    ConnIds = {1, 2, 3}
    NoConn = NoConn
    MaxRequest = 2
    ServerThreads = {t1, t2}
    Socks = {s1, s2}
    MaxClients = 2
    MaxCalls = 4
    MaxStarts = 2
    MaxErrors = 1
    Launches = {l1, l2}
    Daemons = {l1}
    MaxCrashes = 2
CHECK_DEADLOCK FALSE
INVARIANT RequestWhole
