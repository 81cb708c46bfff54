SPECIFICATION FairSpec
CONSTANTS
    jet = jet
    http = http
    uds = uds
    jet6 = jet6
    jet4 = jet4
    http6 = http6
    http4 = http4
    Clients = {c1, c2}
    AllInterfaces <- AllServers
    OnlyLocal <- LocalServers
    HttpServers = {http, http6, http4}
    MaxFds = 7
    MaxFailures = 1
    MaxBatch = 2
    NoServer = NoServer
    NoEvent = NoEvent
CHECK_DEADLOCK FALSE
INVARIANT NobodyIsForgotten
INVARIANT NothingLeftOpen
INVARIANT CrashExplained
PROPERTY SignalStops
