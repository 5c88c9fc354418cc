CONSTANTS
    web = web
    sse = sse
    ca = ca
    cb = cb
    Clients = {web}
    WS = {web}
    Channels = {ca, cb}
    StreamChan <- OneClient
    Backlog = 1
    InCap = 1
    CmdCap = 1
    MaxNotifs = 2
SPECIFICATION FairSpec
INVARIANT DispatchInOrder
PROPERTIES SlowClientEnds DispatchNeverStalls FeedSpec
CHECK_DEADLOCK FALSE
