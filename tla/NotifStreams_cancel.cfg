CONSTANTS
    web = web
    sse = sse
    ca = ca
    cb = cb
    Clients = {web}
    WS = {web}
    Channels = {ca}
    StreamChan <- OneClient
    Backlog = 1
    InCap = 1
    CmdCap = 1
    MaxNotifs = 1
SPECIFICATION Spec
INVARIANT CanceledMeansShutdown
CHECK_DEADLOCK FALSE
