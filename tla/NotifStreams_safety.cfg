CONSTANTS
    web = web
    sse = sse
    ca = ca
    cb = cb
    Clients = {web, sse}
    WS = {web}
    Channels = {ca}
    StreamChan <- SameChan
    Backlog = 1
    InCap = 1
    CmdCap = 1
    MaxNotifs = 2
SPECIFICATION Spec
INVARIANTS NoSilentLoss NoStaleWriter
PROPERTY FeedSpec
CHECK_DEADLOCK FALSE
