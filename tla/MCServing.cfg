SPECIFICATION ServingSpec
CONSTANTS
  da = da
  db = db
  hc = hc
  ht = ht
  hs = hs
  jt = jt
  js = js
  Sources = {da, db}
  StreamSources = {da, db}
  Workers = {hc, ht, hs, jt, js}
  Jobs = {jt, js}
  Tx = {ht, jt}
  Scripts = {hs, js}
  Plan <- MCPlan
  MaxConns = 1
  Backlog = 2
  MaxOffers = 5
CHECK_DEADLOCK FALSE
INVARIANTS NothingLeftBehind WriterSound
PROPERTIES   AcceptReturns
