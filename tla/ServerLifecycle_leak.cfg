SPECIFICATION ServingSpec
CONSTANTS
  da = da
  db = db
  hc = hc
  ht = ht
  hs = hs
  jt = jt
  js = js
  Sources = {da}
  StreamSources = {da}
  Workers = {js}
  Jobs = {js}
  Tx = {}
  Scripts = {js}
  Plan <- TwicePlan
  MaxConns = 2
  Backlog = 2
  MaxOffers = 5
CHECK_DEADLOCK FALSE
PROPERTY StopReturns
