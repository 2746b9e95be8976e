\* Sessions, limits and the map under every interleaving.
CONSTANTS
  Targets = {t1, t2}
  None = None
  Listings <- OneEach
  InitialLive = TRUE
  OneAtATime = FALSE
  UintMax = 3
  Transparent = FALSE
  Clients = {a1, a2}
  Conns = {c1, c2}
  QueueCap = 1
  MaxRequests = 0
  MaxResponses = 1
  ClientIdle = TRUE
SPECIFICATION FairUdpSpec
INVARIANTS LiveIsMapped LimitRespected
PROPERTIES SerialSpec RespondedEnds
