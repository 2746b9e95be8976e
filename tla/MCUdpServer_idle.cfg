\* Violated: a datagram taken after the idle timeout wedges the session.
CONSTANTS
  Targets = {t1}
  None = None
  Listings <- OneEach
  InitialLive = TRUE
  OneAtATime = FALSE
  UintMax = 3
  Transparent = FALSE
  Clients = {a1}
  Conns = {c1, c2}
  QueueCap = 1
  MaxRequests = 0
  MaxResponses = 0
  ClientIdle = TRUE
SPECIFICATION FairUdpSpec
PROPERTIES IdleEnds
