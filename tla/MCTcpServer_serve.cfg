CONSTANTS
  t1 = t1
  a1 = a1
  a2 = a2
  a3 = a3
  Targets = {t1}
  Conns = {c1, c2, c3}
  None = None
  Listings <- SmallListings
  UintMax = 3
  InitialLive = TRUE
  OneAtATime = FALSE
  Addrs = {a1, a2, a3}
  MaxConnections = 2
  Sni = TRUE
  ProxyProtocol = TRUE
  Rules <- SmallRules
  AllowDefault = TRUE
SPECIFICATION FairFreshSpec
INVARIANTS ClientsAreHandled HandledWithinLimit StopDropsHandled
PROPERTIES PlacesReturned
CHECK_DEADLOCK FALSE
