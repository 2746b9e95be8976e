\* A TCP server with discovery that is repeated or done once.  The server ends: no deadlock check.
CONSTANTS
  Udp = FALSE
  MaxForwards = 1
SPECIFICATION FairSpec
INVARIANTS NoSendAfterClose NewerHandlerKept
PROPERTIES AddressGivenBack HealthchecksEnd
CHECK_DEADLOCK FALSE
