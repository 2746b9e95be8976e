\* A UDP server: the stats side is stopped first.
CONSTANTS
  Udp = TRUE
  MaxForwards = 1
SPECIFICATION Spec
INVARIANTS NoSendAfterClose
CHECK_DEADLOCK FALSE
