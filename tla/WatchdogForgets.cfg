SPECIFICATION FairSpec
CONSTANTS
  ClientIds = {c1}
  NoAge = NoAge
  Interval = 3
  ClientPongTimeout = 3
  PingTimeout = 2
  Watchdog = TRUE
  MayForget = TRUE
  Lateness = 1
  MaxReply = 1
  MaxOwnerReply = 1
  MaxPostponed = 1
  MaxAge = 2
PROPERTIES DeadBridgesGo
CHECK_DEADLOCK FALSE
