SPECIFICATION FairSpec
CONSTANTS
  ClientIds = {c1}
  NoAge = NoAge
  Interval = 4
  ClientPongTimeout = 4
  PingTimeout = 5
  Watchdog = TRUE
  MayForget = TRUE
  Lateness = 1
  MaxReply = 1
  MaxOwnerReply = 1
  MaxPostponed = 1
  MaxAge = 5
PROPERTIES AnsweringClientsStay OnlyDeadBridgesAreClosed SilentClientsGo DeadBridgesGoUnlessForgotten
CHECK_DEADLOCK FALSE
