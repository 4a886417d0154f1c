CONSTANTS
  MaxClients = 1
  MaxConnects = 2
  MaxQueue = 2
  MaxRetries = 1
  MaxBootstraps = 1
SPECIFICATION Spec
INVARIANTS TypeOK FirstFrameIsConnect LatestConnectIsNotLost NeverStranded ChallengeIsWatched PendingConnectIsTracked
PROPERTIES SessionLossIsRepaired QueuedConnectIsSent
