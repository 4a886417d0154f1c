CONSTANTS
  MaxClients = 1
  MaxConnects = 0
  MaxQueue = 2
  MaxRetries = 1
  MaxBootstraps = 0
SPECIFICATION Spec
PROPERTIES IdleGatewayCloses
