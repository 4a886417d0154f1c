SPECIFICATION Spec
CONSTANTS
  phone = phone
  tablet = tablet
  bridge = bridge
  laptop = laptop
  ClientIds = {phone}
  OwnerIds = {bridge, laptop}
  NoId = none
  Backend = "local-model"
  AttachmentMayFail = TRUE
  CloseMayFail = TRUE
  OwnerCloseMayFail = FALSE
  Unclosable = {2}
  MaxSockets = 4
  MaxInFlight = 1
SYMMETRY Symmetric
INVARIANTS ReplacedOwnerNeverReturns OneOwnerPerClientSocket LeaseNamesOwner
PROPERTIES OnlyTheInstalledOwnerExchanges ImplementsOwnerSessions
CHECK_DEADLOCK FALSE
