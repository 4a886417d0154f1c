SPECIFICATION Spec
CONSTANTS
  phone = phone
  tablet = tablet
  bridge = bridge
  laptop = laptop
  ClientIds = {phone, tablet}
  OwnerIds = {bridge}
  NoId = none
  Backend = "openclaw"
  AttachmentMayFail = FALSE
  CloseMayFail = FALSE
  OwnerCloseMayFail = FALSE
  Unclosable = {}
  MaxSockets = 4
  MaxInFlight = 1
PROPERTY ActiveRouteSurvivesHibernation
CHECK_DEADLOCK FALSE
