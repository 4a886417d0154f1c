SPECIFICATION Spec
CONSTANTS
  phone = phone
  tablet = tablet
  bridge = bridge
  laptop = laptop
  ClientIds = {phone, tablet}
  OwnerIds = {bridge}
  NoId = none
  Backend = "hermes"
  AttachmentMayFail = FALSE
  CloseMayFail = FALSE
  OwnerCloseMayFail = FALSE
  Unclosable = {2}
  MaxSockets = 4
  MaxInFlight = 1
SYMMETRY Symmetric
PROPERTY WakingStealsNoRoute
CHECK_DEADLOCK FALSE
VIEW RouteView
