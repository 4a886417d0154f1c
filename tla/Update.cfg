SPECIFICATION Spec
CONSTANTS
  codex = codex
  model = model
  service = service
  Targets = {codex, model, service}
  Nothing = nothing
  Backend <- UpdateBackend
INVARIANT ReportIsTrue
PROPERTIES NeverTwoOwners UpdateEnds
CHECK_DEADLOCK FALSE
