CONSTANTS
  Routes = {TRUE, FALSE}
SPECIFICATION Spec
INVARIANTS TypeOK ReadyIsAuthenticated DisconnectIsFinal TryingIsWatched OneHandshake RepairIsAwaited RepairIsBounded
PROPERTIES AttemptsEnd
