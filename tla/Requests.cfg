SPECIFICATION Spec
CONSTANTS
  ClientIds = {c1, c2}
  Ids = {i1, i2}
  NoTime = NoTime
  TTL = 2
  MaxPending = 1
  MaxTime = 4
  MaxOwed = 2
INVARIANTS AnsweredOnlyIfAsked EntriesAreOwed TimelyAnswersArrive
SYMMETRY ClientsAndIds
VIEW OwedView
CHECK_DEADLOCK FALSE
