SPECIFICATION Spec
CONSTANTS
  Repeats = {TRUE, FALSE}
  Idle = 3
  Active = 2
  Timeout = 2
  Spacing = 1
  Lease = 5
  Jump = 4
  Lateness = 1
  MaxReply = 1
  MaxTransfer = 1
  Never = never
INVARIANTS TypeOK ConfirmationsAreExact EchoesAreSpaced SilenceIsNoticed AnsweringRelayIsKept
