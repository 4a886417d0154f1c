SPECIFICATION Spec
CONSTANTS
  Cost = 2
  Burst = 2
  Second = 2
  MaxTransit = 2
  MaxInTransit = 2
  MaxTime = 5
  NoBudget = NoBudget
  NoTime = NoTime
INVARIANTS EchoesArePaced RefusalsNeedNoWrite PacedPingsAreAdmitted
CHECK_DEADLOCK FALSE
