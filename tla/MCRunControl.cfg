CONSTANTS
  Controls = {c1, c2}
  Tasks = {1, 2}
  effectClass <- MCEffectClass
  MaxStarts = 2
  MaxFence = 3
  MaxGeneration = 1
  MaxCrashes = 1
  None = None
SPECIFICATION Spec
SYMMETRY ControlSymmetry
INVARIANTS
  TypeOK
  ChildrenAreDurable
  NonIdempotentStartsOnce
  AcceptedOncePerGeneration
  RecoveryIsFresh
  CancelIsOrderly
CHECK_DEADLOCK FALSE
