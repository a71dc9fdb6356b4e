CONSTANTS
  Controls = {c1, c2}
  Tasks = {1}
  effectClass <- MCIdempotent
  MaxStarts = 1
  MaxFence = 2
  MaxGeneration = 1
  MaxCrashes = 1
  None = None
SPECIFICATION Spec
PROPERTIES
  ControlsReturn
  LeaseGivenUp
CHECK_DEADLOCK FALSE
