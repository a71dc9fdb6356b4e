CONSTANTS
  Controls = {c1}
  Tasks = {1, 2}
  effectClass <- MCEffectClass
  MaxStarts = 2
  MaxFence = 1
  MaxGeneration = 1
  MaxCrashes = 0
  None = None
SPECIFICATION Spec
PROPERTY NoEffectAfterLeaseLoss
CHECK_DEADLOCK FALSE
