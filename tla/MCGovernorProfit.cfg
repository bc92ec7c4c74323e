CONSTANTS
  PsiFiles <- MCPsiFiles
  NoValue = NoValue
  NoReading = NoReading
  SomeThreshold = 500
  FullThreshold = 200
  Hysteresis = 3
  Cooldown = 2
  Stabilization = 1
  SustainedScans = 1
  MaxScans = 2
  UseAdvisor = TRUE
  FallibleKnobs = {"sharing"}
SPECIFICATION Spec
PROPERTY ReducesAfterManyScans
