\* The window outlasts the cooldown, so that changes are deferred after the
\* counters that caused them were reset.
CONSTANTS
  PsiFiles <- MCFewPsiFiles
  NoValue = NoValue
  NoReading = NoReading
  SomeThreshold = 500
  FullThreshold = 200
  Hysteresis = 2
  Cooldown = 1
  Stabilization = 2
  SustainedScans = 1
  MaxScans = 2
  UseAdvisor = TRUE
  FallibleKnobs = {"sharing"}
SPECIFICATION FairSpec
INVARIANTS TypeOK KnobsFollowLevel
PROPERTIES NeverStops MovesTowardTarget HysteresisHonoured PressureChangesDamped Converges
