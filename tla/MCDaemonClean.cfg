\* Safe original settings, no failing writes; crashes, hanging tasks and timeouts once running.
CONSTANTS
  MinOf <- MCMinOf
  MaxOf <- MCMaxOf
  MaxValue = 3
  Profiles <- MCProfiles
  AdminConfigs <- MCSafeConfigs
  UseAdvisor = TRUE
  Systemd = TRUE
  FailsBeforeSnapshot = FALSE
  CrashesMayHappen = TRUE
  WritesMayFail = FALSE
  ConfigFiles = {"same"}
  ScannerMayRun = TRUE
  NoFile = NoFile
  Torn = Torn
SPECIFICATION FairSpec
INVARIANT DriftFree
PROPERTY StopTerminates
