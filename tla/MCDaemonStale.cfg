\* A start that fails before its snapshot, under systemd.
CONSTANTS
  MinOf <- MCMinOf
  MaxOf <- MCMaxOf
  MaxValue = 3
  Profiles <- MCProfiles
  AdminConfigs <- MCSafeConfigs
  UseAdvisor = TRUE
  Systemd = TRUE
  FailsBeforeSnapshot = TRUE
  CrashesMayHappen = FALSE
  WritesMayFail = FALSE
  ConfigFiles = {"same"}
  ScannerMayRun = FALSE
  NoFile = NoFile
  Torn = Torn
SPECIFICATION Spec
INVARIANT DriftFree
