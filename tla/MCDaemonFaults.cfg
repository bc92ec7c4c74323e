\* Everything may fail; the governor controls every knob by hand.
CONSTANTS
  MinOf <- MCMinOf
  MaxOf <- MCMaxOf
  MaxValue = 3
  Profiles <- MCProfiles
  AdminConfigs <- MCAnyConfigs
  UseAdvisor = FALSE
  Systemd = TRUE
  FailsBeforeSnapshot = TRUE
  CrashesMayHappen = TRUE
  WritesMayFail = TRUE
  ConfigFiles = {"same", "moved", "absent", "garbled", "out_of_range"}
  ScannerMayRun = FALSE
  NoFile = NoFile
  Torn = Torn
SPECIFICATION Spec
INVARIANTS TypeOK RestoresSnapshot SnapshotNeverTorn
