\* Three candidates for two places, or none; one thing befalls a process, and
\* every injected call may be hit by two signals.
CONSTANTS
  MaxPages = 5
  ThpSize = 4
  Unparsable = Unparsable
  Pids = {2, 3, 4, 5}
  Images <- MCImages
  NewImages = {Guard}
  Developments <- MCDevelopments
  MapsOf <- MCMapsOf
  NoProc = NoProc
  NoPid = NoPid
  MaxSignals = 2
  MaxEvents = 1
  InitImages <- MCInitImages
  RssKb <- MCRssKb
  Blocklisted = {Guard}
  KsmStat <- MCKsmStat
  NoField = NoField
  MinRssMb = 1
  MaxCandidates = 2
  Stabilization = 1
  Big = Big
  Mid = Mid
  Edge = Edge
  Small = Small
  Guard = Guard
  Loss = Loss
  Merged = Merged
  Thread = Thread
  Jit = Jit
  Shrunk = Shrunk
SPECIFICATION FairSpec
INVARIANTS TypeOK BorrowedRegistersReturned Released LargestAreChosen AdvisesOnlyAsRead
  BatchIsCappedPrefix CollapsesWholeHugePages DryRunTouchesNothing
PROPERTIES LeftAsFound MarkedAsReported BurstsSpaced CycleTerminates
