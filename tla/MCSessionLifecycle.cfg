\* Two sessions, one of which holds a segment of each track; two drain passes, one
\* crash; recordings and commits that fail and uploads rejected for good.
SPECIFICATION TaskSpec
CONSTANTS
  s1 = s1
  s2 = s2
  Sessions = {s1, s2}
  Recovery = Recovery
  NoSession = NoSession
  NoSegment = NoSegment
  Tracks = {"self", "remote"}
  Audible <- OneSpeaks
  MaxSegments = 1
  MaxPasses = 2
  MaxCrashes = 1
  Faults = {"capture", "commit", "reject"}
  PromptRecovery = TRUE
INVARIANTS
  TypeOK
  LedgerHasFiles
  FinalizedIsComplete
  OneWorkerPerSession
  NoFileLeftBehind
PROPERTIES
  FinalizedStays
  DeliverySpec
  TasksEnd
  LocalOnlyIsRegistered
