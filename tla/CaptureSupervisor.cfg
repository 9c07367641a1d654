\* One device that comes and goes, every fault, two workers, a fair scheduler.
SPECIFICATION FairSpec
CONSTANTS
  mic = mic
  NoTarget = NoTarget
  NoWorker = NoWorker
  NoGen = NoGen
  Endpoints = {mic}
  Pids = {}
  Routes = {}
  MaxAttempts = 1
  ChannelSize = 2
  Faults = {"open", "capture", "disconnect"}
  MaxGen = 2
  MaxPlugs = 2
CHECK_DEADLOCK FALSE
INVARIANTS
  TypeOK
  RegistryMatches
  EveryThreadOwned
PROPERTIES
  FramesInOrder
  DeadWorkerNoticed
  ShutdownEnds
