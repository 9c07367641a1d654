\* One device, unplugged and plugged again.
SPECIFICATION Spec
CONSTANTS
  mic = mic
  NoTarget = NoTarget
  NoWorker = NoWorker
  NoGen = NoGen
  Endpoints = {mic}
  Pids = {}
  Routes = {}
  MaxAttempts = 2
  ChannelSize = 2
  Faults = {}
  MaxGen = 3
  MaxPlugs = 2
CHECK_DEADLOCK FALSE
INVARIANTS
  JoinedThreadsEnd
