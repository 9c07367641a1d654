\* One binding of any selection, two endpoints, two processes, two retries.
SPECIFICATION Spec
CONSTANTS
  e1 = e1
  e2 = e2
  r1 = r1
  p1 = p1
  p2 = p2
  k1 = k1
  NoTarget = NoTarget
  Endpoints = {e1, e2}
  Pids = {p1, p2}
  Routes = {r1}
  MaxAttempts = 2
  Kinds = {k1}
  InitialSelections <- AnySelection
  MaxGen = 4
INVARIANTS
  TypeOK
  OneWorker
  RetriesCapped
PROPERTIES
  NoWayBack
  NoStartAfterShutdown
