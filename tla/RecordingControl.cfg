\* The window and two connections, two recordings.
CONSTANTS
    Sessions = {s1, s2}
    NoSession = NoSession
    Window = window
    Connections = {ctl1, ctl2}
SPECIFICATION ControlFairSpec
INVARIANTS
  ControlInv
PROPERTIES
  TasksEnd
