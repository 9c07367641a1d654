\* Recordings of seven windows; the gate holds two and hangs over for two.
CONSTANTS
    Hangover = 2
    PreRoll = 2
    Duration = 7
    MaxHeartbeats = 2
    MaxOutages = 2
    MaxLost = 1
SPECIFICATION Spec
INVARIANTS
  Inv
  SpeechIsSent
