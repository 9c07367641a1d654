\* Both tracks, one of which speaks; every provider and network failure.
CONSTANTS
    selfMic = selfMic
    remoteAudio = remoteAudio
    Tracks = {selfMic, remoteAudio}
    RowChoices = {TRUE}
    MaxUtterances <- Utterances
    SelfUtterances = 1
    MaxGaps = 2
    MaxQueued = 1
SPECIFICATION FairSpec
INVARIANTS
  Inv
  OneConnection
  GivenUpIsShown
PROPERTIES
  DownIsReconnected
  ReturnsOnceClosed
