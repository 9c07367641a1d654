\* The same, asked whether the function returns.
CONSTANTS
    selfMic = selfMic
    remoteAudio = remoteAudio
    Tracks = {selfMic, remoteAudio}
    RowChoices = {TRUE}
    MaxUtterances <- Utterances
    SelfUtterances = 1
    MaxGaps = 2
    MaxQueued = 1
SPECIFICATION FairSpec
PROPERTIES
  ReturnsAfterCapture
