\* The store as the capture sessions hand it over: the sessions row comes later.
CONSTANTS
    selfMic = selfMic
    remoteAudio = remoteAudio
    Tracks = {selfMic, remoteAudio}
    RowChoices = {FALSE}
    MaxUtterances <- Utterances
    SelfUtterances = 1
    MaxGaps = 2
    MaxQueued = 1
SPECIFICATION Spec
INVARIANTS
  FinalsAreStored
