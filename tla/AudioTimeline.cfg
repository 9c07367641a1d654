\* A sample is two ticks, the devices' intervals are one sample and a half and two
\* and a half; one track has three packets, the other one.
CONSTANTS
    selfMic = selfMic
    remoteAudio = remoteAudio
    Tracks = {selfMic, remoteAudio}
    TicksPerSample = 2
    Intervals = {3, 5}
    Contents <- Carried
    SmoothPercent = 40
    MaxTime = 5
    MaxPackets <- Packets
    SelfPackets = 3
    RemotePackets = 1
SPECIFICATION Spec
INVARIANTS
  Inv
