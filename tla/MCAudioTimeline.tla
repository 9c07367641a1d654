-------------------------- MODULE MCAudioTimeline --------------------------
(* AudioTimeline with a track of several packets beside one of one packet. *)
EXTENDS AudioTimeline
CONSTANTS selfMic, remoteAudio, SelfPackets, RemotePackets
Packets == [t \in Tracks |-> IF t = selfMic THEN SelfPackets ELSE RemotePackets]
Carried == {[samples |-> 3, discontinuity |-> d] : d \in BOOLEAN}
=============================================================================
