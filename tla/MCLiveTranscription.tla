------------------------ MODULE MCLiveTranscription ------------------------
(* LiveTranscription with both tracks, of which the microphone speaks.     *)
EXTENDS LiveTranscription
CONSTANTS selfMic, remoteAudio
CONSTANT SelfUtterances
Utterances == [t \in Tracks |-> IF t = selfMic THEN SelfUtterances ELSE 0]
=============================================================================
