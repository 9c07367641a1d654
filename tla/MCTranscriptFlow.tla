-------------------------- MODULE MCTranscriptFlow --------------------------
(* Instances of TranscriptFlow for TLC.                                    *)
EXTENDS TranscriptFlow
=============================================================================
