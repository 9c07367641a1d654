------------------------- MODULE MCRecordingControl -------------------------
(* Instances of RecordingControl for TLC.                                  *)
EXTENDS RecordingControl
=============================================================================
