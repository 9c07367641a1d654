---------------------------- MODULE MCSttSession ----------------------------
(* Instances of SttSession for TLC.                                        *)
EXTENDS SttSession

\* With frames of two chunks and room for one command, assemblyai's second
\* frame finds the channel full and its third one is behind it.
Offered == [p \in Providers |-> IF p = "assemblyai" THEN 6 ELSE 4]
=============================================================================
