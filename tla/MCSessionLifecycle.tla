------------------------- MODULE MCSessionLifecycle -------------------------
(* SessionLifecycle with a session of two tracks beside one that is silent. *)
EXTENDS SessionLifecycle
CONSTANTS s1, s2
OneSpeaks == [s \in Sessions |-> IF s = s1 THEN Tracks ELSE {}]
=============================================================================
