---------------------------- MODULE MCRemoteClock ---------------------------
(* Instances of RemoteClock for TLC.                                       *)
EXTENDS RemoteClock
=============================================================================
