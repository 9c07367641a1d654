------------------------ MODULE MCCaptureSupervisor -------------------------
(* Instances of CaptureSupervisor for TLC. *)
EXTENDS CaptureSupervisor, TLC

EndpointSymmetry == Permutations(Endpoints)

=============================================================================
