-------------------------- MODULE MCRebindingPolicy -------------------------
(* Instances of RebindingPolicy for TLC.  A binding is pinned to e1, follows *)
(* the route r1, or is the process loopback of p1.                           *)
EXTENDS RebindingPolicy, TLC

CONSTANTS e1, r1, p1

AnySelection ==
  [k \in Kinds |->
     {[mode |-> "pinned", endpoint |-> e1],
      [mode |-> "follow", route |-> r1],
      [mode |-> "process", pid |-> p1]}]

=============================================================================
