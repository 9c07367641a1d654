--------------------------- MODULE SessionDelivery ---------------------------
(***************************************************************************)
(* What the recorder promises of the sessions it recorded, with no process,*)
(* no crash and no network in it: the ledger of a session only grows, the  *)
(* API holds nothing the ledger does not list, and a session is closed     *)
(* only when the API holds all of it, after which neither changes.         *)
(***************************************************************************)
CONSTANTS Sessions, Segments

VARIABLES
  ledger,      \* the segments of a session known to be on disk
  delivered,   \* the segments of a session the API holds
  closed       \* the sessions reported as complete

vars == <<ledger, delivered, closed>>

Init ==
  /\ ledger = [s \in Sessions |-> {}]
  /\ delivered = [s \in Sessions |-> {}]
  /\ closed = {}

\* Segments are added to the ledger: one by a commit, several by a scan.
Commit(s) ==
  /\ s \notin closed
  /\ \E more \in SUBSET Segments :
       ledger' = [ledger EXCEPT ![s] = @ \union more]
  /\ UNCHANGED <<delivered, closed>>

Deliver(s) ==
  /\ s \notin closed
  /\ \E g \in ledger[s] : delivered' = [delivered EXCEPT ![s] = @ \union {g}]
  /\ UNCHANGED <<ledger, closed>>

Close(s) ==
  /\ delivered[s] = ledger[s]
  /\ closed' = closed \union {s}
  /\ UNCHANGED <<ledger, delivered>>

Next == \E s \in Sessions : Commit(s) \/ Deliver(s) \/ Close(s)

Spec == Init /\ [][Next]_vars

=============================================================================
