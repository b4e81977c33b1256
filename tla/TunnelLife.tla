----------------------------- MODULE TunnelLife -----------------------------
(***************************************************************************)
(* The life of one tunnel, as the cluster that owns it sees it through the *)
(* callback and the 'destroy' event of lib/tunnel.js.  Tunnel implements   *)
(* it, and Cluster relies on nothing else.                                 *)
(***************************************************************************)
VARIABLES
  phase,   \* "free" before the tunnel is created and after it was reported
  reason   \* the error of the 'destroy' event that is still to be delivered

vars == <<phase, reason>>

Init == phase \in {"free", "connecting"} /\ reason = "none"

Create == phase = "free" /\ phase' = "connecting" /\ UNCHANGED reason

Connect == phase = "connecting" /\ phase' = "connected" /\ UNCHANGED reason

\* Only a tunnel that was never established can have been refused.
Close ==
  /\ phase \in {"connecting", "connected"}
  /\ phase' = "destroyed"
  /\ reason' \in {"none", "network"} \cup IF phase = "connecting" THEN {"forbidden"} ELSE {}

Report == phase = "destroyed" /\ phase' = "free" /\ reason' = "none"

Next == Create \/ Connect \/ Close \/ Report

Spec == Init /\ [][Next]_vars
=============================================================================
