----------------------------- MODULE TunnelPool -----------------------------
(***************************************************************************)
(* What a tunnel cluster promises to the application that owns it, without *)
(* its list, tick queue, timers or retries: a bounded set of open tunnels. *)
(***************************************************************************)
EXTENDS Integers, FiniteSets

CONSTANTS Tunnels, MaxConnections

VARIABLES mode, open

Limit == [idle |-> 1, active |-> MaxConnections, destroyed |-> 0]

Init == mode = "idle" /\ open = {}

\* All missing tunnels are opened at once, never one too many.
Open ==
  /\ open' \in {S \in SUBSET Tunnels : open \subseteq S /\ Cardinality(S) = Limit[mode]}
  /\ UNCHANGED mode

\* Tunnels close one at a time, in either mode.
Close ==
  /\ \E t \in open : open' = open \ {t}
  /\ UNCHANGED mode

\* Traffic, which needs a tunnel, lets the pool grow.
Activate ==
  /\ mode # "destroyed"
  /\ open # {}
  /\ mode' = "active"
  /\ UNCHANGED open

\* Silence lets it shrink to one of its tunnels, if it has any.
Shrink ==
  /\ mode = "active"
  /\ mode' = "idle"
  /\ IF open = {} THEN open' = {} ELSE \E t \in open : open' = {t}

\* The end: nothing stays open and nothing opens again.
Destroy ==
  /\ mode' = "destroyed"
  /\ open' = {}

Next == Open \/ Close \/ Activate \/ Shrink \/ Destroy

Spec == Init /\ [][Next]_<<mode, open>>
=============================================================================
