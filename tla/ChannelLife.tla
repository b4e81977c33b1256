----------------------------- MODULE ChannelLife -----------------------------
(***************************************************************************)
(* The life of one WebSocket channel, as its owner sees it through the     *)
(* events of lib/websocket/client.js and connection.js.  Connection        *)
(* implements it from the handshake on, and Connector relies on nothing    *)
(* else.                                                                   *)
(***************************************************************************)
VARIABLES
  phase,  \* "free", "connecting", "open", "closing" or "dead"
  code    \* what its 'close' event said, "none" before that

vars == <<phase, code>>

Init == phase \in {"free", "connecting", "open"} /\ code = "none"

Connect == phase = "free" /\ phase' = "connecting" /\ UNCHANGED code

Fail == phase = "connecting" /\ phase' = "free" /\ UNCHANGED code

Open == phase = "connecting" /\ phase' = "open" /\ UNCHANGED code

\* It is not connected any more, which is never taken back.
Shut == phase = "open" /\ phase' = "closing" /\ UNCHANGED code

\* 'close' is emitted, once; a listener of 'connect' may have asked for it.
Close ==
  /\ phase \in {"connecting", "open", "closing"}
  /\ phase' = "dead"
  /\ code' # "none"

\* Nothing refers to it any more.
Forget == phase = "dead" /\ phase' = "free" /\ code' = "none"

Next == Connect \/ Fail \/ Open \/ Shut \/ Close \/ Forget

Spec == Init /\ [][Next]_vars
=============================================================================
