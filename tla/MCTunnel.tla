------------------------------ MODULE MCTunnel ------------------------------
(* Instances of Tunnel for TLC. *)
EXTENDS Tunnel

\* No request yet, a request without a body, and one with a body.
SomeRequests == {<<>>, <<"get", "e1", "e2">>, <<"post", "e1", "e2", "body">>}
=============================================================================
