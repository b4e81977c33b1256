---------------------------- MODULE MCConnection ----------------------------
(* Scripts of the peer for TLC. *)
EXTENDS Connection

\* Messages whole and in fragments, control frames between the fragments, a
\* proper close with more behind it, and the ways of breaking the protocol.
ManyScripts ==
  { <<"text", "first", "ping", "last", "close">>,
    <<"first", "more", "last", "text">>,
    <<"first", "more", "more", "last">>,
    <<"first", "more", "ping", "more", "last">>,
    <<"text", "close", "text", "ping">>,
    <<"pong", "first", "last", "bare">>,
    <<"first", "text", "last">>,
    <<"text", "last", "text">>,
    <<"ping", "bad", "text">>,
    <<"first", "unknown", "last">> }

\* A peer that never sends a close frame.
NoClose == { <<"text">> }
=============================================================================
