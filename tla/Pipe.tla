-------------------------------- MODULE Pipe --------------------------------
(***************************************************************************)
(* What a stream promises that cuts, holds back, encodes or decodes what   *)
(* goes through it: what comes out is what went in, whole, in order and    *)
(* once, and it only ends when its source did and nothing is left inside.  *)
(* Frame and Gzip implement it.                                            *)
(***************************************************************************)
EXTENDS Sequences, SequencesExt

VARIABLES
  sent,     \* what went in
  received, \* what came out
  over,     \* has the source ended?
  closed    \* has the output?

vars == <<sent, received, over, closed>>

Init ==
  /\ IsPrefix(received, sent)
  /\ ~closed

\* The source goes on, or the output follows, or both at once.
Flow ==
  /\ IsPrefix(sent, sent')
  /\ IsPrefix(received, received')
  /\ IsPrefix(received', sent')
  /\ over => over' /\ sent' = sent
  /\ UNCHANGED closed
  /\ closed => received' = received

\* The output ends, with what was left inside and nothing left behind.
Close ==
  /\ over
  /\ IsPrefix(received, sent)
  /\ received' = sent
  /\ closed' = TRUE
  /\ UNCHANGED <<sent, over>>

Spec == Init /\ [][Flow \/ Close]_vars
=============================================================================
