----------------------------- MODULE BufferList -----------------------------
(***************************************************************************)
(* lib/websocket/buffer-list.js: buffers in the order of their arrival     *)
(* taken for one sequence of bytes, of which the head may be used in part. *)
(* A list is a record: the buffers, how much of the first is used, and the *)
(* _length the code keeps beside them.                                     *)
(***************************************************************************)
EXTENDS Integers, Sequences, SequencesExt

EmptyList == [buffers |-> <<>>, offset |-> 0, length |-> 0]

\* write()
Write(list, buf) ==
  [list EXCEPT !.buffers = Append(@, buf), !.length = @ + Len(buf)]

\* The number of bytes in the first n buffers.
Before(list, n) == Len(FlattenSeq(SubSeq(list.buffers, 1, n)))

\* The buffers that are used up once n more bytes are.
UsedUp(list, n) ==
  CHOOSE k \in 0..Len(list.buffers) :
    /\ Before(list, k) <= list.offset + n
    /\ k < Len(list.buffers) => Before(list, k + 1) > list.offset + n

\* advance(n)
Advance(list, n) ==
  LET k == UsedUp(list, n)
  IN [buffers |-> SubSeq(list.buffers, k + 1, Len(list.buffers)),
      offset  |-> list.offset + n - Before(list, k),
      length  |-> list.length - n]

\* What a target holds where nothing was copied.
Unwritten == -1

\* join(0, n), joinInto(target, at, 0, n) and take(n): the first n bytes,
\* copied buffer by buffer.  forEach() copies nothing from a used up head.
Join(list, n) ==
  IF list.buffers # <<>> /\ Len(Head(list.buffers)) <= list.offset
  THEN [i \in 1..n |-> Unwritten]
  ELSE [i \in 1..n |->
         LET at == list.offset + i
             k  == CHOOSE k \in 1..Len(list.buffers) : Before(list, k - 1) < at /\ at <= Before(list, k)
         IN list.buffers[k][at - Before(list, k - 1)]]
=============================================================================
