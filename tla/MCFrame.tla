------------------------------ MODULE MCFrame ------------------------------
(* Streams for TLC: payloads at the lengths where the formats change. *)
EXTENDS Frame

Bits == INSTANCE Bitwise
ByteXor(a, b) == Bits!^^(a, b)

Payload(n) == [i \in 1..n |-> i % Radix]
Key == <<1, 3, 2, 1>>
OwnKeys == {<<3, 3, 0, 2>>}

Of(opcode, fin, status, payload) == [fin |-> fin, opcode |-> opcode, status |-> status, payload |-> payload]
Text(n) == Of(1, TRUE, -1, Payload(n))
Ping(n) == Of(9, TRUE, -1, Payload(n))
Close(n) == Of(8, TRUE, 9, Payload(n))

Piece(f, key) == [bytes |-> ToBuffer(f, key), frame |-> f, legal |-> TRUE, decided |-> 0]
Raw(bytes, f) == [bytes |-> bytes, frame |-> f, legal |-> TRUE, decided |-> 0]
Illegal(bytes, n) == [bytes |-> bytes, frame |-> Text(0), legal |-> FALSE, decided |-> n]

Just(pieces) == [messages |-> <<>>, pieces |-> pieces]
Message(n, key, between) ==
  LET cut == Fragments(2, Payload(n))
      next == Fragments(1, Payload(1))
  IN [messages |-> <<[opcode |-> 2, payload |-> Payload(n)], [opcode |-> 1, payload |-> Payload(1)]>>,
      pieces |-> <<Piece(cut[1], key)>> \o between \o [i \in 1..(Len(cut) - 1) |-> Piece(cut[i + 1], key)]
                 \o <<Piece(next[1], key)>>]

\* The lengths on both sides of each border, alone and before a close frame.
Lengths == {1, Short, Short + 1, Radix * Radix - 1, Radix * Radix}
Singles == {Just(<<Piece(Text(n), key), Piece(Close(1), NoMask)>>) : n \in Lengths, key \in {Key, NoMask}}

\* Two frames in a row whose ends may share a chunk, a close without status
\* and one that is a byte too short.
Rows == { Just(<<Piece(Ping(Short), Key), Piece(Ping(0), NoMask), Piece(Text(2), Key)>>),
          Just(<<Piece(Text(0), NoMask), Raw(Framed(TRUE, 8, <<>>, NoMask), Of(8, TRUE, -1, <<>>)), Piece(Text(1), NoMask)>>),
          Just(<<Piece(Text(1), Key), Raw(Framed(TRUE, 8, <<3>>, NoMask), Of(8, TRUE, -1, <<>>))>>) }

\* What fragmentAndSend makes of messages around its threshold, the longest of
\* which is as long as a message may be, and a ping among the fragments.
Fragmented == {Message(n, key, <<>>) : n \in {Threshold, Threshold + 1, 2 * Threshold}, key \in {Key, NoMask}}
              \cup {Message(2 * Threshold, NoMask, <<Piece(Ping(0), NoMask)>>)}

\* What must be rejected, with a frame behind it that must not come out: a
\* control frame that is long, one that is a fragment, a length beyond 32
\* bits, a frame over the limit, and rsv bits.
Broken == { Just(<<Piece(Text(1), NoMask), Illegal(bad[1], bad[2]), Piece(Text(1), NoMask), Piece(Text(0), NoMask)>>) :
            bad \in { <<ToBuffer(Ping(Short + 1), NoMask), 2>>,
                      <<<<9, 0>>, 2>>,
                      <<<<130, Length64, 0, 0, 0, 1, 0, 0, 0, 1>>, 10>>,
                      <<<<130, Length64>> \o UInt32(0) \o UInt32(MaxFrame + 1), 10>>,
                      <<<<129 + 64, 1, 2>>, 3>> } }

ManyStreams == Singles \cup Rows \cup Fragmented \cup Broken
=============================================================================
