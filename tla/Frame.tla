-------------------------------- MODULE Frame --------------------------------
(***************************************************************************)
(* WebSocket frames on the wire: lib/websocket/frame.js over the list of   *)
(* buffer-list.js and the masks of buffer-util.js, with the loop of        *)
(* connection.js that feeds the parser and the fragmentation it sends by.  *)
(*                                                                         *)
(* What the peer sends is a stream of pieces, each the bytes of one frame, *)
(* that TCP delivers in chunks of any length.  The numbers in which the    *)
(* formats change are constants, so that small frames cross them: the      *)
(* code's value of each is in brackets.                                    *)
(***************************************************************************)
EXTENDS Integers, Sequences, FiniteSets, SequencesExt, BufferList

CONSTANTS
  Short,      \* the longest payload whose length fits in the second byte [125]
  Radix,      \* the values of a byte [256]
  MaxFrame,   \* maxReceivedFrameSize
  Threshold,  \* fragmentationThreshold
  MaxMessage, \* maxReceivedMessageSize
  Streams,    \* what the peer may send
  Keys,       \* masks that frames of our own may be given
  Xor(_, _),  \* the exclusive or of two bytes
  MasksMeet,  \* may we send while a masked frame of the peer is incomplete?
  MaxChunks   \* bound on the chunks a stream is cut into

Byte == 0..(Radix - 1)
Masks == [1..4 -> Byte]
ASSUME LengthsAssumption == Short \in Nat /\ Short >= 2 /\ Radix \in Nat /\ Radix * Radix > Short + 1
ASSUME LimitsAssumption ==
  /\ {MaxFrame, Threshold, MaxMessage, MaxChunks} \subseteq Nat \ {0}
  /\ MaxFrame < Radix * Radix * Radix * Radix
ASSUME MasksAssumption == MasksMeet \in BOOLEAN /\ Keys \subseteq Masks
ASSUME XorAssumption == \A a, b \in Byte : Xor(a, b) \in Byte /\ Xor(Xor(a, b), b) = a

VARIABLES
  stream,    \* the pieces the peer sends
  arrived,   \* how many bytes of them have arrived
  chunks,    \* in how many chunks
  bufferList,
  frame,     \* currentFrame
  maskBytes, \* the buffer for masks that all frames of a connection share
  calls,     \* calls of processReceivedData queued by setImmediate
  parsed,    \* the frames handed to processFrame
  rejected   \* has the parser rejected a frame?

vars == <<stream, arrived, chunks, bufferList, frame, maskBytes, calls, parsed, rejected>>

-----------------------------------------------------------------------------
\* writeUInt16BE() and writeUInt32BE(), and back from behind the first n bytes.
UInt16(value) == <<(value \div Radix) % Radix, value % Radix>>
UInt32(value) == UInt16(value \div (Radix * Radix)) \o UInt16(value)
ReadUInt16(bytes, n) == bytes[n + 1] * Radix + bytes[n + 2]
ReadUInt32(bytes, n) == ReadUInt16(bytes, n) * (Radix * Radix) + ReadUInt16(bytes, n + 2)

\* The second byte and the values of its length that announce a longer one.
MaskBit == Short + 3
Length16 == Short + 1
Length64 == Short + 2

\* mask(): word by word, and the rest byte by byte.
Mask(data, key) == [i \in DOMAIN data |-> Xor(data[i], key[((i - 1) % 4) + 1])]

\* A slip: the bytes after the last word of four are left as they are.
UnmaskWordsOnly(data, key) ==
  [i \in DOMAIN data |-> IF i <= 4 * (Len(data) \div 4) THEN Xor(data[i], key[((i - 1) % 4) + 1]) ELSE data[i]]

\* unmask() does the same again.
Unmask(data, key) == Mask(data, key)

\* A frame to send: fin, opcode, payload, and the status of a close frame.
NoMask == <<>>
IsClose(f) == f.opcode = 8
IsControl(f) == f.opcode >= 8

\* A slip: the longest length that fits in 16 bits is taken to be one more.
LengthBytesOffByOne(n) ==
  IF n <= Short THEN <<>> ELSE IF n <= Radix * Radix THEN UInt16(n) ELSE UInt32(0) \o UInt32(n)
LengthBytes(n) ==
  IF n <= Short THEN <<>> ELSE IF n < Radix * Radix THEN UInt16(n) ELSE UInt32(0) \o UInt32(n)
LengthCode(n) ==
  IF n <= Short THEN n ELSE IF n < Radix * Radix THEN Length16 ELSE Length64

\* toBuffer(): the two bytes of the header, the longer length, the mask, and
\* the data.  A close frame has its status before the payload.
Framed(fin, opcode, data, key) ==
  <<opcode + IF fin THEN 128 ELSE 0, LengthCode(Len(data)) + IF key = NoMask THEN 0 ELSE MaskBit>>
  \o LengthBytes(Len(data)) \o key \o IF key = NoMask THEN data ELSE Mask(data, key)
DataOf(f) == IF IsClose(f) THEN UInt16(f.status) \o f.payload ELSE f.payload
ToBuffer(f, key) == Framed(f.fin, f.opcode, DataOf(f), key)

\* A slip: the last fragment is cut to what is left after a full one more.
FragmentsShort(opcode, payload) ==
  LET n == IF Len(payload) <= Threshold THEN 1 ELSE (Len(payload) + Threshold - 1) \div Threshold
      bound(i) == IF i = n THEN Len(payload) - 1 ELSE Threshold * i
  IN [i \in 1..n |-> [fin |-> i = n, opcode |-> IF i = 1 THEN opcode ELSE 0, status |-> -1,
                      payload |-> SubSeq(payload, Threshold * (i - 1) + 1, bound(i))]]

\* fragmentAndSend(): the frames of one message of text or bytes.
Fragments(opcode, payload) ==
  LET n == IF Len(payload) <= Threshold THEN 1 ELSE (Len(payload) + Threshold - 1) \div Threshold
  IN [i \in 1..n |-> [fin |-> i = n, opcode |-> IF i = 1 THEN opcode ELSE 0, status |-> -1,
                      payload |-> SubSeq(payload, Threshold * (i - 1) + 1,
                                         IF i = n THEN Len(payload) ELSE Threshold * i)]]

\* processFrame() on one frame after another: the fragments that wait for the
\* last of their message, the messages emitted, and whether a frame out of turn
\* or a message too big has dropped the connection (what comes after that is
\* Connection's).
NoFragments == [queue |-> <<>>, messages |-> <<>>, dropped |-> FALSE]
Joined(queue) ==
  [opcode |-> queue[1].opcode, payload |-> FlattenSeq([i \in DOMAIN queue |-> queue[i].payload])]
OutOfTurn(queue, f) ==
  \/ f.opcode \notin {0, 1, 2}
  \/ f.opcode # 0 /\ queue # <<>>
  \/ f.opcode = 0 /\ (queue = <<>> \/ Len(Joined(Append(queue, f)).payload) > MaxMessage)
ProcessFrame(a, f) ==
  IF a.dropped \/ f.opcode \in {8, 9, 10} THEN a
  ELSE IF OutOfTurn(a.queue, f) THEN [a EXCEPT !.dropped = TRUE]
  ELSE IF ~f.fin THEN [a EXCEPT !.queue = Append(@, f)]
  ELSE [a EXCEPT !.queue = <<>>, !.messages = Append(@, Joined(Append(a.queue, f)))]
Assembled(frames) ==
  LET after[n \in 0..Len(frames)] ==
        IF n = 0 THEN NoFragments ELSE ProcessFrame(after[n - 1], frames[n])
  IN after[Len(frames)]

-----------------------------------------------------------------------------
\* The parser.  "done" says that addData() has returned true, "bad" that
\* protocolError or frameTooLarge is set, or that the frame has an rsv bit.
NewFrame ==
  [state |-> "header", fin |-> FALSE, rsv |-> FALSE, opcode |-> 0, mask |-> FALSE, length |-> 0,
   status |-> -1, payload |-> <<>>, shortClose |-> FALSE, bad |-> FALSE]

\* Each step of addData() takes what it needs from the list, or nothing.  A
\* parser is the frame, the list, the shared mask and whether it is done.
Has(p, state, n) == ~p.done /\ p.frame.state = state /\ p.list.length >= n
Takes(p, n, f) == [p EXCEPT !.list = Advance(@, n), !.frame = f]

DecodeHeader(p) ==
  LET two == Join(p.list, 2)
      f == [p.frame EXCEPT
              !.fin = two[1] >= 128,
              !.rsv = (two[1] \div 16) % 8 # 0,
              !.opcode = two[1] % 16,
              !.mask = two[2] >= MaskBit,
              !.length = two[2] % MaskBit]
      illegal == IsControl(f) /\ (f.length > Short \/ ~f.fin)
      next == CASE f.length = Length16 -> "length16"
                [] f.length = Length64 -> "length64"
                [] OTHER -> "mask"
  IN IF ~Has(p, "header", 2) THEN p
     ELSE IF illegal THEN [Takes(p, 2, [f EXCEPT !.bad = TRUE]) EXCEPT !.done = TRUE]
     ELSE Takes(p, 2, [f EXCEPT !.state = next])

DecodeLength(p) ==
  LET eight == Join(p.list, 8)
  IN IF Has(p, "length16", 2) THEN
       Takes(p, 2, [p.frame EXCEPT !.length = ReadUInt16(Join(p.list, 2), 0), !.state = "mask"])
     ELSE IF ~Has(p, "length64", 8) THEN p
     ELSE IF ReadUInt32(eight, 0) # 0
     THEN [Takes(p, 8, [p.frame EXCEPT !.bad = TRUE]) EXCEPT !.done = TRUE]
     ELSE Takes(p, 8, [p.frame EXCEPT !.length = ReadUInt32(eight, 4), !.state = "mask"])

DecodeMask(p) ==
  LET f == [p.frame EXCEPT !.state = "payload"]
  IN IF Has(p, "mask", 0) /\ ~p.frame.mask THEN Takes(p, 0, f)
     ELSE IF Has(p, "mask", 4) THEN [Takes(p, 4, f) EXCEPT !.maskBytes = Join(p.list, 4)]
     ELSE p

DecodePayload(p) ==
  LET n == p.frame.length
      raw == Join(p.list, n)
      data == IF p.frame.mask THEN Unmask(raw, p.maskBytes) ELSE raw
      body == IF ~IsClose(p.frame) THEN [p.frame EXCEPT !.payload = data]
              ELSE IF n = 1 THEN [p.frame EXCEPT !.shortClose = TRUE]
              ELSE [p.frame EXCEPT !.status = ReadUInt16(data, 0), !.payload = SubSeq(data, 3, n)]
  IN IF ~Has(p, "payload", 0) THEN p
     ELSE IF n > MaxFrame THEN [p EXCEPT !.frame.bad = TRUE, !.done = TRUE]
     ELSE IF n = 0 THEN [p EXCEPT !.frame.state = "complete", !.done = TRUE]
     ELSE IF p.list.length < n THEN p
     ELSE [Takes(p, n, [body EXCEPT !.state = "complete"]) EXCEPT !.done = TRUE]

AddData(list) ==
  DecodePayload(DecodeMask(DecodeLength(DecodeHeader(
    [frame |-> frame, list |-> list, maskBytes |-> maskBytes, done |-> FALSE]))))

-----------------------------------------------------------------------------
Init ==
  /\ stream \in Streams
  /\ arrived = 0
  /\ chunks = 0
  /\ bufferList = EmptyList
  /\ frame = NewFrame
  /\ maskBytes = <<0, 0, 0, 0>>
  /\ calls = 0
  /\ parsed = <<>>
  /\ rejected = FALSE

\* processReceivedData() with this list, while queued calls remain: a frame
\* that is complete is taken, and one more call queued for what is left.  A
\* frame that is bad stays the current one.
ProcessReceivedData(list, queued) ==
  LET p == AddData(list)
      bad == p.frame.bad \/ p.frame.rsv
  IN /\ bufferList' = p.list
     /\ maskBytes' = p.maskBytes
     /\ \/ /\ ~p.done
           /\ frame' = p.frame
           /\ calls' = queued
           /\ UNCHANGED <<parsed, rejected>>
        \/ /\ p.done /\ bad
           /\ frame' = p.frame
           /\ calls' = queued
           /\ rejected' = TRUE
           /\ UNCHANGED parsed
        \/ /\ p.done /\ ~bad
           /\ frame' = NewFrame
           /\ parsed' = Append(parsed, p.frame)
           /\ calls' = queued + IF p.list.length > 0 THEN 1 ELSE 0
           /\ UNCHANGED rejected

Wire == FlattenSeq([i \in DOMAIN stream.pieces |-> stream.pieces[i].bytes])

\* handleSocketData().  A frame that was rejected has dropped the connection
\* by the time more data comes.
Data ==
  /\ ~rejected
  /\ chunks < MaxChunks
  /\ chunks' = chunks + 1
  /\ \E n \in (arrived + 1)..Len(Wire) :
       /\ arrived' = n
       /\ ProcessReceivedData(Write(bufferList, SubSeq(Wire, arrived + 1, n)), calls)
  /\ UNCHANGED stream

\* A slip: the call goes on being queued.
ImmediateStays ==
  /\ calls > 0
  /\ ProcessReceivedData(bufferList, calls)
  /\ UNCHANGED <<stream, arrived, chunks>>

\* A call queued by setImmediate, also one that was queued before a rejection.
Immediate ==
  /\ calls > 0
  /\ ProcessReceivedData(bufferList, calls - 1)
  /\ UNCHANGED <<stream, arrived, chunks>>

\* sendFrame() of a frame of our own, whose mask toBuffer() writes into the
\* shared buffer.
Sends ==
  /\ \E key \in Keys :
       /\ MasksMeet \/ ~(frame.state = "payload" /\ frame.mask)
       /\ maskBytes' = key
  /\ UNCHANGED <<stream, arrived, chunks, bufferList, frame, calls, parsed, rejected>>

Finished == (chunks = MaxChunks \/ rejected \/ arrived = Len(Wire)) /\ calls = 0 /\ UNCHANGED vars

Next == Data \/ Immediate \/ Sends \/ Finished

Spec == Init /\ [][Next]_vars

-----------------------------------------------------------------------------
\* What the first n bytes hold: the frames that are whole, up to one that is
\* illegal, and whether that one has shown itself.
Ends(i) == Len(FlattenSeq([j \in 1..i |-> stream.pieces[j].bytes]))
Legal(i) == \A j \in 1..i : stream.pieces[j].legal
FramesBy(n) ==
  LET whole == {i \in DOMAIN stream.pieces : Legal(i) /\ Ends(i) <= n}
  IN [i \in 1..Cardinality(whole) |-> stream.pieces[i].frame]
IllegalBy(n) ==
  \E i \in DOMAIN stream.pieces :
    /\ Legal(i - 1) /\ ~stream.pieces[i].legal
    /\ Ends(i - 1) + stream.pieces[i].decided <= n

Received ==
  [i \in DOMAIN parsed |-> [fin |-> parsed[i].fin, opcode |-> parsed[i].opcode,
                            status |-> parsed[i].status, payload |-> parsed[i].payload]]

\* What the pieces of a stream are.  A legal one is a frame as toBuffer()
\* writes it, masked or not, within the limits, or a close frame that is too
\* short for a status.  Of an illegal one the header says what is wrong, and at
\* which byte it shows.
MayBeSent(f) ==
  /\ f \in [fin : BOOLEAN, opcode : 0..15, status : Int, payload : Seq(Byte)]
  /\ f.status \in IF IsClose(f) THEN 0..(Radix * Radix - 1) ELSE {-1}
  /\ IsControl(f) => f.fin /\ Len(DataOf(f)) <= Short
  /\ Len(DataOf(f)) <= MaxFrame
LegalPiece(piece) ==
  \E key \in Masks \cup {NoMask} :
    \/ MayBeSent(piece.frame) /\ piece.bytes = ToBuffer(piece.frame, key)
    \/ /\ piece.frame = [fin |-> TRUE, opcode |-> 8, status |-> -1, payload |-> <<>>]
       /\ \E data \in {<<>>} \cup {<<byte>> : byte \in Byte} : piece.bytes = Framed(TRUE, 8, data, key)

Code(bytes) == bytes[2] % MaskBit
LengthSize(bytes) == IF Code(bytes) = Length16 THEN 2 ELSE IF Code(bytes) = Length64 THEN 8 ELSE 0
Declared(bytes) ==
  IF Code(bytes) = Length16 THEN ReadUInt16(bytes, 2)
  ELSE IF Code(bytes) = Length64 THEN ReadUInt32(bytes, 6) ELSE Code(bytes)
BodyAt(bytes) == 2 + LengthSize(bytes) + IF bytes[2] >= MaskBit THEN 4 ELSE 0
BadControl(bytes) == bytes[1] % 16 >= 8 /\ (Code(bytes) > Short \/ bytes[1] < 128)
TooLong(bytes) == Code(bytes) = Length64 /\ ReadUInt32(bytes, 2) # 0
IsIllegal(bytes) ==
  (bytes[1] \div 16) % 8 # 0 \/ BadControl(bytes) \/ TooLong(bytes) \/ Declared(bytes) > MaxFrame
Decided(bytes) ==
  IF BadControl(bytes) THEN 2 ELSE IF TooLong(bytes) THEN 10
  ELSE BodyAt(bytes) + IF Declared(bytes) > MaxFrame THEN 0 ELSE Declared(bytes)
IllegalPiece(piece) ==
  /\ piece.bytes \in Seq(Nat) /\ Len(piece.bytes) >= 2
  /\ BadControl(piece.bytes) \/ Len(piece.bytes) >= 2 + LengthSize(piece.bytes)
  /\ IsIllegal(piece.bytes)
  /\ piece.decided = Decided(piece.bytes) /\ Len(piece.bytes) >= piece.decided

\* The messages a stream carries are in its frames as fragmentAndSend() makes
\* them, one behind the other, with pings and pongs anywhere among them.
DataBy(s, n) == Cardinality({i \in 1..n : ~IsControl(s.pieces[i].frame)})
Cut(messages) ==
  FlattenSeq([m \in DOMAIN messages |-> Fragments(messages[m].opcode, messages[m].payload)])
Carries(s) ==
  /\ s.messages \in Seq([opcode : {1, 2}, payload : Seq(Byte)])
  /\ \A m \in DOMAIN s.messages :
       Len(s.messages[m].payload) > Threshold => Len(s.messages[m].payload) <= MaxMessage
  /\ DataBy(s, Len(s.pieces)) = Len(Cut(s.messages))
  /\ \A i \in DOMAIN s.pieces : LET f == s.pieces[i].frame
                                IN IF IsControl(f) THEN f.opcode \in {9, 10} ELSE f = Cut(s.messages)[DataBy(s, i)]
WellFormed(s) ==
  /\ s.messages # <<>> => Carries(s)
  /\ s.pieces \in Seq(ToSet(s.pieces))
  /\ \A i \in DOMAIN s.pieces : LET piece == s.pieces[i]
                                IN /\ piece.legal \in BOOLEAN
                                   /\ IF piece.legal THEN LegalPiece(piece) ELSE IllegalPiece(piece)
ASSUME StreamsAssumption == \A s \in Streams : WellFormed(s)

\* Types; and each chunk starts one chain of calls at most.
TypeOK ==
  /\ stream \in Streams
  /\ arrived \in 0..Len(Wire)
  /\ chunks \in 0..MaxChunks
  /\ frame.state \in {"header", "length16", "length64", "mask", "payload", "complete"}
  /\ Len(maskBytes) = 4
  /\ calls \in 0..chunks
  /\ rejected \in BOOLEAN

\* The frames that come out are the frames the peer sent, whatever the length
\* of each, masked or not, however TCP cuts them; none comes out of the bytes
\* at or behind an illegal one.
Frames == INSTANCE Pipe WITH sent <- FramesBy(arrived), received <- Received,
                             over <- arrived = Len(Wire), closed <- FALSE
PipeSpec == Frames!Spec

\* When no call is queued, every frame that has arrived whole was taken and
\* an illegal one that shows was rejected: the parser never waits for a byte
\* it does not need.
NothingWaits ==
  calls = 0 => /\ Received = FramesBy(arrived) \/ rejected
               /\ rejected = IllegalBy(arrived)

\* The messages that fragmentAndSend() cuts into frames are those that
\* processFrame() makes of them: whole, in order and once, with nothing dropped
\* on the way; and when all the frames are in, so are the messages.
MessagesJoin ==
  LET a == Assembled(Received)
  IN stream.messages # <<>> =>
       /\ ~a.dropped /\ IsPrefix(a.messages, stream.messages)
       /\ Len(parsed) = Len(stream.pieces) => a.messages = stream.messages /\ a.queue = <<>>
=============================================================================
