-------------------------------- MODULE Gzip --------------------------------
(***************************************************************************)
(* The stream of lib/gzip.js between the two sockets of a tunnel, on the   *)
(* DuplexStream of lib/stream/duplex.js and the parser of                  *)
(* lib/http-header-parser.js.  GzipInput reads the request that goes by    *)
(* and remembers which encoding it accepts; GzipOutput holds the response  *)
(* back until it knows its header, and then passes it on as it is or       *)
(* encoded, under a header of its own.                                     *)
(*                                                                         *)
(* The response is a sequence of tokens that TCP delivers in chunks of any *)
(* length: the two halves of a header, the framing of a chunked body, and  *)
(* data.  Node is version 4: a push() after the end of a stream is an      *)
(* 'error' event, for which nothing listens by then.                       *)
(***************************************************************************)
EXTENDS Integers, Sequences, SequencesExt

CONSTANTS
  Requests,  \* what the server may ask for
  Responses, \* what the local server may answer
  Truncated  \* may the local server end before its response is complete?

ASSUME TruncatedAssumption == Truncated \in BOOLEAN
ASSUME ResponsesAssumption ==
  \A r \in Responses : /\ r.length \in Nat
                       /\ r.wire \in Seq(ToSet(r.wire))
                       /\ r.fields \in Seq(ToSet(r.fields))

VARIABLES
  request,   \* [accepts, upgrade, queued], see RequestPiece
  pieces,    \* how many of the two pieces of its header have come
  supported, \* supportedEncoding, "none" also while it is undefined
  response,  \* [fields, length, wire]
  got,       \* how much of the wire has arrived
  ended,     \* has the local server ended the connection?
  mode,      \* what _write of GzipOutput is
  parser,    \* its parser of the response
  buf,       \* its _buf
  injected,  \* are a compressor and a ChunkedOutputStream in the pipe?
  header,    \* the header the latter has still to write
  held,      \* data inside the compressor
  out,       \* what came out: raw data, a header, chunks, the last chunk
  closed,    \* has the output ended?
  crashed

requesting == <<request, pieces, supported>>
encoding == <<mode, parser, buf, injected, header, held, out>>
vars == <<requesting, response, got, ended, encoding, closed, crashed>>

-----------------------------------------------------------------------------
\* What is left of s without the elements of X.
Without(s, X) ==
  LET rest[n \in 0..Len(s)] ==
        IF n = 0 THEN <<>> ELSE IF s[n] \in X THEN rest[n - 1] ELSE Append(rest[n - 1], s[n])
  IN rest[Len(s)]

(* http-header-parser.js *)

Unique == {"Content-Type", "Content-Length"}
Named(fields, names) == {field \in ToSet(fields) : field[1] \in names}
ValuesOf(fields, name) ==
  LET named == Without(fields, ToSet(fields) \ Named(fields, {name}))
  IN [i \in DOMAIN named |-> named[i][2]]

\* compactHeaders(): of a unique field the first value counts, the others are
\* joined.  Names are compared without regard to case.
CompactHeaders(fields) ==
  [name \in {field[1] : field \in ToSet(fields)} |->
    IF name \in Unique THEN <<Head(ValuesOf(fields, name))>> ELSE ValuesOf(fields, name)]

\* Node's parser of a response, one token at a time.  It has read the headers
\* of the last response and the body since that was taken, or is bad.
NewParser == [at |-> "start", left |-> 0, headers |-> FALSE, body |-> <<>>, bad |-> FALSE]
NoParser == [NewParser EXCEPT !.at = "none"]

AfterHeader ==
  IF "Transfer-Encoding" \in DOMAIN CompactHeaders(response.fields) THEN "size"
  ELSE IF "Content-Length" \notin DOMAIN CompactHeaders(response.fields) THEN "open"
  ELSE IF response.length = 0 THEN "start" ELSE "counted"

Parse(p, token) ==
  LET data == [p EXCEPT !.body = Append(@, token)]
  IN IF p.bad THEN p
     ELSE CASE p.at = "start" /\ token = "h1" -> [p EXCEPT !.at = "fields"]
            [] p.at = "fields" /\ token = "h2" ->
                 [p EXCEPT !.at = AfterHeader, !.headers = TRUE, !.left = response.length]
            [] p.at = "size" /\ token = "size" -> [p EXCEPT !.at = "data"]
            [] p.at = "size" /\ token = "last" -> [p EXCEPT !.at = "start"]
            [] p.at = "data" -> [data EXCEPT !.at = "size"]
            [] p.at = "counted" -> [data EXCEPT !.left = @ - 1, !.at = IF p.left = 1 THEN "start" ELSE @]
            [] p.at = "open" -> data
            [] OTHER -> [p EXCEPT !.bad = TRUE]
Execute(p, chunk) ==
  LET run[n \in 0..Len(chunk)] == IF n = 0 THEN p ELSE Parse(run[n - 1], chunk[n])
  IN run[Len(chunk)]

-----------------------------------------------------------------------------
Compressible == {"text"}

\* A slip: what is encoded is encoded again.
EncodesAgain(headers) ==
  "Content-Type" \in DOMAIN headers /\ Head(headers["Content-Type"]) \in Compressible

\* shouldEncode()
ShouldEncode(headers) ==
  /\ "Content-Encoding" \notin DOMAIN headers
  /\ "Content-Type" \in DOMAIN headers
  /\ Head(headers["Content-Type"]) \in Compressible

\* createHTTPResponseHeader(), from the fields as they were received.
CreateHTTPResponseHeader(fields, enc) ==
  Without(fields, Named(fields, {"Transfer-Encoding", "Content-Length"}))
  \o << <<"Transfer-Encoding", "chunked">>, <<"Content-Encoding", enc>> >>

Raw(data) == [kind |-> "raw", data |-> data, fields |-> <<>>]
Header(fields) == [kind |-> "header", data |-> <<>>, fields |-> fields]
Chunk(data) == [kind |-> "chunk", data |-> data, fields |-> <<>>]
LastChunk == [kind |-> "last", data |-> <<>>, fields |-> <<>>]

\* DuplexStream._write: through the pipe, as inject() has built it.
Write(data) ==
  /\ held' = IF injected' THEN held \o data ELSE held
  /\ out' = IF injected' \/ data = <<>> THEN out ELSE Append(out, Raw(data))

\* A slip: without reset().
RawWriterKeeps(data) ==
  /\ mode' = "raw"
  /\ UNCHANGED <<parser, buf, injected, header>>
  /\ Write(data)

\* switchToRawWriter() and reset().
SwitchToRawWriter(data) ==
  /\ mode' = "raw"
  /\ parser' = NoParser
  /\ buf' = <<>>
  /\ UNCHANGED <<injected, header>>
  /\ Write(data)

\* switchToHTTPWriter(), with the part of the body that has come.
SwitchToHTTPWriter(data) ==
  /\ mode' = "http"
  /\ buf' = <<>>
  /\ Write(data)

\* _maybeEncode()
MaybeEncode(chunk) ==
  LET p == Execute(IF parser = NoParser THEN NewParser ELSE parser, chunk)
      encodes == p.headers /\ ~p.bad /\ ShouldEncode(CompactHeaders(response.fields))
  IN \/ supported = "none" /\ SwitchToRawWriter(chunk)
     \/ /\ supported # "none"
        /\ p.bad \/ (p.headers /\ ~encodes)
        /\ SwitchToRawWriter(buf \o chunk)
     \/ /\ supported # "none"
        /\ encodes
        /\ injected' = TRUE
        /\ header' = CreateHTTPResponseHeader(response.fields, supported)
        /\ parser' = [p EXCEPT !.body = <<>>]
        /\ SwitchToHTTPWriter(p.body)
     \/ /\ supported # "none"
        /\ ~p.bad /\ ~p.headers
        /\ buf' = buf \o chunk
        /\ parser' = p
        /\ UNCHANGED <<mode, injected, header, held, out>>

\* A slip: the body that was taken stays in the parser.
WriteBodyAgain(chunk) ==
  LET p == Execute(parser, chunk)
  IN \/ p.bad /\ SwitchToRawWriter(chunk)
     \/ /\ ~p.bad
        /\ parser' = p
        /\ UNCHANGED <<mode, buf, injected, header>>
        /\ Write(p.body)

\* _writeHTTPData().  Only the writer becomes raw: the compressor stays.
WriteHTTPData(chunk) ==
  LET p == Execute(parser, chunk)
  IN \/ p.bad /\ SwitchToRawWriter(chunk)
     \/ /\ ~p.bad
        /\ parser' = [p EXCEPT !.body = <<>>]
        /\ UNCHANGED <<mode, buf, injected, header>>
        /\ Write(p.body)

\* _writeRawData()
WriteRawData(chunk) == UNCHANGED <<mode, parser, buf, injected, header>> /\ Write(chunk)

-----------------------------------------------------------------------------
Init ==
  /\ request \in Requests
  /\ pieces = 0
  /\ supported = "none"
  /\ response \in Responses
  /\ got = 0
  /\ ended = FALSE
  /\ mode = "undecided"
  /\ parser = NoParser
  /\ buf = <<>>
  /\ injected = FALSE
  /\ header = <<>>
  /\ held = <<>>
  /\ out = <<>>
  /\ closed = FALSE
  /\ crashed = FALSE

\* GzipInput sees the next piece of the request, and at the second the whole
\* header, unless the first was queued behind the answer to CONNECT:
\* onSocketData of tunnel.js writes that one to the socket itself, so that the
\* parser starts in the middle and never finds a header.
RequestPiece ==
  /\ pieces < 2
  /\ pieces' = pieces + 1
  /\ supported' = IF pieces' = 2 /\ ~request.queued /\ ~request.upgrade
                  THEN request.accepts ELSE supported
  /\ UNCHANGED <<request, response, got, ended, encoding, closed, crashed>>

\* Data of the local server, for whatever _write is by now.  A server may
\* answer before it has the whole request.
ResponseChunk ==
  /\ ~ended
  /\ \E n \in (got + 1)..Len(response.wire) :
       LET chunk == SubSeq(response.wire, got + 1, n)
       IN /\ got' = n
          /\ \/ mode = "undecided" /\ MaybeEncode(chunk)
             \/ mode = "http" /\ WriteHTTPData(chunk)
             \/ mode = "raw" /\ WriteRawData(chunk)
  /\ UNCHANGED <<requesting, response, ended, closed, crashed>>

\* The compressor lets some of its data go, its own header with the first, and
\* _transform() of ChunkedOutputStream makes a chunk of it.
DueHeader == IF header = <<>> THEN <<>> ELSE <<Header(header)>>
Deflate ==
  /\ held # <<>> /\ ~closed
  /\ \E n \in 0..Len(held) :
       /\ n > 0 \/ header # <<>>
       /\ held' = SubSeq(held, n + 1, Len(held))
       /\ out' = out \o DueHeader \o <<Chunk(SubSeq(held, 1, n))>>
  /\ header' = <<>>
  /\ UNCHANGED <<requesting, response, got, ended, mode, parser, buf, injected, closed, crashed>>

\* The local server ends its connection, which ends GzipOutput.
LocalEnds ==
  /\ ~ended
  /\ Truncated \/ got = Len(response.wire)
  /\ ended' = TRUE
  /\ UNCHANGED <<requesting, response, got, encoding, closed, crashed>>

\* A slip: the end does not reach the compressor.
OutputStops ==
  /\ ended /\ ~closed /\ ~crashed
  /\ closed' = ~injected
  /\ UNCHANGED <<requesting, response, got, ended, encoding, crashed>>

\* The end runs through the pipe: the compressor writes its rest, then the
\* last chunk is written, and onEnd() of GzipOutput comes.  If it was still
\* undecided, the push() is one after the end.
OutputEnds ==
  /\ ended /\ ~closed /\ ~crashed
  /\ IF parser # NoParser /\ buf # <<>>
     THEN crashed' = TRUE /\ UNCHANGED <<header, held, out, closed>>
     ELSE /\ closed' = TRUE
          /\ header' = <<>>
          /\ held' = <<>>
          /\ out' = IF injected THEN out \o DueHeader \o <<Chunk(held), LastChunk>> ELSE out
          /\ UNCHANGED crashed
  /\ UNCHANGED <<requesting, response, got, ended, mode, parser, buf, injected>>

Finished == (closed \/ crashed) /\ UNCHANGED vars

Next == RequestPiece \/ ResponseChunk \/ Deflate \/ LocalEnds \/ OutputEnds \/ Finished

\* The local server sends what it has and ends; streams that ended end what
\* they are piped to.
Fairness == WF_vars(ResponseChunk) /\ WF_vars(LocalEnds) /\ WF_vars(OutputEnds)

Spec == Init /\ [][Next]_vars
FairSpec == Spec /\ Fairness

-----------------------------------------------------------------------------
\* Data is held back only while it is undecided where it goes, a header only
\* when there is a compressor, and the pipe is empty once it has ended.
TypeOK ==
  /\ request \in Requests /\ pieces \in 0..2
  /\ response \in Responses /\ got \in 0..Len(response.wire)
  /\ supported \in {"none", request.accepts}
  /\ mode \in {"undecided", "raw", "http"}
  /\ {ended, injected, closed, crashed} \subseteq BOOLEAN
  /\ buf # <<>> => mode = "undecided"
  /\ header # <<>> \/ held # <<>> => injected /\ ~closed
  /\ mode = "http" => injected /\ parser # NoParser

\* What is in a piece of the wire beside its framing, and what the receiver
\* reads from what came out: it decodes the chunks, and a header of ours
\* stands for the one of the response.
Content(wire) == Without(wire, {"size", "last"})
Read(record) ==
  CASE record.kind = "raw" -> Content(record.data)
    [] record.kind = "header" -> <<"h1", "h2">>
    [] OTHER -> record.data
Received == FlattenSeq([i \in DOMAIN out |-> Read(out[i])])

\* The receiver reads what the local server said, whichever of the three
\* writers, and in turn, took its chunks; and when the output has ended,
\* nothing was left behind.
Transfer == INSTANCE Pipe WITH sent <- Content(SubSeq(response.wire, 1, got)), received <- Received,
                               over <- ended
PipeSpec == Transfer!Spec

\* What that takes, once a response is encoded: that it is the only one on its
\* connection, and that a chunked body has its framing and nothing behind it.
\* _writeHTTPData drops the header of a second response, and passes on what is
\* behind a last chunk with the framing of that chunk.
IsChunked(r) == "Transfer-Encoding" \in DOMAIN CompactHeaders(r.fields)
EndsWithBody(r) ==
  ShouldEncode(CompactHeaders(r.fields)) =>
    /\ \A i \in DOMAIN r.wire : r.wire[i] \in {"h1", "h2"} => i <= 2
    /\ \A i \in DOMAIN r.wire :
         IF IsChunked(r) /\ i > 2
         THEN /\ r.wire[i] \in {"size", "last"} <=> r.wire[i - 1] # "size"
              /\ r.wire[i] = "last" => i = Len(r.wire)
         ELSE r.wire[i] \notin {"size", "last"}

\* What comes out can be read: the response as it was, or one header, chunks
\* and the last chunk, never both.  The header names one transfer encoding,
\* and as the one content encoding a kind the first request accepts.  All
\* other fields are those of the response.
Kinds == [i \in DOMAIN out |-> out[i].kind]
OwnFields == {"Transfer-Encoding", "Content-Length", "Content-Encoding"}
OutputReadable ==
  /\ \/ ToSet(Kinds) \subseteq {"raw"}
     \/ /\ Kinds[1] = "header"
        /\ \A i \in 2..(Len(out) - 1) : Kinds[i] = "chunk"
        /\ Last(Kinds) = IF closed THEN "last" ELSE "chunk"
  /\ \A i \in DOMAIN out : Kinds[i] = "header" =>
       LET fields == out[i].fields
       IN /\ ValuesOf(fields, "Content-Length") = <<>>
          /\ ValuesOf(fields, "Transfer-Encoding") = <<"chunked">>
          /\ ValuesOf(fields, "Content-Encoding") = <<request.accepts>>
          /\ request.accepts # "none"
          /\ Without(fields, Named(fields, OwnFields))
             = Without(response.fields, Named(response.fields, OwnFields))

\* When the local server has ended, the output ends, with all that the
\* compressor still held.
ResponseEnds == ended ~> closed

\* gzip.js:179-181, of what is held back when the response ends: "Pass it
\* through to receiver".
HeldBackIsPassed ==
  closed \/ crashed => Received = Content(SubSeq(response.wire, 1, got))
=============================================================================
