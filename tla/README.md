# Remote View client: models, checks and proofs

TLA+ modules for the LiveStyle Remote View client: the tunnels that let a
remote server send HTTP requests to a local one, the cluster that keeps them
open, and the WebSocket channels that carry LiveStyle messages. Line numbers
are those of `lib/` in the repository.

## The system

| Component | State it keeps | Operations | Talks to |
|---|---|---|---|
| Cluster, `tunnel-cluster.js` | `_state`, `tunnels`, `errors`, `_fillQueued`, `_reconnectAttempts`, two timers, the LiveStyle connector | `fill`, `_doFill`, `createTunnel`, `destroy`, handlers of the tunnels' and of its own events, timer callbacks | creates and destroys tunnels; hears `connect` (callback), `activity`, `destroy` |
| Timers, `utils.js` | `_timerId` | `start`, `stop`, `restart` | called by the cluster |
| Tunnel, `tunnel.js` | socket to the server with its `local` socket, `_connected`, `_destroyed` | CONNECT, `onSocketData`, `setupLocalConnection`, `destroy` | both sockets, gzip stream, header parser |
| Gzip stream, `gzip.js`, `stream/duplex.js` | the encoding the request accepts, the writer of the output side, what it holds back, parsers, the compressor | `_transform`, `_maybeEncode`, `_writeHTTPData`, `_writeRawData`, `inject`, `onEnd` | piped between the sockets of a tunnel |
| Header parser, `http-header-parser.js` | headers, body so far | `execute`, `reset` | Node's native parser |
| LiveStyle connector, `livestyle.js` | `localClient`, `remoteClient`, `_distroyed` | `connectTunnel`, `reconnect`, forwarding, `destroy` | two WebSocket clients |
| WebSocket client, `websocket/client.js` | request in flight | `connect`, `validateHandshake`, `failHandshake`, `succeedHandshake` | Node's HTTP client; creates a connection |
| WebSocket connection, `websocket/connection.js` | `state`, `connected`, `bufferList`, `frameQueue`, `closeTimer`, keepalive and grace timers, `closeReasonCode` | data, error, end, close, pause and resume handlers, timers; `close`, `drop`, `send`, `fragmentAndSend` | socket, frames |
| Frames, `websocket/frame.js`, `buffer-list.js`, `buffer-util.js` | parser state, list of buffers, the mask all frames share | `addData`, `toBuffer`; `write`, `advance`, `join`, `take`; `mask`, `unmask` | connection |

What is hard in it is the order of callbacks. Everything runs on one thread,
but each handler leaves work behind (`process.nextTick`, `setImmediate`,
timers, events of sockets) that finds another state when it runs; events are
emitted in the middle of handlers, so that a listener of the application can
destroy what the handler uses next; TCP cuts streams anywhere; peers close,
reset, refuse, or say nothing. Nothing is persisted, so there is no recovery
from a crash of the process to model.

What makes each component correct:

- *Cluster*: never more tunnels than its state allows, no socket it does not
  list, every tunnel reported once; never idle for good without a tunnel;
  returns to one tunnel when silent; an outage ends; `destroy()` releases all.
- *Tunnel*: requests reach the local server whole, in order and once; no socket
  survives `destroy()`; a tunnel in use ends and says so.
- *Connection*: messages are emitted once and in order, and whole as long as our
  side of the socket lasts; no frame stays behind in the buffer; nothing follows the close frame; `close` comes, also
  when the peer falls silent and a keepalive is there to notice.
- *Connector*: one channel per side, retried; the application is told right;
  messages come from the present local connection only; after `destroy()`
  nothing starts, and only what was in flight still ends and says so.
- *Frames*: what is parsed is what was sent, at every length and however it is
  cut; an illegal frame shows as soon as its bytes are there.
- *Gzip*: the receiver reads what the local server said, and can read it: one
  header, one encoding; the response ends.

## Modules

`Cluster` models `tunnel-cluster.js` and `utils.js`. One action is one callback
of the event loop with everything it calls synchronously: `TunnelConnected` is
`_onTunnelConnect` with `_onClusterConnect`, `TickDestroy` is
`_onTunnelDestroy` with `writeError`, `_onClusterTunnerError` and, for a
refused session, `_onClusterError` and `destroy`. The queue of
`process.nextTick` is the variable `ticks`, and `LoopIdle` keeps sockets and
timers waiting until it is empty. `ResumableTimer` is the operators `Start`,
`Stop` and `Restart` over four states, where "fired" is a timer that has run
and still holds its `_timerId`. `ConnectThenDestroys` and `RetryThenDestroys`
are handlers interrupted by a listener that calls `destroy()`. A destroyed
tunnel's identity is free again once its `destroy` event was delivered; with
more identities than `MaxConnections` one is always free.

`TunnelPool` is what a cluster promises: a set of open tunnels bounded by the
mode. `TunnelLife` is the life of one tunnel, and the interface between the two
detailed modules: `Tunnel` implements it, and `Cluster` is shown to assume no
more of its tunnels than it says.

`Tunnel` models `tunnel.js`: the two sockets, the answer to CONNECT found in
chunks of any size, `setupLocalConnection` by `readable` or by a queued
request, the pipe between the sockets, and every way a tunnel is destroyed. A
script of tokens stands for the bytes; `e1` and `e2` are the two halves of the
header terminator.

`Connection` models `websocket/connection.js` after the handshake. The peer's
stream is a script of frame kinds. `Data` is `handleSocketData`, `Immediates`
the calls of `processReceivedData` that `setImmediate` has queued, all in a row
as Node 4 (`.travis.yml`) runs them, and `ProcessFrame` the `process.nextTick`
call for the oldest frame taken. `Drop`, `AppCloses`, `SocketEnds`,
`SocketCloses`, `SocketFails`, `CloseTimerFires` and `GracePeriodTimerFires`
are the ways a connection ends. The two keepalive timers are the variable
`watch`, as at most one of them runs; how keepalive is configured is chosen in
`Init`. A write after our side has ended raises `error` at once, which
`HandleSocketError` takes. That handler sets `fragmentationSize` to zero and
leaves `frameQueue` as it is, so the two are variables of their own: `Joined` is
the copy into a buffer of the size that was counted, which cuts off what is
beyond its end. Both count frames, as if all had one length; in bytes the cut
may fall inside a frame. The application may call between any two frames,
which covers its calls inside a `message` or `close` listener.

`Frame` is the layer below: bytes. `ToBuffer` is `toBuffer`, the four `Decode`
operators are the four parts of `addData`, which fall through from one to the
next, and `Fragments` is `fragmentAndSend`. `ProcessFrame` is what
`processFrame` does with a frame of data, which is pure: it takes the fragments
that wait and gives them back with one more, or joined as a message, or drops
the connection; `Assembled` calls it for all that was parsed. What it does
between the turns of the event loop is in `Connection`. The bytes wait in a list of
buffers, `BufferList`, whose operators are its methods. `ProcessReceivedData`
is here the loop around the parser, with one frame a call and
`setImmediate` for the rest. The numbers in which the formats change (125, a
byte's 256 values) are the constants `Short` and `Radix`, so that payloads of up
to 16 bytes cross every border of the encoding. The exclusive or of two bytes
is the constant `Xor`, of which `XorAssumption` asks only that it stays within
the bytes and undoes itself; `MCFrame` gives it the bitwise one. `Sends` writes
the mask of a frame of our own into the buffer that the parser keeps the peer's
in. `WellFormed` says what the pieces of a stream are, and `StreamsAssumption`
that every stream is made of them: a legal piece is a frame as `toBuffer`
writes it, or a close frame too short for a status; an illegal one is any bytes
whose header says what is wrong, and `Decided` tells at which byte. A stream
may say that it carries messages: then its frames of data are those that
`Fragments` makes of them, none in more than one frame is longer than
`MaxMessage`, and only pings and pongs are between them (`Carries`).

`Gzip` models the stream between the sockets of a tunnel: `gzip.js`, the
callbacks and `compactHeaders` of `http-header-parser.js`, and the pipe of
`duplex.js`. A response is a sequence of tokens: the two halves of its header,
the framing of a chunked body, data. `ResponseChunk` delivers any number of
them to whatever `_write` is at that time, the variable `mode`: `MaybeEncode`,
`WriteHTTPData` or `WriteRawData`. `injected` says that the compressor and
`ChunkedOutputStream` are in the pipe, where they stay also when the writer
becomes raw again; `held` is what the compressor has not let go. `RequestPiece`
is `GzipInput`, which runs beside the response.

`Connector` models `livestyle.js` and the handshake of `websocket/client.js`.
A side's connections live in `phase`, retry timers in `retries`, and the two
pointers in `client`. `Answers` are the ways a request can end, of which
`ValidateHandshake` accepts one; `leftover` are the sockets of refused
handshakes, which still may fail. The listener of `close` is added last, so
`ListenerDrops` and `ListenerDestroys` differ from `HandshakeSucceeds` followed
by a drop or a destroy. `told` is the last of the events `connect` and
`disconnect`, which need both sides and the listeners that `destroy()` removes;
`announced` is the last of each side's own events, `localConnect`,
`remoteConnect`, `localDisconnect` and `remoteDisconnect`, which `connectTunnel`
emits whether or not the connector was destroyed.

Two abstract modules stand between the detailed ones. `ChannelLife` is one
WebSocket channel as its owner sees it: `Connection` implements it from the
handshake on, and `Connector` is shown to assume no more of its connections.
`Pipe` is a stream that cuts, holds back, encodes or decodes what goes through
it, and that neither loses, repeats nor reorders anything: `Frame` implements
it with frames against the bytes they were sent in, `Gzip` with what a receiver
reads from its output against what the local server said.

`MCTunnel`, `MCConnection`, `MCFrame` and `MCGzip` hold the scripts used by
TLC. The theorems and proofs are in modules of their own: `ClusterProofs`,
`TunnelProofs`, `ConnectionProofs`, `ConnectorProofs`, `FrameProofs`, which also
proves what `BufferList` does, and `GzipProofs` with `GzipPipeProofs`; the last
three rest on the induction of `InductionLemmas`. Definitions with the comment
"a slip" are plausible mistakes, used to see that each property notices one; no
specification refers to them.

## Runs

| Run | Bounds | Shows |
|---|---|---|
| `cluster` | 4 tunnels, 3 connections, 2 retries, all calls and listeners | the safety invariants; `PoolSpec`, `LifeSpec`; `IdleShrinks`, `OutageEnds` |
| `tunnel` | 3 answers, requests of up to 4 tokens, 2 pieces of response | requests intact, sockets released, `TunnelEnds`, `LifeSpec` |
| `connection` | 10 scripts of up to 5 frames, 3 frames a message, 2 frames sent, 3 ways of keepalive | reassembly, closing, `SilentPeerIsDropped`, `ChannelSpec` |
| `connector` | 2 connections per side | channels, the events of each side and of both, what is left after `destroy()`, retries, `ChannelSpec` |
| `frame` | 25 streams of up to 4 frames, 3 chunks; borders at 5 and 15 bytes, frames of up to 18, messages of up to 8 | `PipeSpec`, `NothingWaits`, `MessagesJoin` |
| `gzip` | 9 responses of up to 8 tokens, 5 requests | `PipeSpec`, `OutputReadable`, `ResponseEnds` |

Three connections are enough for a fill that creates two tunnels while one
exists, for a shrink that closes two and for reports of several tunnels in one
queue; the fourth identity is the tunnel that closed and waits for its report.
Two retries make one retry that is the last and one that is not. The error log
has room for one entry, so that it overflows. The scripts of `connection` have
each way a message can be cut, control frames inside (one of them where its
answer can fail between two fragments), a close frame with more
behind it, and each protocol error, and are long enough for two queued calls to
run back to back. With two connections per side a retry can be in progress
while the old connection still emits messages.

The streams of `frame` have the lengths on both sides of each border, masked
and not, before a close frame; frames in a row; a close frame without status
and one that is too short; messages around the fragmentation threshold, the
longest as long as a message may be, with another message behind them and, in
one stream, a ping among the fragments; and each kind of illegal frame with legal ones around it. Three chunks cut a frame
in any two places, which is enough to stop the parser between any two of its
steps. The responses of `gzip` are counted, chunked, open and empty, of a type
that is encoded and not, encoded already, with bytes behind the body, with a
second response behind one that is passed on, and no response at all.

`OutageEnds` is `OutageResolves` for a cluster whose tunnels do not close
cleanly, and whose application does not call `fill()`, over and over: the
violation run `cluster_clean_close_loop` shows why it must say so.

Runs that end in a violation record what the code does against what the
repository says of it:

| Run | The code | The repository says |
|---|---|---|
| `cluster_listener_crash` | `destroy()` in the constructor's callback makes `_onClusterConnect` throw | `test/cluster.js:76-79` makes this call |
| `cluster_clean_close_loop` | a clean close before the tunnel is established is refilled at once, uncounted | `tunnel-cluster.js:45-46` and `227` |
| `tunnel_split` | a terminator cut in two is not found; the queued request is lost | `tunnel.js:126-127` |
| `connection_no_end` | after `close()` to a silent peer, the close timer ends a side of the socket that `close()` has ended already (`connection.js:418`) | `client.js:74-76`: it gives up, "just closing the socket" |
| `connector_dropped` | a connection that a listener of `localConnect` or `remoteConnect` drops is not retried (`livestyle.js:96-97`) | `livestyle.js:4-5` and `70-71`: it reconnects automatically |
| `gzip_held` | what is held back when the response ends is pushed after the end | `gzip.js:179-181` |

For that reason `tunnel` runs with `Splits = FALSE`, `connection` with
`PeerEnds = TRUE` and `gzip` with `Truncated = FALSE`, and `Reconnects`, which
`connector` checks, is `ReconnectsAlways` but for a connection that was dropped
as it opened (`IsDropped`). In `connection` the close timer is thus never the
only way out: the run shows that errors, drops and handshakes complete, and
`connection_no_end` what the timer itself is worth.

`MessagesWhole` has three levels, because frames that were taken before the
connection went down are still handled. While it is connected, what was emitted
is exactly what was completed. Until our side of the socket is ended, each
message is whole. After that, the answer to a ping is a write after the end,
whose error forgets the length of the fragments that wait, and the message made
of them is cut short. The comment at `connection.js:490-492`, "so we process the
whole message now", does not hold there; the property says what does: each
message once, in its turn, not mixed with another, and a beginning of it at the
least.

`SilentPeerIsDropped` is about `connection.js` as a library: the configuration
in `client.js:34-81` has no keepalive, and `livestyle.js:91` passes none, so
that the channels of this program do not notice a peer that falls silent.

## Fairness

- *Ticks, queued calls*: weak fairness; Node drains its queues.
- *Timers*: an armed timer fires unless it is restarted over and over. In
  `Cluster` this is stated with the actions that restart it, since a restart
  leaves the variable as it was.
- *Sockets*: a socket that was destroyed says so. That a connecting tunnel is
  answered, refused or lost, and that a handshake is answered, are assumptions
  on the network: the code sets no timeout on either. `TunnelEnds` assumes that
  the server ends a tunnel the client has ended, and `CloseCompletes` that the
  peer does; `connection_no_end` shows what happens otherwise.
- *Keepalive*: its timers fire if nothing arrives; `SilentPeerIsDropped` needs
  nothing of the peer.
- *Streams*: `ResponseEnds` assumes that the local server sends what it has;
  after that, streams that end end what they are piped to. Nothing is assumed
  of the compressor, which lets go what it likes when it likes.
- *Servers*: `Reconnects` and `ReconnectsAlways` assume that a server that is
  asked again and again accepts in the end. The cluster needs no such thing, as it may give up.
- *Application*: one that has paused a connection resumes it.

## Proofs

Each theorem holds for every value of the constants that satisfies the
assumptions the module names, and for every behaviour of `Spec`, of which
`FairSpec` is a part.

| Module | Proves of every behaviour | Assumes |
|---|---|---|
| `ClusterProofs` | `TypeOK`, `Capacity`, `NoStall`, `ActiveHasIdleTimer`, `EstablishedMeansFullBudget`, `DestroyedReleasesAll`, `NoLeak`; the refinements `LifeSpec`, for each tunnel, and `PoolSpec` | that there are more identities than connections, the kinds of the limits |
| `TunnelProofs` | `TypeOK`, `NoSocketLeaks`, `OnlyEstablishedReachLocal`; `RequestsIntact` if `~Splits`; the refinement `LifeSpec` | that a request is a sequence |
| `ConnectionProofs` | `TypeOK`, `NoStuckFrames`, `CloseIsLast`, `MessagesWhole`, `CleanCloseLosesNothing`; the refinement `ChannelSpec` | that a script is a sequence of frame kinds |
| `ConnectorProofs` | `TypeOK`, `OneChannel`, `ToldRight`, `ForwardsPresent`, `SilentAfterDestroy`; the refinement `ChannelSpec`, for each connection | that the connections are finitely many |
| `FrameProofs` | `TypeOK`; with `KeysApart`, `NothingWaits`, `MessagesJoin` and the refinement `PipeSpec`; of the buffer list, `WriteHolds`, `AdvanceHolds`, `JoinHolds`; of `addData`, `DecodeStep`; of `fragmentAndSend`, `FragmentsJoin` | what `Xor` is, that the streams are made of frames as `WellFormed` says, that the length of a frame that is accepted fits in 32 bits |
| `GzipProofs` | `TypeOK`, `OutputReadable` | that a response is a sequence, with a natural length |
| `GzipPipeProofs` | the refinement `PipeSpec` | the same, and that each response is one that `EndsWithBody` allows |

In each module `IInv` is the inductive invariant, a conjunction of named
parts; there is one lemma per action, or per part of an action where an action
is long, and the refinements are proved step by step from `IInv`: each step of
the detailed module is one of the abstract module or leaves its state alone.

**Cluster.** None of the six invariants is inductive. `IInv` adds:

- `FillPending`: a fill that is flagged is in the queue. Without it, `NoStall`
  could be lost when the queue runs empty.
- `NoStallYet`: a living cluster with no tunnel has a retry timer running *or*
  a fill flagged. `NoStall` speaks of an idle loop only; this speaks of the
  states in between, and with `FillPending` it gives `NoStall`.
- `LiveAreListed`: every live tunnel is in the list, so that `destroy()`, which
  walks the list, closes them all, and a connected tunnel means a living
  cluster.
- `OwnNothing`: timers and connector of a destroyed cluster are gone.

`NoLeak` counts reports, and needs more (`LInv`): the list has each tunnel
once; the destroyed tunnels are those with a report in the queue, one each;
and a destroyed tunnel that is still listed has its report as the only tick
queued. The last is what makes `removeFromArray` harmless: between the death of
a tunnel and its removal no fill counts the list. `AllMoved` says, action by
action, what happened to each tunnel, and `TunnelLife` follows from it.

**Tunnel.** The parts of `IInv` say that it listens for the answer exactly
until it is connected or destroyed, that only an accepting answer connects it,
and that nothing waits for a request behind a local socket. `RequestsIntact`
rests on where the stream was cut: while the answer is awaited at most its
first line has come (`AnswerInOne`), and a connected tunnel has read all of it
(`AnswerRead`). With a terminator that is cut in two neither holds, and the
theorem has the hypothesis `~Splits`: `tunnel_split` is its counterexample.

**Connection.** `StateInv` is about the two queues. `CallsCounted`, no more
`setImmediate` calls than frames taken, keeps the counters above zero.
`RejectedIsTaken` says that bytes stay behind without a call only when a frame
that will end the connection is among those taken; it gives `NoStuckFrames`.
`OpenIsConnected` and `EndedByClose` tie the state, the socket and our close
frame together, and keep `CloseIsLast`.
`MessageInv` is about reassembly: the fragments that wait are exactly the data
frames since the first of an unfinished message (`FragmentsFit`), their length is the one counted
while it is connected, and can only be too small after that (`SizeFits`), what
was emitted are
messages that handled frames complete, or after that end beginnings of such,
each once and in turn, and all of them whole while the connection is open
(`HandledDelivered`, `DeliveredInTurn`, `EmittedAre`), and a close code of the peer means that a
close frame was handled and every message before it emitted (`CleanClose`).

**Connector.** `OneEffort`: at most one retry runs and at most one connection
lives, per side, and never both; with the cardinality lemmas this is
`OneChannel`. `ClientHolds` says which connection the pointer of a side is at,
and `HeardIsClient` that no other has the `message` listener, which gives
`ForwardsPresent`. `AnnouncedFits` keeps the last event of a side in step with
what is in flight there, and is the third part of `ToldRight`.
`DestroyedIsDead` and `ListensUntilDestroy` give `SilentAfterDestroy`, in
handlers that a listener has interrupted too: no attempt starts, no pointer
moves, `connect` and `disconnect` are not emitted, and a side's own events come
only from what was in flight.

**Frames.** The proof has three layers. At the bottom, `Holds(list, wire, from,
to)` says that a buffer list is the bytes of the wire behind `from` up to `to`,
whatever the buffers they lie in: no buffer is empty, the first is not used up,
and the length kept beside them is right. `WriteHolds`, `AdvanceHolds` and
`JoinHolds` say that the three operations are on the list what they would be on
the wire; they rest on `Layout` of `InductionLemmas`, which says where each of
the sequences lies in their concatenation.

In the middle is one piece, the bytes of one frame. `AtHeader`, `AtLength16`,
`AtLength64`, `AtMask` and `AtPayload` say, for each state of the parser, which
fields it has read, that the list holds exactly what is behind them, and, in the
last, that the shared mask is that of the frame. One lemma for each part of
`addData` says that it stays where it is as long as its bytes are not there, and
else goes to the next or rejects. As the parts fall through, `DecodeStep`
composes them: afterwards the parser waits because the next bytes are missing,
has rejected a piece that is illegal and of which the byte that shows it has
come, or is done with exactly the fields of the frame, at the end of its piece.
`FramedReads` closes the circle: a frame as `toBuffer` writes it, with each of
the three lengths and with or without mask, is read as what it was.

At the top, `RInv` says that there is a number `k` of pieces that were taken, so
that `parsed` is those `k` frames, and that the parser is inside the next piece
(`Reading`) or has rejected it (`Refused`), and that it misses bytes of that
piece whenever no call is queued (`Waiting`). The last gives `NothingWaits`.
The invariant, and so `NothingWaits`, `PipeSpec` and `MessagesJoin`, have the
hypothesis `KeysApart`: `MasksMeet` is false, or no piece is masked, which is
what RFC 6455 asks of a server. `TypeOK` has none, and holds also when a mask
of ours has garbled a payload of the peer; its invariant adds the shape of a
frame.

`MessagesJoin` is about what is made of those `k` frames, and its argument is
one about data. `Bound(l, i)` is where fragment `i` of `l` bytes ends:
`BoundsGrow` has the arithmetic of the division, and `CutsJoin` says that what
lies between growing bounds, put together, is the whole. They give
`FragmentsJoin`, and with it `NextFragment`: behind the first `j` fragments of a
message the next is not out of turn and not too much, and with the last one the
message is there. `Place` says which message a number of fragments leads to,
and how far into it; `PlaceNext` moves it by one and is where the end of a
message and the beginning of the next meet. `Assembling` is the induction over
the frames: what `processFrame` has made of the first `k` is always the first
`m` messages and, in its queue, `j` fragments of the next (`Halfway`), where a
ping or pong changes neither.

**Gzip.** `WriterKnows` says what each of the three writers knows of the
response, `OwnHeaderPending` that our header waits in front of the compressor
until the first chunk is out, `PassedOn` that without a compressor everything
came out raw, and `Encoded` what the output is with one. The theorem holds
also for a response that breaks off and for one that no server would send.
`CompactHeaders` and `createHTTPResponseHeader` are computed by recursion over
the fields, about which the lemmas on `Without` say what the readability needs:
what it keeps, that it drops the rest, and that it respects concatenation.

`PipeSpec` is proved from `TInv`, which adds what `OutputReadable` need not
know. `Balanced` is the heart of it: what came out, a header of ours that is
due, what the compressor holds and what is held back, read one behind the
other, are the content of what has arrived. To keep it, `HeldBack` says that
all of the response waits as long as nothing is decided, and `KnownLate` that
the request is whole before that can begin; `InTouch` that the parser of an
encoded response stands where the wire does, has found nothing bad and has
given away what it read; `EncodesEncodable` and `RawIsUnframed` that the writer
gives up the parser only where no framing can follow. The lemmas on `Execute`
and on `FlattenSeq` say token by token, and record by record, what a parser has
read and what a receiver reads.

The theorem is about responses that satisfy `EndsWithBody`: an encoded one is
the last of its connection, its chunked body has its framing, and nothing is
behind that. Without it `PipeSpec` is false, see "Not modelled"; `MCGzip` has
TLC check that the responses of the run satisfy it. It holds for a response
that breaks off: what had come is passed on, or the output never ends.

**Induction over data.** The provers cannot use an induction rule with an
operator as parameter. `InductionLemmas` states the rules with a *set* instead
(`ASSUME NEW T, 0 \in T, ... PROVE Nat \subseteq T`), from the least element
that the well-foundedness of the numbers gives, and from them that a function
defined by recursion on an initial segment of the numbers exists and is
unique. So `Without` and `Execute` are recursive functions inside an operator,
and `GzipProofs` proves what they compute; and `Layout` says what `FlattenSeq`
of the community modules makes of a sequence of buffers.

**Left to TLC.** All liveness properties, as the prover has neither fairness
nor `ENABLED`: `IdleShrinks`, `OutageEnds`, `TunnelEnds`, `CloseCompletes`,
`SilentPeerIsDropped`, `Reconnects` and `ResponseEnds`. Every other property of
a passing run has its theorem. That the bitwise exclusive or satisfies
`XorAssumption`, TLC evaluates for the bytes of the run.

## Not modelled

- *A mask that is overwritten*: a frame of our own that is sent while a masked
  frame of the peer is incomplete changes the mask that frame is decoded with.
  A server must not mask (RFC 6455), so `frame` has `MasksMeet = FALSE`.
- *Kept-alive responses that are encoded*: `_writeHTTPData` drops the header of
  a second response and appends its body to the first. Whether the remote
  server sends two requests through one tunnel is not in this repository; the
  responses of `gzip` that are encoded are the last ones.
- *Requests in a row*: a request that was queued behind the answer to CONNECT is
  written to the local socket past `GzipInput`, so that `Gzip` treats one that
  was queued whole as one whose header is never found. A second request behind
  it would be the first that `GzipInput` parses (`gzip.js:40-44`); it is left
  out.
- *A connection that opens after `destroy()`*: nobody closes it. `Connector` has
  it, and shows that it is not used; the leak itself contradicts nothing that
  the repository says.
- *A close frame without a status*: it leaves `closeReasonCode` at -1
  (`frame.js:132-136`, `connection.js:558`), so that the close it begins is
  reported with 1006, as a dropped connection. The comment at
  `connection.js:289-290` says otherwise. `Connection` has it as the kind
  "bare", and no run is about it.
- *Cut off and chunked*: bytes behind an encoded chunked body, and a response
  that breaks off while it is encoded, come out as part of a response that
  looks complete. No part of the repository says what should happen.
- *Node*: the native HTTP parser (of which `Tunnel` and `Gzip` model the use,
  without headers of more than 31 fields), zlib, back pressure and TLS, which
  behaves as TCP here.
- *Of the WebSocket code*: native keepalive, `assembleFragments = false`,
  `abort()`, protocol negotiation, `throwAwayPayload`, `merge`, and the text
  encodings of the buffer list: nothing in the client reaches them.
- *A tunnel with a request in flight*: `Cluster` does not know of one, so that
  a long upload, which is no `activity`, may be cut by the idle shrink.
- The rewriting of message URIs, which changes no state;
  `stream/livestyle-filter.js`, which holds no code; `perf.js`, `example.js`
  and `index.js`.

## Plan

1. *Core* (done): `Cluster` with `TunnelPool` and `TunnelLife`, its proofs;
   `Tunnel`, `Connection`, `Connector`.
2. *Bytes* (done): `Frame` and `BufferList`, `Gzip`, both against `Pipe`.
3. *Channels* (done): keepalive, refused handshakes, and `ChannelLife` between
   `Connection` and `Connector`.
4. *Composition*: a cluster of detailed tunnels with requests in flight, for
   the idle shrink.
5. *Proofs* (done): the safety of `Cluster`, `Tunnel`, `Connection`,
   `Connector`, `Frame` and `Gzip`, and the refinements of `TunnelPool`,
   `TunnelLife`, `ChannelLife` and `Pipe`, and that the fragments of a message
   make the message again.
