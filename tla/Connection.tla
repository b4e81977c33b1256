----------------------------- MODULE Connection -----------------------------
(***************************************************************************)
(* The client's end of a WebSocket connection once the handshake is over,  *)
(* lib/websocket/connection.js: receiving frames, reassembling messages,   *)
(* and closing.                                                            *)
(*                                                                         *)
(* The peer's stream is a script of frames that TCP delivers in chunks of  *)
(* whole frames.  Node is version 4, the one .travis.yml names: a write     *)
(* after end() emits 'error' at once, the end of the peer's stream ends and *)
(* closes ours, and all the calls setImmediate has queued run before the   *)
(* ones process.nextTick has.                                              *)
(***************************************************************************)
EXTENDS Integers, Sequences, FiniteSets, SequencesExt

CONSTANTS
  Scripts,     \* what the peer may send: sequences of frame kinds
  MaxMessage,  \* maxReceivedMessageSize, in frames
  MaxSent,     \* bound on the frames the application sends
  AppCalls,    \* methods the application calls
  PeerEnds,    \* does the peer end its stream after we have ended ours?
  Keepalives   \* how keepalive may be configured

\* "bare" is a close frame with no status, "bad" a frame the parser rejects,
\* "unknown" an opcode of no meaning.
Kinds == {"text", "first", "more", "last", "ping", "pong", "close", "bare", "bad", "unknown"}

ASSUME ScriptsAssumption == Scripts \subseteq Seq(Kinds)
ASSUME MaxMessageAssumption == MaxMessage \in Nat \ {0}
ASSUME MaxSentAssumption == MaxSent \in Nat
ASSUME AppCallsAssumption == AppCalls \subseteq {"close", "drop", "send", "pause"}
ASSUME PeerEndsAssumption == PeerEnds \in BOOLEAN
ASSUME KeepalivesAssumption == Keepalives \subseteq {"off", "ping", "drop"}

VARIABLES
  script,      \* the peer's stream
  got,         \* how many of its frames have arrived
  buffered,    \* how many of those are still in bufferList
  immediates,  \* calls of processReceivedData queued by setImmediate
  ticks,       \* frames taken from it whose process.nextTick call is due
  frameQueue,  \* the fragments of the message being received
  fragmentationSize, \* their length as the code counts it, in frames
  delivered,   \* the messages emitted, each a sequence of frames
  state, connected, inputPaused,
  closeTimer,  \* is it set?  waitingForCloseResponse is true exactly as long
  keepalive,   \* the configuration: no keepalive, pings, or a drop when unanswered
  watch,       \* which of keepaliveTimer and gracePeriodTimer is running, if any
  closeReasonCode,
  reported,    \* the code emitted with 'close', "none" before that
  sent,        \* frames written to the socket
  ended,       \* has our side of the socket been ended?
  socket       \* "open"; "ended" by the peer, the calls of setImmediate first;
               \* "closing", the 'close' event is next; "closed"

receiving == <<script, got, buffered, immediates, ticks, frameQueue, delivered>>
closing == <<closeTimer, closeReasonCode, reported>>
watching == <<keepalive, watch>>
vars == <<watching, receiving, fragmentationSize, state, connected, inputPaused, closing, sent, ended, socket>>

States == {"open", "peer_requested_close", "ending", "closed"}
\* -1, a code of our own, the one of the peer's close frame, and 1006
Codes == {"unset", "ours", "peer", "abnormal"}

\* How many frames processFrame has seen.
handled == got - buffered - ticks

TypeOK ==
  /\ script \in Scripts
  /\ got \in 0..Len(script) /\ buffered \in 0..got /\ handled \in 0..got
  /\ immediates \in 0..Len(script)
  /\ ticks \in 0..Len(script)
  /\ frameQueue \in Seq(1..Len(script))
  /\ fragmentationSize \in 0..MaxMessage
  /\ delivered \in Seq(Seq(1..Len(script)))
  /\ state \in States
  /\ {connected, inputPaused, closeTimer, ended} \subseteq BOOLEAN
  /\ keepalive \in Keepalives
  /\ watch \in {"off", "keepalive"} \cup IF keepalive = "drop" THEN {"grace"} ELSE {}
  /\ keepalive = "off" \/ socket = "closed" => watch = "off"
  /\ closeReasonCode \in Codes
  /\ reported \in {"none", "ours", "peer", "abnormal"}
  /\ sent \in Seq({"data", "ping", "pong", "close"})
  /\ socket \in {"open", "ended", "closing", "closed"}

-----------------------------------------------------------------------------
Init ==
  /\ script \in Scripts
  /\ got = 0 /\ buffered = 0 /\ immediates = 0
  /\ ticks = 0
  /\ frameQueue = <<>>
  /\ fragmentationSize = 0
  /\ delivered = <<>>
  /\ state = "open"
  /\ connected = TRUE
  /\ inputPaused = FALSE
  /\ closeTimer = FALSE
  /\ keepalive \in Keepalives
  /\ watch = IF keepalive = "off" THEN "off" ELSE "keepalive"
  /\ closeReasonCode = "unset"
  /\ reported = "none"
  /\ sent = <<>>
  /\ ended = FALSE
  /\ socket = "open"

LoopIdle == ticks = 0

\* The frames sent after a ping, where pings in a row count as one.
Pinged == IF sent # <<>> /\ Last(sent) = "ping" THEN sent ELSE Append(sent, "ping")

\* Slips: a frame is taken whether there is one or not; and one call of
\* process.nextTick for all the frames of a round of setImmediate.
TakesBlindly(calls, n, queued) ==
  /\ buffered' = n - calls
  /\ ticks' = ticks + calls
  /\ immediates' = queued
OneTickPerRound(calls, n, queued) ==
  LET taken == IF connected /\ ~inputPaused' THEN 1..(IF calls < n THEN calls ELSE n) ELSE {}
  IN /\ buffered' = n - Cardinality(taken)
     /\ ticks' = IF taken = {} THEN ticks ELSE ticks + 1
     /\ immediates' = queued + Cardinality({j \in taken : j < n})

\* calls of processReceivedData in a row, with n frames in bufferList: each
\* takes one frame, and calls setImmediate if that leaves some.  The first
\* frame that is rejected is the last one taken.
ProcessReceivedData(calls, n, queued) ==
  LET frame(j) == script[got' - n + j]
      taken == IF connected /\ ~inputPaused'
               THEN {j \in 1..n : j <= calls /\ \A k \in 1..(j - 1) : frame(k) # "bad"}
               ELSE {}
  IN /\ buffered' = n - Cardinality(taken)
     /\ ticks' = ticks + Cardinality(taken)
     /\ immediates' = queued + Cardinality({j \in taken : j < n /\ frame(j) # "bad"})

\* A slip: 'close' is emitted every time.
EmitAlways(code) == reported' = code

\* handleSocketClose and drop() emit 'close' at most once.
EmitClose(code) == reported' = IF reported = "none" THEN code ELSE reported

\* destroy() of the socket, which does nothing the second time.
DestroySocket == socket' = IF socket = "closed" THEN "closed" ELSE "closing"

\* A slip: the socket is left alone.
ErrorKeepsSocket ==
  /\ closeReasonCode' = "abnormal"
  /\ connected' = FALSE
  /\ state' = "closed"
  /\ fragmentationSize' = 0
  /\ UNCHANGED socket

\* handleSocketError: the code is overwritten, whatever it was.  The fragments
\* stay in the queue, and their length is forgotten.
HandleSocketError ==
  /\ closeReasonCode' = "abnormal"
  /\ connected' = FALSE
  /\ state' = "closed"
  /\ fragmentationSize' = 0
  /\ DestroySocket

\* A slip: the fragments received so far are kept.
DropKeepsFragments(skipCloseFrame) ==
  /\ sent' = IF state = "open" /\ ~ended THEN Append(sent, "close") ELSE sent
  /\ ended' = TRUE
  /\ closeReasonCode' = "ours"
  /\ EmitClose("ours")
  /\ UNCHANGED <<frameQueue, fragmentationSize>>
  /\ connected' = FALSE
  /\ state' = "closed"
  /\ closeTimer' = FALSE
  /\ watch' = "off"
  /\ DestroySocket

\* drop(): close frame, unless it is to be skipped, 'close' event, and the
\* socket is destroyed.  The close frame is due in the states open and
\* peer_requested_close; if our side of the socket is ended by then, the write
\* is a socket error.
Drop(skipCloseFrame) ==
  LET due == ~skipCloseFrame /\ state \in {"open", "peer_requested_close"}
      code == IF due /\ ended THEN "abnormal" ELSE "ours"
  IN /\ sent' = IF due /\ ~ended THEN Append(sent, "close") ELSE sent
     /\ ended' = (ended \/ due)
     /\ closeReasonCode' = code
     /\ EmitClose(code)
     /\ frameQueue' = <<>>
     /\ fragmentationSize' = 0
     /\ connected' = FALSE
     /\ state' = "closed"
     /\ closeTimer' = FALSE
     /\ watch' = "off"
     /\ DestroySocket

-----------------------------------------------------------------------------
\* setKeepaliveTimer()
SetKeepaliveTimer == watch' = IF keepalive = "off" THEN "off" ELSE "keepalive"

\* handleSocketData.  A paused socket emits nothing.
Data ==
  /\ LoopIdle
  /\ socket = "open"
  /\ ~inputPaused
  /\ \E n \in 1..(Len(script) - got) :
       /\ got' = got + n
       /\ UNCHANGED inputPaused
       /\ ProcessReceivedData(1, buffered + n, immediates)
  /\ SetKeepaliveTimer
  /\ UNCHANGED <<keepalive, script, frameQueue, fragmentationSize, delivered, state, connected,
                 closing, sent, ended, socket>>

\* The calls of processReceivedData that setImmediate has queued.
Immediates ==
  /\ LoopIdle
  /\ immediates > 0
  /\ UNCHANGED <<got, inputPaused>>
  /\ ProcessReceivedData(immediates, buffered, 0)
  /\ socket' = IF socket = "ended" THEN "closing" ELSE socket
  /\ UNCHANGED <<watching, script, frameQueue, fragmentationSize, delivered, state, connected,
                 closing, sent, ended>>

\* The parser rejects the frame, or it is illegal where it stands, or the
\* message gets too big.
Illegal(kind) ==
  \/ kind \in {"bad", "unknown"}
  \/ kind \in {"text", "first"} /\ frameQueue # <<>>
  \/ kind \in {"more", "last"} /\ (frameQueue = <<>> \/ fragmentationSize >= MaxMessage)

\* The payloads are copied into a buffer of the length that was counted, and
\* what goes beyond its end is lost.
Joined(fragments, size) == SubSeq(fragments, 1, size)

\* processFrame, or for a frame the parser has rejected the drop(), called by
\* process.nextTick.  Neither looks at connected.
ProcessFrame ==
  LET i == handled + 1
      kind == script[i]
  IN
  /\ ticks > 0
  /\ ticks' = ticks - 1
  /\ \/ /\ Illegal(kind)
        /\ Drop(FALSE)
        /\ UNCHANGED delivered
     \/ /\ kind = "text"
        /\ ~Illegal(kind)
        /\ delivered' = Append(delivered, <<i>>)
        /\ UNCHANGED <<watch, frameQueue, fragmentationSize, state, connected, closing, sent, ended, socket>>
     \/ /\ kind \in {"first", "more"}
        /\ ~Illegal(kind)
        /\ frameQueue' = Append(frameQueue, i)
        /\ fragmentationSize' = IF kind = "first" THEN 1 ELSE fragmentationSize + 1
        /\ UNCHANGED <<watch, delivered, state, connected, closing, sent, ended, socket>>
     \/ /\ kind = "last"
        /\ ~Illegal(kind)
        /\ delivered' = Append(delivered, Joined(Append(frameQueue, i), fragmentationSize + 1))
        /\ frameQueue' = <<>>
        /\ fragmentationSize' = 0
        /\ UNCHANGED <<watch, state, connected, closing, sent, ended, socket>>
     \/ /\ kind = "pong"
        /\ UNCHANGED <<watch, frameQueue, fragmentationSize, delivered, state, connected, closing,
                       sent, ended, socket>>
     \/ /\ kind = "ping"
        /\ IF ended THEN HandleSocketError /\ UNCHANGED sent
           ELSE sent' = Append(sent, "pong") /\ UNCHANGED <<fragmentationSize, closeReasonCode, connected, state, socket>>
        /\ UNCHANGED <<watch, frameQueue, delivered, closeTimer, reported, ended>>
     \/ /\ kind \in {"close", "bare"}
        /\ ended' = TRUE
        /\ IF closeTimer
           THEN /\ state' = "closed"
                /\ closeTimer' = FALSE
                /\ UNCHANGED <<fragmentationSize, connected, closeReasonCode, sent, socket>>
           ELSE /\ connected' = FALSE
                /\ UNCHANGED closeTimer
                /\ IF ended THEN HandleSocketError /\ UNCHANGED sent
                   ELSE /\ state' = "peer_requested_close"
                        /\ closeReasonCode' = IF kind = "bare" THEN "unset" ELSE "peer"
                        /\ sent' = Append(sent, "close")
                        /\ UNCHANGED <<fragmentationSize, socket>>
        /\ UNCHANGED <<watch, frameQueue, delivered, reported>>
  /\ UNCHANGED <<keepalive, script, got, buffered, immediates, inputPaused>>

\* handleSocketEnd: in every state the socket is then ended and destroyed, by
\* the handler or, since it is not half open, by itself.
SocketEnds ==
  /\ LoopIdle
  /\ socket = "open"
  /\ ~inputPaused
  /\ ended' = TRUE
  /\ socket' = "ended"
  /\ UNCHANGED <<watching, receiving, fragmentationSize, state, connected, inputPaused, closing, sent>>

\* handleSocketClose.  The event loop comes to 'close' after setImmediate.
SocketCloses ==
  /\ LoopIdle
  /\ socket = "closing" \/ (socket = "ended" /\ immediates = 0)
  /\ socket' = "closed"
  /\ connected' = FALSE
  /\ state' = "closed"
  /\ closeTimer' = FALSE
  /\ closeReasonCode' = IF closeReasonCode = "unset" THEN "abnormal" ELSE closeReasonCode
  /\ EmitClose(closeReasonCode')
  /\ watch' = "off"
  /\ UNCHANGED <<keepalive, receiving, fragmentationSize, inputPaused, sent, ended>>

\* The connection is reset.
SocketFails ==
  /\ LoopIdle
  /\ socket = "open"
  /\ HandleSocketError
  /\ UNCHANGED <<watching, receiving, inputPaused, closeTimer, reported, sent, ended>>

\* handleCloseTimer: the socket.end() it forces was done by close() already.
CloseTimerFires ==
  /\ LoopIdle
  /\ closeTimer
  /\ closeTimer' = FALSE
  /\ state' = "closed"
  /\ ended' = TRUE
  /\ UNCHANGED <<watching, receiving, fragmentationSize, connected, inputPaused, closeReasonCode,
                 reported, sent, socket>>

\* A slip: the keepalive timer is set where the grace period is due.
KeepaliveRepeats ==
  /\ LoopIdle
  /\ watch = "keepalive"
  /\ IF ended \/ socket # "open" THEN HandleSocketError /\ UNCHANGED sent
     ELSE sent' = Pinged /\ UNCHANGED <<fragmentationSize, closeReasonCode, connected, state, socket>>
  /\ UNCHANGED <<watching, receiving, inputPaused, closeTimer, reported, ended>>

\* handleKeepaliveTimer: the ping is written as any frame is, and nothing was
\* received since the timer was set.
KeepaliveTimerFires ==
  /\ LoopIdle
  /\ watch = "keepalive"
  /\ IF ended \/ socket # "open" THEN HandleSocketError /\ UNCHANGED sent
     ELSE sent' = Pinged /\ UNCHANGED <<fragmentationSize, closeReasonCode, connected, state, socket>>
  /\ watch' = IF keepalive = "drop" THEN "grace" ELSE "keepalive"
  /\ UNCHANGED <<keepalive, receiving, inputPaused, closeTimer, reported, ended>>

\* handleGracePeriodTimer
GracePeriodTimerFires ==
  /\ LoopIdle
  /\ watch = "grace"
  /\ Drop(TRUE)
  /\ UNCHANGED <<keepalive, script, got, buffered, immediates, ticks, delivered, inputPaused>>

-----------------------------------------------------------------------------
\* The application may call in the handler of an event, between two frames.

\* A slip: the close frame is sent and our side of the socket not ended.
CloseKeepsWriting ==
  /\ "close" \in AppCalls
  /\ connected /\ ~ended
  /\ closeReasonCode' = "ours"
  /\ sent' = Append(sent, "close")
  /\ closeTimer' = TRUE
  /\ state' = "ending"
  /\ connected' = FALSE
  /\ UNCHANGED <<watching, receiving, fragmentationSize, inputPaused, reported, ended, socket>>

\* close()
AppCloses ==
  /\ "close" \in AppCalls
  /\ connected
  /\ IF ended
     THEN closeReasonCode' = "abnormal" /\ fragmentationSize' = 0 /\ DestroySocket /\ UNCHANGED sent
     ELSE /\ closeReasonCode' = "ours"
          /\ sent' = Append(sent, "close")
          /\ UNCHANGED <<fragmentationSize, socket>>
  /\ closeTimer' = TRUE
  /\ ended' = TRUE
  /\ state' = "ending"
  /\ connected' = FALSE
  /\ UNCHANGED <<watching, receiving, inputPaused, reported>>

AppDrops ==
  /\ "drop" \in AppCalls
  /\ Drop(FALSE)
  /\ UNCHANGED <<keepalive, script, got, buffered, immediates, ticks, delivered, inputPaused>>

\* sendUTF() or sendBytes(), which look at no state.
AppSends ==
  /\ "send" \in AppCalls
  /\ Len(sent) < MaxSent
  /\ \/ /\ ended
        /\ HandleSocketError
        /\ UNCHANGED sent
     \/ /\ ~ended
        /\ socket = "open"
        /\ sent' = Append(sent, "data")
        /\ UNCHANGED <<fragmentationSize, closeReasonCode, connected, state, socket>>
  /\ UNCHANGED <<watching, receiving, inputPaused, closeTimer, reported, ended>>

\* pause(), and the 'pause' event that handleSocketPause takes.
AppPauses ==
  /\ "pause" \in AppCalls
  /\ ~inputPaused
  /\ inputPaused' = TRUE
  /\ UNCHANGED <<watching, receiving, fragmentationSize, state, connected, closing, sent, ended, socket>>

\* A slip: resuming does not look at what was buffered.
ResumeOnly ==
  /\ inputPaused
  /\ inputPaused' = FALSE
  /\ UNCHANGED <<watching, receiving, fragmentationSize, state, connected, closing, sent, ended, socket>>

\* resume(), and the 'resume' event that handleSocketResume takes.
AppResumes ==
  /\ inputPaused
  /\ inputPaused' = FALSE
  /\ UNCHANGED got
  /\ ProcessReceivedData(1, buffered, immediates)
  /\ UNCHANGED <<watching, script, frameQueue, fragmentationSize, delivered, state, connected,
                 closing, sent, ended, socket>>

Finished == socket = "closed" /\ LoopIdle /\ immediates = 0 /\ UNCHANGED vars

Next ==
  \/ Data \/ Immediates \/ ProcessFrame
  \/ SocketEnds \/ SocketCloses \/ SocketFails
  \/ CloseTimerFires \/ KeepaliveTimerFires \/ GracePeriodTimerFires
  \/ AppCloses \/ AppDrops \/ AppSends \/ AppPauses \/ AppResumes
  \/ Finished

\* Queued calls, timers and the 'close' of a destroyed socket come.  An
\* application that pauses resumes.  The end of the peer's stream is delivered
\* to a socket that is not paused, if the peer is one that ends it.
Fairness ==
  /\ WF_vars(ProcessFrame) /\ WF_vars(Immediates)
  /\ WF_vars(SocketCloses) /\ WF_vars(CloseTimerFires)
  /\ WF_vars(KeepaliveTimerFires) /\ WF_vars(GracePeriodTimerFires)
  /\ WF_vars(AppResumes)
  /\ PeerEnds => SF_vars(ended /\ SocketEnds)

Spec == Init /\ [][Next]_vars
FairSpec == Spec /\ Fairness

-----------------------------------------------------------------------------
\* The data frames between i and j make a message: one unfragmented, or a
\* first fragment, the ones in the middle and the last, within the limit.
DataFrames(i, j) == {k \in i..j : script[k] \in {"text", "first", "more", "last"}}
IsMessage(i, j) ==
  \/ i = j /\ script[i] = "text"
  \/ /\ i < j /\ script[i] = "first" /\ script[j] = "last"
     /\ \A k \in DataFrames(i + 1, j - 1) : script[k] = "more"
     /\ Cardinality(DataFrames(i, j)) <= MaxMessage

\* The messages in the first n frames, if those are legal.
Messages(n) == {DataFrames(ij[1], ij[2]) : ij \in {ij \in (1..n) \X (1..n) : IsMessage(ij[1], ij[2])}}

\* The beginnings of messages in the first n frames: a first fragment and some
\* of those that follow it, within the limit.
IsBeginning(i, j) ==
  /\ script[i] = "first"
  /\ \A k \in DataFrames(i + 1, j) : script[k] = "more"
  /\ Cardinality(DataFrames(i, j)) <= MaxMessage
Beginnings(n) == {DataFrames(ij[1], ij[2]) : ij \in {ij \in (1..n) \X (1..n) : ij[1] <= ij[2] /\ IsBeginning(ij[1], ij[2])}}

\* Each message the peer completes is emitted once, across chunks, pauses and
\* setImmediate.  After the connection was dropped some of the frames taken
\* are still handled: even then each message comes in its turn and no two are
\* mixed.  But whole they all are only until our side of the socket is ended:
\* an error then forgets the length of the fragments that wait, and the
\* message made of them is cut short.
MessagesWhole ==
  LET emitted == {ToSet(m) : m \in ToSet(delivered)}
  IN /\ connected => emitted = Messages(handled)
     /\ ~ended => emitted \subseteq Messages(handled)
     /\ emitted \subseteq Messages(handled) \cup Beginnings(handled)
     /\ \A m, n \in DOMAIN delivered : \A a \in DOMAIN delivered[m], b \in DOMAIN delivered[n] :
          (m < n \/ (m = n /\ a < b)) => delivered[m][a] < delivered[n][b]

\* No frame is left in bufferList with no call coming that will take it:
\* every way the parser stops early has another way to start it again.
NoStuckFrames ==
  connected /\ ~inputPaused /\ immediates = 0 /\ ticks = 0 => buffered = 0

\* Our close frame is the last frame on the wire, whoever starts to close and
\* whatever the peer or the application still asks for.
CloseIsLast == \A i \in 1..(Len(sent) - 1) : sent[i] # "close"

\* When 'close' carries the code of the peer's close frame, the application
\* has got every message the peer sent before that frame.
CleanCloseLosesNothing ==
  reported = "peer" =>
    \E i \in 1..handled :
      /\ script[i] = "close"
      /\ Messages(i) \subseteq {ToSet(m) : m \in ToSet(delivered)}

\* Once the connection is not connected any more, 'close' is emitted.
CloseCompletes == ~connected ~> reported # "none"

\* With a keepalive that drops, a connection whose peer has fallen silent
\* does not stay: the ping, the grace period or a failure ends it, also one
\* that is paused or was left half closed.
SilentPeerIsDropped == keepalive = "drop" ~> reported # "none"

\* To its owner a connection is a ChannelLife, from the handshake on: it opens
\* no second time and emits 'close' once, whatever errors, timers and calls
\* meet in it.
Channel == INSTANCE ChannelLife WITH
  phase <- IF reported # "none" THEN "dead" ELSE IF connected THEN "open" ELSE "closing",
  code <- reported
ChannelSpec == Channel!Spec
=============================================================================
