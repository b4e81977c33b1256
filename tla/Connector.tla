----------------------------- MODULE Connector -----------------------------
(***************************************************************************)
(* LiveStyleConnector of lib/livestyle.js: two WebSocket channels, one to  *)
(* the local LiveStyle server and one to the remote one, that reconnect    *)
(* each on its own, with the handshake of lib/websocket/client.js.         *)
(*                                                                         *)
(* A connection is the WebSocketConnection of Connection.tla reduced to    *)
(* its ChannelLife: it opens, it may be closing for a while, it emits      *)
(* 'close' once, and even then it may still emit a 'message'.              *)
(* Forwarding a message changes nothing here, unless it throws.            *)
(***************************************************************************)
EXTENDS Integers, FiniteSets

CONSTANTS
  Slots,         \* identities of the connections of one side
  null,          \* no connection
  ListenerCalls, \* what a listener of 'localConnect', 'remoteConnect' or 'connect' calls
  BadMessages    \* can a message come that is binary or not JSON?

ASSUME SlotsAssumption == IsFiniteSet(Slots) /\ Slots # {} /\ null \notin Slots
ASSUME ListenerCallsAssumption == ListenerCalls \subseteq {"destroy", "drop"}
ASSUME BadMessagesAssumption == BadMessages \in BOOLEAN

Sides == {"local", "remote"}
Other(s) == IF s = "local" THEN "remote" ELSE "local"

VARIABLES
  phase,     \* of each connection of each side
  watched,   \* connections with the listener of 'close' that reconnects
  heard,     \* local connections with the listener _forwardMessage
  leftover,  \* sockets of handshakes that failed: per side, what had come
  client,    \* localClient and remoteClient
  retries,   \* per side, the timers that will call connectTunnel
  listening, \* are the connector's own listeners in place?
  destroyed,
  told,      \* the last of 'connect' and 'disconnect' emitted
  announced, \* per side, the last of its events emitted: 'localConnect' and so on
  crashed    \* an exception nobody caught

vars == <<phase, leftover, watched, heard, client, retries, listening, destroyed, told, announced, crashed>>

\* "closing" has no 'close' emitted yet; "dead" may still emit a message.
Phases == {"free", "connecting", "open", "closing", "dead"}
Alive == {"open", "closing"}
Connections == Sides \X Slots

TypeOK ==
  /\ phase \in [Connections -> Phases]
  /\ leftover \subseteq Sides \X {"response", "upgrade"}
  /\ watched \subseteq Connections
  /\ heard \subseteq Slots
  /\ client \in [Sides -> Slots \cup {null}]
  /\ retries \in [Sides -> 0..2]
  /\ {listening, destroyed, crashed} \subseteq BOOLEAN
  /\ told \in {"none", "connect", "disconnect"}
  /\ announced \in [Sides -> {"none", "Connect", "Disconnect"}]

-----------------------------------------------------------------------------
\* The constructor calls connectTunnel for both sides.
Init ==
  /\ \E i \in Slots : phase = [c \in Connections |-> IF c[2] = i THEN "connecting" ELSE "free"]
  /\ leftover = {}
  /\ watched = {}
  /\ heard = {}
  /\ client = [s \in Sides |-> null]
  /\ retries = [s \in Sides |-> 0]
  /\ listening = TRUE
  /\ destroyed = FALSE
  /\ told = "none"
  /\ announced = [s \in Sides |-> "none"]
  /\ crashed = FALSE

\* reconnect()
Reconnect(s) ==
  retries' = IF destroyed THEN retries ELSE [retries EXCEPT ![s] = @ + 1]

\* The events of one side are emitted whether or not the connector listens.
Announced(s, event) == [announced EXCEPT ![s] = event]

\* onLocalConnect and onRemoteConnect.
Joined(s, i) == [client EXCEPT ![s] = i]
Listened(s, i) == IF s = "local" THEN heard \cup {i} ELSE heard
ToldJoined(s) == IF client[Other(s)] # null THEN "connect" ELSE told
OnConnect(s, i) ==
  /\ client' = Joined(s, i)
  /\ heard' = Listened(s, i)
  /\ told' = ToldJoined(s)

\* A slip: the listener of 'message' stays on the connection that closed.
DisconnectKeepsListener(s, i) ==
  /\ client' = [client EXCEPT ![s] = null]
  /\ told' = IF client[Other(s)] = null THEN "disconnect" ELSE told
  /\ UNCHANGED heard

\* onLocalDisconnect and onRemoteDisconnect.
OnDisconnect(s, i) ==
  /\ client' = [client EXCEPT ![s] = null]
  /\ heard' = IF s = "local" THEN heard \ {i} ELSE heard
  /\ told' = IF client[Other(s)] = null THEN "disconnect" ELSE told

\* A slip: both pointers are cleared without a word to the application.
DestroySilently(cl, hd, tl, an) ==
  /\ destroyed' = TRUE
  /\ listening' = FALSE
  /\ phase' = [c \in Connections |-> IF cl[c[1]] = c[2] THEN "dead" ELSE phase[c]]
  /\ client' = [s \in Sides |-> null]
  /\ heard' = {}
  /\ told' = tl
  /\ announced' = an

\* destroy() and onDestroy.  drop() emits 'close' at once, for the local side
\* and then the remote one, and the connector hears it of a connection that
\* is watched and has not emitted it before.
OnDestroy(cl, hd, tl, an) ==
  LET noticed(s) == cl[s] # null /\ <<s, cl[s]>> \in watched /\ phase[<<s, cl[s]>>] \in Alive
      left == [s \in Sides |-> IF noticed(s) THEN null ELSE cl[s]]
  IN /\ destroyed' = TRUE
     /\ listening' = FALSE
     /\ phase' = [c \in Connections |-> IF cl[c[1]] = c[2] THEN "dead" ELSE phase[c]]
     /\ client' = left
     /\ heard' = IF noticed("local") THEN hd \ {cl["local"]} ELSE hd
     /\ told' = IF \/ noticed("local") /\ cl["remote"] = null
                   \/ noticed("remote") /\ left["local"] = null
                THEN "disconnect" ELSE tl
     /\ announced' = [s \in Sides |-> IF noticed(s) THEN "Disconnect" ELSE an[s]]

-----------------------------------------------------------------------------
\* How a request ends: with an error, a response that is not 101, or an
\* upgrade, whose headers may each be what it has to be or not.
Headers == {"connection", "upgrade", "accept"}
Answers == [kind : {"error", "response", "upgrade"}, valid : SUBSET Headers]

\* validateHandshake(); the connector asks for no protocol.
ValidateHandshake(answer) == answer.kind = "upgrade" /\ answer.valid = Headers

\* Slips: the failure of a handshake is not retried; or it is heard again.
FailsForGood(s, i) ==
  /\ phase[<<s, i>>] = "connecting"
  /\ phase' = [phase EXCEPT ![<<s, i>>] = "free"]
  /\ UNCHANGED <<leftover, watched, heard, client, retries, listening, destroyed, told, announced>>
HeardAgain(s, kind) ==
  /\ kind = "response"
  /\ retries' = [retries EXCEPT ![s] = @ + 1]
  /\ UNCHANGED crashed

\* handleRequestError and failHandshake, both heard as connectFailed.  A
\* response that is not 101 is never read and its socket not ended; a socket
\* that was upgraded is ended, and nothing listens for its 'error' any more.
HandshakeFails(s, i) ==
  /\ phase[<<s, i>>] = "connecting"
  /\ phase' = [phase EXCEPT ![<<s, i>>] = "free"]
  /\ \E answer \in Answers :
       /\ ~ValidateHandshake(answer)
       /\ leftover' = IF answer.kind = "error" THEN leftover ELSE leftover \cup {<<s, answer.kind>>}
  /\ Reconnect(s)
  /\ UNCHANGED <<watched, heard, client, listening, destroyed, told, announced>>

\* A leftover socket fails.  After a response the request's listener takes the
\* error and emits connectFailed once more, to which nobody listens any more.
LeftoverError(s, kind) ==
  /\ crashed' = (kind = "upgrade")
  /\ UNCHANGED retries
LeftoverFails(s) ==
  /\ \E kind \in {"response", "upgrade"} :
       /\ <<s, kind>> \in leftover
       /\ leftover' = leftover \ {<<s, kind>>}
       /\ LeftoverError(s, kind)
  /\ UNCHANGED <<phase, watched, heard, client, listening, destroyed, told, announced>>

\* The server ends it.
LeftoverEnds(s) ==
  /\ \E kind \in {"response", "upgrade"} : <<s, kind>> \in leftover /\ leftover' = leftover \ {<<s, kind>>}
  /\ UNCHANGED <<phase, watched, heard, client, retries, listening, destroyed, told, announced>>

\* succeedHandshake.  The listener of 'close' comes last, after the listeners
\* of the application have run.
HandshakeSucceeds(s, i) ==
  /\ phase[<<s, i>>] = "connecting"
  /\ phase' = [phase EXCEPT ![<<s, i>>] = "open"]
  /\ announced' = Announced(s, "Connect")
  /\ IF listening THEN OnConnect(s, i) ELSE UNCHANGED <<client, heard, told>>
  /\ watched' = watched \cup {<<s, i>>}
  /\ UNCHANGED <<leftover, retries, listening, destroyed>>

\* The same, when a listener of the application drops the connection, also
\* after destroy().
ListenerDrops(s, i) ==
  /\ "drop" \in ListenerCalls
  /\ phase[<<s, i>>] = "connecting"
  /\ phase' = [phase EXCEPT ![<<s, i>>] = "dead"]
  /\ announced' = Announced(s, "Connect")
  /\ IF listening THEN OnConnect(s, i) ELSE UNCHANGED <<client, heard, told>>
  /\ watched' = watched \cup {<<s, i>>}
  /\ UNCHANGED <<leftover, retries, listening, destroyed>>

\* The same, when a listener of the application calls destroy().
ListenerDestroys(s, i) ==
  /\ "destroy" \in ListenerCalls
  /\ listening
  /\ phase[<<s, i>>] = "connecting"
  /\ OnDestroy(Joined(s, i), Listened(s, i), ToldJoined(s), Announced(s, "Connect"))
  /\ watched' = watched \cup {<<s, i>>}
  /\ UNCHANGED <<leftover, retries>>

\* The connection goes down: a close frame, a reset, the end of the stream.
GoesDown(s, i) ==
  /\ phase[<<s, i>>] = "open"
  /\ phase' = [phase EXCEPT ![<<s, i>>] = "closing"]
  /\ UNCHANGED <<leftover, watched, heard, client, retries, listening, destroyed, told, announced>>

\* Its 'close' event, by itself or in a drop() of the application.
Closes(s, i) ==
  /\ phase[<<s, i>>] \in Alive
  /\ phase' = [phase EXCEPT ![<<s, i>>] = "dead"]
  /\ announced' = Announced(s, "Disconnect")
  /\ IF listening THEN OnDisconnect(s, i) ELSE UNCHANGED <<client, heard, told>>
  /\ Reconnect(s)
  /\ UNCHANGED <<leftover, watched, listening, destroyed>>

\* Nothing more comes from the connection.
IsForgotten(s, i) ==
  /\ phase[<<s, i>>] = "dead"
  /\ client[s] # i
  /\ phase' = [phase EXCEPT ![<<s, i>>] = "free"]
  /\ watched' = watched \ {<<s, i>>}
  /\ UNCHANGED <<leftover, heard, client, retries, listening, destroyed, told, announced>>

\* A slip: connectTunnel does not look at destroyed.
RetryAlways(s) ==
  /\ retries[s] > 0
  /\ retries' = [retries EXCEPT ![s] = @ - 1]
  /\ \E i \in Slots : /\ phase[<<s, i>>] = "free"
                      /\ phase' = [phase EXCEPT ![<<s, i>>] = "connecting"]
  /\ UNCHANGED <<leftover, watched, heard, client, listening, destroyed, told, announced>>

\* A slip: a connection that is dead and not yet let go of is used again.
RetryReuses(s) ==
  /\ retries[s] > 0
  /\ retries' = [retries EXCEPT ![s] = @ - 1]
  /\ \E i \in Slots : /\ phase[<<s, i>>] \in {"free", "dead"}
                      /\ phase' = [phase EXCEPT ![<<s, i>>] = "connecting"]
  /\ UNCHANGED <<leftover, watched, heard, client, listening, destroyed, told, announced>>

\* connectTunnel, called by the timer of reconnect().
RetryFires(s) ==
  /\ retries[s] > 0
  /\ retries' = [retries EXCEPT ![s] = @ - 1]
  /\ \/ destroyed /\ UNCHANGED phase
     \/ /\ ~destroyed
        /\ \E i \in Slots : /\ phase[<<s, i>>] = "free"
                            /\ phase' = [phase EXCEPT ![<<s, i>>] = "connecting"]
  /\ UNCHANGED <<leftover, watched, heard, client, listening, destroyed, told, announced>>

\* destroy()
Destroy ==
  /\ ~destroyed
  /\ OnDestroy(client, heard, told, announced)
  /\ UNCHANGED <<leftover, watched, retries>>

\* forwardWebsocketData throws: readMessage returns nothing for a binary
\* message, of which .name is read, and JSON.parse rejects other text.
MessageThrows ==
  /\ BadMessages
  /\ \E i \in heard : phase[<<"local", i>>] \in {"open", "closing", "dead"}
  /\ client["remote"] # null
  /\ crashed' = TRUE
  /\ UNCHANGED <<leftover, phase, watched, heard, client, retries, listening, destroyed, told, announced>>

HandshakeEnds(s) == \E i \in Slots :
  \/ HandshakeFails(s, i)
  \/ HandshakeSucceeds(s, i)
  \/ ListenerDrops(s, i)
  \/ ListenerDestroys(s, i)
Accepted(s) == \E i \in Slots :
  \/ HandshakeSucceeds(s, i)
  \/ ListenerDrops(s, i)
  \/ ListenerDestroys(s, i)

Step ==
  \/ \E s \in Sides :
       \/ HandshakeEnds(s)
       \/ RetryFires(s)
       \/ LeftoverEnds(s)
       \/ \E i \in Slots : GoesDown(s, i) \/ Closes(s, i) \/ IsForgotten(s, i)
  \/ Destroy

Running(A) == ~crashed /\ A /\ UNCHANGED crashed

Stopped ==
  /\ \/ crashed
     \/ /\ destroyed
        /\ \A s \in Sides : retries[s] = 0
        /\ \A c \in Connections : phase[c] = "free" \/ (phase[c] = "dead" /\ client[c[1]] = c[2])
  /\ UNCHANGED vars

Next ==
  \/ Running(Step)
  \/ ~crashed /\ MessageThrows
  \/ \E s \in Sides : ~crashed /\ LeftoverFails(s)
  \/ Stopped

\* Timers fire.  A handshake is answered, as the client has no timeout of its
\* own, and a server that is asked again and again accepts in the end.  A
\* connection that went down emits 'close', and is then silent.
Fairness ==
  \A s \in Sides :
    /\ WF_vars(Running(RetryFires(s)))
    /\ WF_vars(Running(HandshakeEnds(s)))
    /\ SF_vars(Running(Accepted(s)))
    /\ \A i \in Slots :
         /\ WF_vars(phase[<<s, i>>] = "closing" /\ Running(Closes(s, i)))
         /\ WF_vars(Running(IsForgotten(s, i)))

Spec == Init /\ [][Next]_vars
FairSpec == Spec /\ Fairness

-----------------------------------------------------------------------------
\* The attempts and channels of a side that may still start or end something.
InFlight(s) == {i \in Slots : phase[<<s, i>>] \in Alive \cup {"connecting"}}
Efforts(s) == retries[s] + Cardinality(InFlight(s))

\* Each side has one channel at most, or one attempt at it: no combination of
\* failures, closes and retries starts a second.
OneChannel == \A s \in Sides : Efforts(s) <= 1

\* What the application was told last is right: with both sides there it was
\* 'connect', and with both gone it was not.  And what was last emitted of a
\* side that has a channel or an attempt, also after destroy(), is that it
\* connected, exactly if the channel is there.
ToldRight ==
  /\ (\A s \in Sides : client[s] # null) => told = "connect"
  /\ (\A s \in Sides : client[s] = null) => told # "connect"
  /\ \A s \in Sides : \A i \in InFlight(s) :
       announced[s] = "Connect" <=> phase[<<s, i>>] \in Alive

\* A message is only forwarded if it comes from the present local connection,
\* though one that closed may still emit some, and after destroy() none can
\* reach the remote server.
ForwardsPresent ==
  \A i \in heard :
    /\ i = client["local"]
    /\ destroyed => client["remote"] = null \/ phase[<<"remote", client["remote"]>>] = "dead"

\* After destroy() no attempt starts, and 'connect' and 'disconnect' are not
\* emitted any more.  An attempt or a channel that was in flight is left to run
\* its course, and its side's events are still emitted; but once nothing of a
\* side is in flight, none comes.
SilentAfterDestroy ==
  [][destroyed =>
       /\ told' = told
       /\ client' = client
       /\ \A s \in Sides : /\ InFlight(s)' \subseteq InFlight(s)
                           /\ announced'[s] # announced[s] => InFlight(s) # {}]_vars

\* The connector treats each connection as a ChannelLife: whatever a listener
\* does in the middle of a handshake, none is used again before its 'close'.
Life(c) == INSTANCE ChannelLife WITH phase <- phase[c], code <- IF phase[c] = "dead" THEN "any" ELSE "none"
ChannelSpec ==
  /\ \A c \in Connections : Life(c)!Init
  /\ [][\A c \in Connections : [Life(c)!Next]_(Life(c)!vars)]_vars

\* A side is connected if its pointer names an open connection.  One that a
\* listener dropped as it opened, before anything listened for its 'close',
\* stays in the pointer for good.
IsOpen(s) == client[s] # null /\ phase[<<s, client[s]>>] = "open"
IsDropped(s) == client[s] # null /\ phase[<<s, client[s]>>] = "dead"

\* A side that is not connected gets connected again, after any failures and
\* closes, unless the connector is destroyed or its connection was dropped by a
\* listener as it opened.
Reconnects ==
  \A s \in Sides : ~IsOpen(s) ~> IsOpen(s) \/ IsDropped(s) \/ destroyed \/ crashed

\* The same without that exception: a channel that is lost, in whatever way, is
\* connected again.
ReconnectsAlways ==
  \A s \in Sides : ~IsOpen(s) ~> IsOpen(s) \/ destroyed \/ crashed
=============================================================================
