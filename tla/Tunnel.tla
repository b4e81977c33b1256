------------------------------- MODULE Tunnel -------------------------------
(***************************************************************************)
(* One reverse tunnel, lib/tunnel.js: the socket to the Remote View        *)
(* server, the response to its CONNECT request, and the socket to the      *)
(* local server that is opened when the first request comes down.          *)
(*                                                                         *)
(* What the server sends is a script of tokens.  The first is its answer,  *)
(* <<"e1", "e2">> is the header terminator CR LF CR LF cut in two, and the *)
(* rest are requests.  TCP delivers the script in chunks of any length.    *)
(***************************************************************************)
EXTENDS Integers, Sequences, SequencesExt, FiniteSetsExt

CONSTANTS
  Requests,    \* what the server may send after its answer: sequences of tokens
  MaxAnswers,  \* bound on the pieces of response of the local server
  Splits       \* can a chunk end inside the terminator of the answer?

ASSUME RequestsAssumption == \A request \in Requests : request \in Seq(ToSet(request))
ASSUME MaxAnswersAssumption == MaxAnswers \in Nat
ASSUME SplitsAssumption == Splits \in BOOLEAN

VARIABLES
  script,     \* all that the server sends
  got,        \* how much of it has arrived
  rv,         \* the socket to the server
  listening,  \* is onSocketData listening to the socket's 'data'?
  waiting,    \* is setupLocalConnection waiting for 'readable'?
  connected,  \* _connected, set by the 'connected' event
  local,      \* the socket to the local server
  toLocal,    \* tokens written to it
  answers,    \* pieces of response forwarded to the server
  destroyed,  \* _destroyed
  reason,     \* the error given to destroy()
  reported    \* was the 'destroy' event delivered?

vars == <<script, got, rv, listening, waiting, connected, local, toLocal, answers,
          destroyed, reason, reported>>

-----------------------------------------------------------------------------
Answers == {"ok", "refused", "garbage"}
AnswerLength == 3
Scripts == {<<pair[1], "e1", "e2">> \o pair[2] : pair \in Answers \X Requests}

TypeOK ==
  /\ script \in Scripts
  /\ got \in 0..Len(script)
  /\ rv \in {"connecting", "open", "halfClosed", "closing", "closed"}
  /\ local \in {"none", "connecting", "open", "closed"}
  /\ {listening, waiting, connected, destroyed, reported} \subseteq BOOLEAN
  /\ toLocal \in Seq(ToSet(script))
  /\ answers \in 0..MaxAnswers
  /\ reason \in {"none", "forbidden", "network"}

\* A slip: the local socket is forgotten.
DestroyKeepsLocal(err) ==
  /\ ~destroyed
  /\ destroyed' = TRUE
  /\ reason' = err
  /\ rv' = "closed"
  /\ listening' = FALSE
  /\ waiting' = FALSE
  /\ UNCHANGED local

\* destroy(err), called by the socket's 'error' or 'close' or by the cluster:
\* both sockets go, and the 'destroy' event is queued.
Destroy(err) ==
  /\ ~destroyed
  /\ destroyed' = TRUE
  /\ reason' = err
  /\ rv' = "closed"
  /\ local' = IF local = "none" THEN "none" ELSE "closed"
  /\ listening' = FALSE
  /\ waiting' = FALSE

\* chunk.indexOf(HEADER_END) and the two slices: what is fed to the parser of
\* the answer, and what is taken for a queued request.
HeaderEnds(chunk) == {i \in 1..(Len(chunk) - 1) : chunk[i] = "e1" /\ chunk[i + 1] = "e2"}
\* A slip: the queued request is fed to the parser of the answer.
FedWhole(chunk) == Len(chunk)
FedLength(chunk) == IF HeaderEnds(chunk) = {} THEN Len(chunk) ELSE Min(HeaderEnds(chunk)) + 1
Queued(chunk) == SubSeq(chunk, FedLength(chunk) + 1, Len(chunk))

-----------------------------------------------------------------------------
Init ==
  /\ script \in Scripts
  /\ got = 0
  /\ rv = "connecting"
  /\ listening = TRUE
  /\ waiting = FALSE
  /\ connected = FALSE
  /\ local = "none"
  /\ toLocal = <<>>
  /\ answers = 0
  /\ destroyed = FALSE
  /\ reason = "none"
  /\ reported = FALSE

\* TCP is established: the CONNECT request goes out.
RvConnects ==
  /\ rv = "connecting"
  /\ rv' = "open"
  /\ UNCHANGED <<script, got, listening, waiting, connected, local, toLocal, answers,
                 destroyed, reason, reported>>

\* The next chunk arrives.
Arrives(chunk) ==
  /\ rv \in {"open", "halfClosed"}
  /\ \E n \in (got + 1)..Len(script) :
       /\ chunk = SubSeq(script, got + 1, n)
       /\ n # AnswerLength - 1 \/ Splits
       /\ got' = n
  /\ UNCHANGED <<script, reported>>

\* onSocketData: the parser of the answer takes the fed part.  It rejects
\* garbage, waits for more, or completes; what it is fed beyond the answer it
\* takes for the body of the answer, which is dropped.
OnSocketData(chunk) ==
  LET parsed == got + FedLength(chunk) IN
  /\ listening
  /\ Arrives(chunk)
  /\ UNCHANGED answers
  /\ \/ /\ script[1] = "garbage"
        /\ Destroy("network")
        /\ UNCHANGED <<connected, toLocal>>
     \/ /\ script[1] # "garbage"
        /\ parsed < AnswerLength
        /\ UNCHANGED <<rv, listening, waiting, connected, local, toLocal, destroyed, reason>>
     \/ /\ script[1] = "refused"
        /\ parsed >= AnswerLength
        /\ Destroy("forbidden")
        /\ UNCHANGED <<connected, toLocal>>
     \/ /\ script[1] = "ok"
        /\ parsed >= AnswerLength
        /\ listening' = FALSE
        /\ connected' = TRUE
        /\ toLocal' = Queued(chunk)
        /\ local' = IF Queued(chunk) = <<>> THEN "none" ELSE "connecting"
        /\ waiting' = (Queued(chunk) = <<>>)
        /\ UNCHANGED <<rv, destroyed, reason>>

\* A slip: 'readable' is listened to before the answer was parsed.
PipeTooSoon(chunk) ==
  /\ Arrives(chunk)
  /\ waiting' = FALSE
  /\ local' = IF local = "none" THEN "connecting" ELSE local
  /\ toLocal' = toLocal \o chunk
  /\ UNCHANGED <<rv, listening, connected, answers, destroyed, reason>>

\* Data for the local server: 'readable' calls setupLocalConnection, whose
\* pipe then carries this chunk and all others.  What comes after the local
\* socket has closed stays in the pipe.
PipeToLocal(chunk) ==
  /\ ~listening
  /\ Arrives(chunk)
  /\ waiting' = FALSE
  /\ local' = IF waiting THEN "connecting" ELSE local
  /\ toLocal' = IF local = "closed" THEN toLocal ELSE toLocal \o chunk
  /\ UNCHANGED <<rv, listening, connected, answers, destroyed, reason>>

\* The server ends its side: the socket, which is not half open, closes next.
\* The end of the stream is 'readable' as well.
RvEnds ==
  /\ rv \in {"open", "halfClosed"}
  /\ rv' = "closing"
  /\ waiting' = FALSE
  /\ local' = IF waiting THEN "connecting" ELSE local
  /\ UNCHANGED <<script, got, listening, connected, toLocal, answers, destroyed, reason, reported>>

\* 'close' of the socket.
RvCloses ==
  /\ rv = "closing"
  /\ Destroy("none")
  /\ UNCHANGED <<script, got, connected, toLocal, answers, reported>>

\* A slip: any failure counts as the server's refusal.
FailsForbidden ==
  /\ rv # "closed"
  /\ Destroy("forbidden")
  /\ UNCHANGED <<script, got, connected, toLocal, answers, reported>>

\* 'error' of the socket.
RvFails ==
  /\ rv # "closed"
  /\ Destroy("network")
  /\ UNCHANGED <<script, got, connected, toLocal, answers, reported>>

LocalConnects ==
  /\ local = "connecting"
  /\ local' = "open"
  /\ UNCHANGED <<script, got, rv, listening, waiting, connected, toLocal, answers,
                 destroyed, reason, reported>>

\* 'error' of the local socket destroys the socket to the server with it.
LocalFails ==
  /\ local \in {"connecting", "open"}
  /\ Destroy("network")
  /\ UNCHANGED <<script, got, connected, toLocal, answers, reported>>

\* The local server answers: 'activity', and the pipe writes to the socket,
\* which fails if that is closing.
LocalResponds ==
  /\ local = "open"
  /\ \/ /\ rv = "open"
        /\ answers < MaxAnswers
        /\ answers' = answers + 1
        /\ UNCHANGED <<rv, listening, waiting, local, destroyed, reason>>
     \/ /\ rv = "closing"
        /\ Destroy("network")
        /\ UNCHANGED answers
  /\ UNCHANGED <<script, got, connected, toLocal, reported>>

\* The local server is done: the pipe ends the socket to the server.
LocalEnds ==
  /\ local = "open"
  /\ local' = "closed"
  /\ rv' = IF rv = "open" THEN "halfClosed" ELSE rv
  /\ UNCHANGED <<script, got, listening, waiting, connected, toLocal, answers,
                 destroyed, reason, reported>>

\* A slip: the timeout starts with the connection.
TimesOutOpen ==
  /\ local = "open"
  /\ rv' = "closing"
  /\ UNCHANGED <<script, got, listening, waiting, connected, local, toLocal, answers,
                 destroyed, reason, reported>>

\* 'timeout' of the local socket destroys the socket to the server.
LocalTimesOut ==
  /\ local \in {"connecting", "open"}
  /\ rv' = "closing"
  /\ UNCHANGED <<script, got, listening, waiting, connected, local, toLocal, answers,
                 destroyed, reason, reported>>

\* A slip: the cluster makes up a reason.
OwnerComplains ==
  /\ Destroy("popped")
  /\ UNCHANGED <<script, got, connected, toLocal, answers, reported>>

\* The cluster has popped the tunnel.
OwnerDestroys ==
  /\ Destroy("none")
  /\ UNCHANGED <<script, got, connected, toLocal, answers, reported>>

\* The tick that emits 'destroy'.
Report ==
  /\ destroyed
  /\ ~reported
  /\ reported' = TRUE
  /\ UNCHANGED <<script, got, rv, listening, waiting, connected, local, toLocal, answers,
                 destroyed, reason>>

Finished == reported /\ UNCHANGED vars

Chunks == {SubSeq(script, m, n) : m \in 1..Len(script), n \in 1..Len(script)} \ {<<>>}

Next ==
  \/ RvConnects
  \/ \E chunk \in Chunks : OnSocketData(chunk) \/ PipeToLocal(chunk)
  \/ RvEnds \/ RvCloses \/ RvFails
  \/ LocalConnects \/ LocalFails \/ LocalResponds \/ LocalEnds \/ LocalTimesOut
  \/ OwnerDestroys
  \/ Report
  \/ Finished

\* Ticks run and a closed socket says so.  The local socket has a timeout of
\* 30 seconds, which only traffic defers.  That the server ends a tunnel the
\* client has ended is an assumption on the server: the code does not enforce
\* it.
Fairness ==
  /\ WF_vars(Report)
  /\ WF_vars(RvCloses)
  /\ WF_vars(LocalTimesOut)
  /\ WF_vars(rv = "halfClosed" /\ RvEnds)

Spec == Init /\ [][Next]_vars
FairSpec == Spec /\ Fairness

-----------------------------------------------------------------------------
\* The local server gets the bytes the server sent after its answer: all that
\* arrived, in order, none of them twice, however TCP cut them into chunks.
RequestsIntact ==
  LET request == SubSeq(script, AnswerLength + 1, Len(script))
      arrived == SubSeq(script, AnswerLength + 1, got)
  IN /\ IsPrefix(toLocal, request)
     /\ connected /\ local # "closed" => toLocal = arrived

\* Destroying a tunnel leaves neither of its sockets open, nor a listener that
\* could open the local one later.
NoSocketLeaks == destroyed => rv = "closed" /\ local \in {"none", "closed"} /\ ~listening /\ ~waiting

\* The local server is only contacted for a tunnel that was established.
OnlyEstablishedReachLocal == local # "none" \/ toLocal # <<>> => connected /\ script[1] = "ok"

\* A tunnel that has contacted the local server ends, and its owner is told.
TunnelEnds == local # "none" ~> reported

\* The tunnel lives the life its owner counts on.
phaseSeen ==
  IF reported THEN "free"
  ELSE IF destroyed THEN "destroyed"
  ELSE IF connected THEN "connected" ELSE "connecting"
Life == INSTANCE TunnelLife WITH phase <- phaseSeen, reason <- IF reported THEN "none" ELSE reason
LifeSpec == Life!Spec
=============================================================================
