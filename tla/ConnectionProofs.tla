-------------------------- MODULE ConnectionProofs --------------------------
(***************************************************************************)
(* Safety of Connection for every script of the peer that is made of the   *)
(* kinds of frames, however it is cut into chunks, every limit and all     *)
(* calls of the application; and that its owner sees a ChannelLife.        *)
(***************************************************************************)
EXTENDS Connection, FiniteSetTheorems, SequenceTheorems, TLAPS

\* The inductive invariant, in named parts.  First what concerns the counters,
\* the state and the frames sent.
CountsOK ==
  /\ script \in Scripts
  /\ got \in 0..Len(script) /\ buffered \in 0..got /\ handled \in 0..got
  /\ immediates \in 0..Len(script)
  /\ ticks \in 0..Len(script)
QueuesOK ==
  /\ frameQueue \in Seq(1..Len(script))
  /\ fragmentationSize \in 0..MaxMessage
  /\ delivered \in Seq(Seq(1..Len(script)))
FlagsOK == {connected, inputPaused, closeTimer, ended} \subseteq BOOLEAN
ClosingOK ==
  /\ state \in States
  /\ closeReasonCode \in Codes
  /\ reported \in {"none", "ours", "peer", "abnormal"}
  /\ sent \in Seq({"data", "ping", "pong", "close"})
WatchOK ==
  /\ keepalive \in Keepalives
  /\ watch \in {"off", "keepalive"} \cup IF keepalive = "drop" THEN {"grace"} ELSE {}
  /\ keepalive = "off" \/ socket = "closed" => watch = "off"
  /\ socket \in {"open", "ended", "closing", "closed"}

CallsCounted == immediates <= got - buffered
RejectedIsTaken ==
  connected /\ ~inputPaused /\ immediates = 0 /\ buffered > 0 =>
    \E i \in (handled + 1)..(handled + ticks) : script[i] = "bad"
EndedByClose == (\E i \in DOMAIN sent : sent[i] = "close") => ended
OpenIsConnected ==
  /\ connected <=> state = "open"
  /\ closeTimer => ~connected
  /\ ticks > 0 /\ ~connected => ended

\* What StateInv says beside the counters and the queues.
OutsideInv ==
  /\ FlagsOK /\ ClosingOK /\ WatchOK
  /\ EndedByClose /\ CloseIsLast /\ OpenIsConnected

StateInv ==
  /\ CountsOK /\ QueuesOK /\ FlagsOK /\ ClosingOK /\ WatchOK
  /\ CallsCounted /\ RejectedIsTaken
  /\ EndedByClose /\ CloseIsLast /\ OpenIsConnected

\* Then what concerns the messages.
Emitted == {ToSet(m) : m \in ToSet(delivered)}

\* The fragments that wait are all the data frames since a first one.
FragmentsFit ==
  frameQueue # <<>> =>
    LET f == frameQueue[1]
    IN /\ f \in 1..handled /\ script[f] = "first"
       /\ ToSet(frameQueue) = DataFrames(f, handled)
       /\ \A k \in DataFrames(f + 1, handled) : script[k] = "more"
       /\ Len(frameQueue) = Cardinality(DataFrames(f, handled))
       /\ \A a, b \in DOMAIN frameQueue : a < b => frameQueue[a] < frameQueue[b]
       /\ \A m \in DOMAIN delivered : \A a \in DOMAIN delivered[m] : delivered[m][a] < f
\* Their length is right while connected; an error that came since can only
\* have made it shorter.
SizeFits ==
  /\ fragmentationSize <= Len(frameQueue)
  /\ connected => fragmentationSize = Len(frameQueue)
HandledDelivered ==
  \A m \in DOMAIN delivered : \A a \in DOMAIN delivered[m] : delivered[m][a] <= handled
DeliveredInTurn ==
  \A m, n \in DOMAIN delivered : \A a \in DOMAIN delivered[m], b \in DOMAIN delivered[n] :
    (m < n \/ (m = n /\ a < b)) => delivered[m][a] < delivered[n][b]
EmittedAre ==
  /\ Emitted \subseteq Messages(handled) \cup Beginnings(handled)
  /\ ~ended => Emitted \subseteq Messages(handled)
  /\ connected => Emitted = Messages(handled)
CleanClose ==
  closeReasonCode = "peer" \/ reported = "peer" =>
    \E i \in 1..handled : script[i] = "close" /\ Messages(i) \subseteq Emitted

MessageInv ==
  /\ FragmentsFit /\ SizeFits /\ HandledDelivered /\ DeliveredInTurn
  /\ EmittedAre /\ CleanClose

IInv == StateInv /\ MessageInv

USE ScriptsAssumption, MaxMessageAssumption, MaxSentAssumption, AppCallsAssumption,
    PeerEndsAssumption, KeepalivesAssumption

-----------------------------------------------------------------------------
\* A script is a sequence of kinds, of some length.
LEMMA ScriptFacts ==
  ASSUME script \in Scripts
  PROVE  /\ Len(script) \in Nat /\ DOMAIN script = 1..Len(script)
         /\ \A i \in 1..Len(script) : script[i] \in Kinds
BY LenProperties, ElementOfSeq

\* The parts of the type invariant, so that a step names those it can disturb.
LEMMA TypeParts == TypeOK <=> CountsOK /\ QueuesOK /\ FlagsOK /\ ClosingOK /\ WatchOK
BY DEF TypeOK, CountsOK, QueuesOK, FlagsOK, ClosingOK, WatchOK

\* What the calls of processReceivedData take: nothing beyond what is buffered,
\* and if frames are left with no call queued to take them, then a call has
\* taken a frame that is rejected.
LEMMA TakenFacts ==
  ASSUME ticks \in Nat, got' \in Nat, connected \in BOOLEAN,
         NEW calls \in Nat, NEW n \in Nat, NEW queued \in Nat, n <= got',
         ProcessReceivedData(calls, n, queued)
  PROVE  \E t \in 0..n :
           /\ buffered' = n - t /\ ticks' = ticks + t
           /\ immediates' \in queued..(queued + t)
           /\ ~connected => t = 0
           /\ connected /\ ~inputPaused' /\ calls > 0 /\ immediates' = 0 /\ buffered' > 0 =>
                t > 0 /\ script[got' - n + 1] = "bad"
<1> DEFINE frame(j) == script[got' - n + j]
           taken == IF connected /\ ~inputPaused'
                    THEN {j \in 1..n : j <= calls /\ \A k \in 1..(j - 1) : frame(k) # "bad"}
                    ELSE {}
           again == {j \in taken : j < n /\ frame(j) # "bad"}
<1>1. /\ buffered' = n - Cardinality(taken)
      /\ ticks' = ticks + Cardinality(taken)
      /\ immediates' = queued + Cardinality(again)
  BY DEF ProcessReceivedData
<1>2. IsFiniteSet(1..n) /\ Cardinality(1..n) = n
  BY FS_Interval, 1 \in Int, n \in Int
<1>3. taken \subseteq 1..n /\ again \subseteq taken OBVIOUS
<1>4. /\ IsFiniteSet(taken) /\ Cardinality(taken) <= n
      /\ IsFiniteSet(again) /\ Cardinality(again) <= Cardinality(taken)
  <2> HIDE DEF taken, again
  <2>1. IsFiniteSet(taken) /\ Cardinality(taken) <= Cardinality(1..n)
    BY <1>2, <1>3, FS_Subset
  <2>2. IsFiniteSet(again) /\ Cardinality(again) <= Cardinality(taken)
    BY <1>3, <2>1, FS_Subset
  <2> QED BY <1>2, <2>1, <2>2
<1>5. Cardinality(taken) \in Nat /\ Cardinality(again) \in Nat
  BY <1>4, FS_CardinalityType
<1>6. ~connected => Cardinality(taken) = 0
  BY FS_EmptySet
<1>7. ASSUME connected, ~inputPaused', calls > 0, immediates' = 0, buffered' > 0
      PROVE  Cardinality(taken) > 0 /\ script[got' - n + 1] = "bad"
  <2>1. n > 0 BY <1>1, <1>5, <1>7
  <2>2. 1 \in taken BY <1>7, <2>1
  <2>3. again = {} /\ Cardinality(again) = 0
    <3> HIDE DEF taken, again
    <3> QED BY <1>1, <1>4, <1>5, <1>7, FS_EmptySet
  <2>4. Cardinality(taken) # 0
    <3> HIDE DEF taken, again
    <3> QED BY <1>4, <2>2, FS_EmptySet
  <2>5. n # 1
    <3>1. ASSUME n = 1 PROVE FALSE
      <4> HIDE DEF taken, again
      <4> QED BY <1>1, <1>5, <1>7, <2>4, <3>1
    <3> QED BY <3>1
  <2>6. frame(1) = "bad" BY <2>1, <2>2, <2>3, <2>5
  <2> QED BY <1>5, <2>4, <2>6
<1> HIDE DEF taken, again
<1>8. PICK t \in 0..n : t = Cardinality(taken) BY <1>4, <1>5
<1>9. immediates' \in queued..(queued + t) BY <1>1, <1>4, <1>5, <1>8
<1> QED BY <1>1, <1>6, <1>7, <1>8, <1>9

\* After a round of processReceivedData the counters are right, no frame has
\* been handled, and one that is left over is accounted for.
LEMMA TakesStep ==
  ASSUME StateInv, NEW calls \in Nat \ {0}, NEW m \in Nat, NEW queued \in {0, immediates},
         got' = got + m, got' <= Len(script), ProcessReceivedData(calls, buffered + m, queued),
         UNCHANGED <<script, connected>>
  PROVE  /\ CountsOK' /\ CallsCounted' /\ RejectedIsTaken'
         /\ handled' = handled /\ ticks' \in Nat /\ ticks' >= ticks
         /\ ~connected => ticks' = ticks
<1>1. /\ Len(script) \in Nat /\ got \in 0..Len(script) /\ buffered \in 0..got
      /\ ticks \in Nat /\ immediates \in Nat /\ handled \in 0..got
      /\ connected \in BOOLEAN /\ immediates <= got - buffered
  BY ScriptFacts DEF StateInv, CountsOK, FlagsOK, CallsCounted
<1>2. PICK t \in 0..(buffered + m) :
           /\ buffered' = buffered + m - t /\ ticks' = ticks + t
           /\ immediates' \in queued..(queued + t)
           /\ ~connected => t = 0
           /\ connected /\ ~inputPaused' /\ calls > 0 /\ immediates' = 0 /\ buffered' > 0 =>
                t > 0 /\ script[got' - (buffered + m) + 1] = "bad"
  BY <1>1, TakenFacts
<1>3. /\ handled' = handled /\ ticks' \in Nat /\ ticks' >= ticks
      /\ ~connected => ticks' = ticks
  BY <1>1, <1>2 DEF handled
<1>4. got' \in 0..Len(script) /\ buffered' \in 0..got' /\ handled' \in 0..got'
  BY <1>1, <1>2, <1>3
<1>5. immediates' \in Nat /\ immediates' <= got' - buffered' BY <1>1, <1>2
<1>6. immediates' <= Len(script) /\ ticks' <= Len(script) BY <1>1, <1>2, <1>4, <1>5 DEF handled
<1>7. RejectedIsTaken'
  <2> SUFFICES ASSUME connected', ~inputPaused', immediates' = 0, buffered' > 0
               PROVE  \E i \in (handled' + 1)..(handled' + ticks') : script'[i] = "bad"
    BY DEF RejectedIsTaken
  <2>1. t > 0 /\ script[got' - (buffered + m) + 1] = "bad" BY <1>2
  <2>2. got' - (buffered + m) + 1 \in (handled' + 1)..(handled' + ticks')
    BY <1>1, <1>2, <1>3, <2>1 DEF handled
  <2> QED BY <2>1, <2>2
<1>8. CountsOK'
  BY <1>3, <1>4, <1>5, <1>6 DEF StateInv, CountsOK
<1> QED BY <1>3, <1>5, <1>7, <1>8 DEF CallsCounted

\* A connection that is not opened or resumed, and has received nothing.
LEMMA QuietStep ==
  ASSUME StateInv, connected' => connected, inputPaused => inputPaused',
         UNCHANGED <<script, got, buffered, immediates, ticks>>
  PROVE  CountsOK' /\ CallsCounted' /\ RejectedIsTaken' /\ handled' = handled
<1>1. handled' = handled BY DEF handled
<1> QED BY <1>1 DEF StateInv, CountsOK, CallsCounted, RejectedIsTaken

\* No fragment comes or goes, and at most an error forgets their length.
LEMMA QueuesStay ==
  ASSUME QueuesOK, UNCHANGED <<script, frameQueue, delivered>>,
         fragmentationSize' \in {fragmentationSize, 0}
  PROVE  QueuesOK'
BY DEF QueuesOK

\* The parts of the invariant about the state outside the frames' contents.
LEMMA StateParts == 
  StateInv <=> OutsideInv /\ CountsOK /\ QueuesOK /\ CallsCounted /\ RejectedIsTaken
BY DEF StateInv, OutsideInv

\* Nothing the outside sees has changed, and no call of processFrame is due
\* that was not.
LEMMA InsideStep ==
  ASSUME OutsideInv, UNCHANGED <<state, connected, closing, sent, ended, socket, keepalive>>,
         inputPaused' \in BOOLEAN, ~connected => (ticks' > 0 => ticks > 0),
         watch' = watch \/ (socket # "closed" /\ SetKeepaliveTimer)
  PROVE  OutsideInv'
<1>1. FlagsOK' BY DEF OutsideInv, FlagsOK, closing
<1>2. WatchOK' BY DEF OutsideInv, WatchOK, SetKeepaliveTimer
<1>3. ClosingOK' BY DEF OutsideInv, ClosingOK, closing
<1>4. EndedByClose' /\ CloseIsLast' BY DEF OutsideInv, EndedByClose, CloseIsLast
<1>5. OpenIsConnected' BY DEF OutsideInv, OpenIsConnected, closing
<1> QED BY <1>1, <1>2, <1>3, <1>4, <1>5 DEF OutsideInv

\* What is written to a socket that is not ended.
LEMMA SentFacts ==
  ASSUME OutsideInv, ~ended, NEW frame \in {"data", "ping", "pong", "close"}
  PROVE  /\ Append(sent, frame) \in Seq({"data", "ping", "pong", "close"})
         /\ \A i \in 1..Len(sent) : sent[i] # "close"
         /\ \A i \in 1..(Len(Append(sent, frame)) - 1) : Append(sent, frame)[i] # "close"
         /\ frame # "close" => \A i \in DOMAIN Append(sent, frame) : Append(sent, frame)[i] # "close"
<1>1. sent \in Seq({"data", "ping", "pong", "close"}) BY DEF OutsideInv, ClosingOK
<1>2. \A i \in 1..Len(sent) : sent[i] # "close" BY <1>1 DEF OutsideInv, EndedByClose
<1> QED BY <1>1, <1>2, AppendProperties

\* drop() leaves the connection closed.
LEMMA DropStep ==
  ASSUME OutsideInv, NEW skipCloseFrame \in BOOLEAN, Drop(skipCloseFrame),
         UNCHANGED <<keepalive, inputPaused>>, ticks \in Nat, ticks' \in Nat, ticks' <= ticks,
         skipCloseFrame => ticks = 0
  PROVE  OutsideInv' /\ ~connected'
<1> DEFINE due == ~skipCloseFrame /\ state \in {"open", "peer_requested_close"}
<1>1. /\ sent' = IF due /\ ~ended THEN Append(sent, "close") ELSE sent
      /\ ended' = (ended \/ due)
      /\ closeReasonCode' \in {"ours", "abnormal"}
      /\ reported' \in {reported, closeReasonCode'}
      /\ connected' = FALSE /\ state' = "closed" /\ closeTimer' = FALSE /\ watch' = "off"
      /\ socket' \in {"closed", "closing"} /\ (socket = "closed" => socket' = "closed")
  BY DEF Drop, EmitClose, DestroySocket
<1>2. due \in BOOLEAN /\ ended \in BOOLEAN /\ inputPaused \in BOOLEAN
  BY DEF OutsideInv, FlagsOK
<1>3. FlagsOK' BY <1>1, <1>2 DEF FlagsOK
<1>4. WatchOK' BY <1>1 DEF OutsideInv, WatchOK
<1>5. ClosingOK' /\ EndedByClose' /\ CloseIsLast'
  <2>1. CASE due /\ ~ended
    BY <1>1, <2>1, SentFacts DEF OutsideInv, ClosingOK, EndedByClose, CloseIsLast, States, Codes
  <2>2. CASE ~(due /\ ~ended)
    BY <1>1, <2>2 DEF OutsideInv, ClosingOK, EndedByClose, CloseIsLast, States, Codes
  <2> QED BY <2>1, <2>2
<1>6. OpenIsConnected'
  <2>1. ASSUME ticks' > 0 PROVE ended'
    <3>1. ~skipCloseFrame /\ (connected \/ ended)
      BY <2>1 DEF OutsideInv, OpenIsConnected
    <3>2. connected => due BY <3>1 DEF OutsideInv, OpenIsConnected
    <3> QED BY <1>1, <3>1, <3>2, Zenon
  <2> QED BY <1>1, <2>1 DEF OpenIsConnected
<1> QED BY <1>1, <1>3, <1>4, <1>5, <1>6 DEF OutsideInv

\* handleSocketError does too.
LEMMA ErrorStep ==
  ASSUME OutsideInv, HandleSocketError, ticks' = 0 \/ ended,
         UNCHANGED <<keepalive, inputPaused, closeTimer, reported, sent, ended>>,
         watch' = watch \/ (watch = "keepalive" /\ socket # "closed"
                             /\ watch' = IF keepalive = "drop" THEN "grace" ELSE "keepalive")
  PROVE  OutsideInv' /\ ~connected'
<1>1. /\ closeReasonCode' = "abnormal" /\ connected' = FALSE /\ state' = "closed"
      /\ socket' = IF socket = "closed" THEN "closed" ELSE "closing"
  BY DEF HandleSocketError, DestroySocket
<1>2. FlagsOK' BY <1>1 DEF OutsideInv, FlagsOK
<1>3. WatchOK' BY <1>1 DEF OutsideInv, WatchOK
<1>4. ClosingOK' BY <1>1 DEF OutsideInv, ClosingOK, States, Codes
<1>5. EndedByClose' /\ CloseIsLast' BY DEF OutsideInv, EndedByClose, CloseIsLast
<1>6. OpenIsConnected' BY <1>1 DEF OutsideInv, OpenIsConnected
<1> QED BY <1>1, <1>2, <1>3, <1>4, <1>5, <1>6 DEF OutsideInv

-----------------------------------------------------------------------------
\* A new connection.
LEMMA InitState == Init => StateInv
<1> SUFFICES ASSUME Init PROVE StateInv OBVIOUS
<1>1. Len(script) \in Nat BY ScriptFacts DEF Init
<1>2. handled = 0 BY DEF Init, handled
<1>3. CountsOK BY <1>1, <1>2 DEF Init, CountsOK
<1>4. FlagsOK BY DEF Init, FlagsOK
<1>5. QueuesOK BY DEF Init, QueuesOK
<1>6. ClosingOK BY DEF Init, ClosingOK, States, Codes
<1>7. WatchOK BY DEF Init, WatchOK
<1>8. CallsCounted /\ RejectedIsTaken BY DEF Init, CallsCounted, RejectedIsTaken
<1>9. EndedByClose /\ CloseIsLast /\ OpenIsConnected
  BY DEF Init, EndedByClose, CloseIsLast, OpenIsConnected
<1> QED BY <1>3, <1>4, <1>5, <1>6, <1>7, <1>8, <1>9 DEF StateInv

\* The steps that take frames from the list.
LEMMA DataState ==
  ASSUME StateInv, Data
  PROVE  StateInv' /\ handled' = handled
<1>1. PICK n \in 1..(Len(script) - got) :
        got' = got + n /\ UNCHANGED inputPaused /\ ProcessReceivedData(1, buffered + n, immediates)
  BY DEF Data
<1>2. UNCHANGED <<keepalive, script, frameQueue, fragmentationSize, delivered, state, connected,
                      closing, sent, ended, socket>>
      /\ SetKeepaliveTimer /\ socket = "open"
  BY DEF Data
<1>3. Len(script) \in Nat /\ got \in Nat BY ScriptFacts DEF StateInv, CountsOK
<1>4. n \in Nat /\ got + n <= Len(script) BY <1>1, <1>3
<1>5. /\ CountsOK' /\ CallsCounted' /\ RejectedIsTaken' /\ handled' = handled
      /\ ~connected => ticks' = ticks
  BY <1>1, <1>2, <1>4, TakesStep
<1>6. inputPaused' \in BOOLEAN BY <1>1 DEF StateInv, FlagsOK
<1>7. OutsideInv' BY <1>2, <1>5, <1>6, InsideStep, StateParts
<1>8. QueuesOK' BY <1>2 DEF StateInv, QueuesOK
<1> QED BY <1>5, <1>7, <1>8, StateParts DEF StateInv, OutsideInv

\* The queued calls of processReceivedData, run in a row, take frames and process none.
LEMMA ImmediatesState ==
  ASSUME StateInv, Immediates
  PROVE  StateInv' /\ handled' = handled
<1>1. /\ UNCHANGED <<got, inputPaused>> /\ immediates > 0
      /\ ProcessReceivedData(immediates, buffered, 0)
      /\ socket' = IF socket = "ended" THEN "closing" ELSE socket
      /\ UNCHANGED <<watching, script, frameQueue, fragmentationSize, delivered, state, connected,
                     closing, sent, ended>>
  BY DEF Immediates
<1>2. /\ Len(script) \in Nat /\ got \in Nat /\ got <= Len(script) /\ buffered \in Nat
      /\ immediates \in Nat \ {0}
  BY <1>1, ScriptFacts DEF StateInv, CountsOK
<1>3. got' = got + 0 /\ got' <= Len(script) /\ buffered = buffered + 0 BY <1>1, <1>2
<1>4. ProcessReceivedData(immediates, buffered + 0, 0) BY <1>1, <1>3
<1>5. /\ CountsOK' /\ CallsCounted' /\ RejectedIsTaken' /\ handled' = handled
      /\ ~connected => ticks' = ticks
  BY <1>1, <1>2, <1>3, <1>4, TakesStep
<1>6. FlagsOK' /\ ClosingOK' /\ EndedByClose' /\ CloseIsLast'
  BY <1>1 DEF StateInv, FlagsOK, ClosingOK, EndedByClose, CloseIsLast, closing
<1>7. WatchOK' BY <1>1 DEF StateInv, WatchOK, watching
<1>8. OpenIsConnected' BY <1>1, <1>5 DEF StateInv, OpenIsConnected, closing
<1>9. QueuesOK' BY <1>1 DEF StateInv, QueuesOK
<1> QED BY <1>5, <1>6, <1>7, <1>8, <1>9 DEF StateInv

\* resume() takes a frame at once, if one waits, and processes none.
LEMMA AppResumesState ==
  ASSUME StateInv, AppResumes
  PROVE  StateInv' /\ handled' = handled
<1>1. /\ inputPaused' = FALSE /\ UNCHANGED got
      /\ ProcessReceivedData(1, buffered, immediates)
      /\ UNCHANGED <<watching, script, frameQueue, fragmentationSize, delivered, state, connected,
                     closing, sent, ended, socket>>
  BY DEF AppResumes
<1>2. /\ Len(script) \in Nat /\ got \in Nat /\ got <= Len(script) /\ buffered \in Nat
  BY <1>1, ScriptFacts DEF StateInv, CountsOK
<1>3. got' = got + 0 /\ got' <= Len(script) /\ buffered = buffered + 0 BY <1>1, <1>2
<1>4. ProcessReceivedData(1, buffered + 0, immediates) BY <1>1, <1>3
<1>5. /\ CountsOK' /\ CallsCounted' /\ RejectedIsTaken' /\ handled' = handled
      /\ ~connected => ticks' = ticks
  BY <1>1, <1>2, <1>3, <1>4, TakesStep
<1>7. OutsideInv' BY <1>1, <1>5, InsideStep, StateParts DEF watching
<1>8. QueuesOK' BY <1>1 DEF StateInv, QueuesOK
<1> QED BY <1>5, <1>7, <1>8 DEF StateInv, OutsideInv

\* The frame that processFrame is called for.
LEMMA FrameFacts ==
  ASSUME StateInv, ProcessFrame
  PROVE  /\ UNCHANGED <<keepalive, script, got, buffered, immediates, inputPaused>>
         /\ handled \in Nat /\ handled' = handled + 1 /\ handled + 1 \in 1..got
         /\ ticks \in Nat \ {0} /\ ticks' = ticks - 1 /\ ticks' \in Nat
         /\ Len(script) \in Nat /\ got <= Len(script) /\ handled + 1 \in 1..Len(script)
         /\ script[handled + 1] \in Kinds
<1>1. /\ UNCHANGED <<keepalive, script, got, buffered, immediates, inputPaused>>
      /\ ticks > 0 /\ ticks' = ticks - 1
  BY DEF ProcessFrame
<1>2. /\ Len(script) \in Nat /\ got \in 0..Len(script) /\ buffered \in Nat
      /\ handled \in Nat /\ ticks \in Nat
  BY ScriptFacts DEF StateInv, CountsOK
<1>3. handled + 1 \in 1..got /\ handled' = handled + 1 BY <1>1, <1>2 DEF handled
<1>4. handled + 1 \in 1..Len(script) BY <1>2, <1>3
<1>5. script[handled + 1] \in Kinds BY <1>4, ScriptFacts DEF StateInv, CountsOK
<1> QED BY <1>1, <1>2, <1>3, <1>4, <1>5

\* One frame more is handled, and it is not one that was rejected or the
\* connection is dropped.
LEMMA FrameCounts ==
  ASSUME StateInv, ProcessFrame, connected' => connected,
         script[handled + 1] = "bad" => ~connected'
  PROVE  CountsOK' /\ CallsCounted' /\ RejectedIsTaken'
<1>1. CountsOK' BY FrameFacts DEF StateInv, CountsOK
<1>2. CallsCounted' BY FrameFacts DEF StateInv, CallsCounted
<1>3. RejectedIsTaken'
  <2> SUFFICES ASSUME connected', ~inputPaused', immediates' = 0, buffered' > 0
               PROVE  \E i \in (handled' + 1)..(handled' + ticks') : script'[i] = "bad"
    BY DEF RejectedIsTaken
  <2>1. PICK i \in (handled + 1)..(handled + ticks) : script[i] = "bad"
    BY FrameFacts DEF StateInv, RejectedIsTaken
  <2>2. i # handled + 1 BY <2>1
  <2>3. i \in (handled' + 1)..(handled' + ticks') BY <2>1, <2>2, FrameFacts
  <2> QED BY <2>1, <2>3, FrameFacts
<1> QED BY <1>1, <1>2, <1>3

\* processFrame, by what it does with the frame.
FrameDrops ==
  Illegal(script[handled + 1]) /\ Drop(FALSE) /\ UNCHANGED delivered
FrameEmits ==
  /\ ~Illegal(script[handled + 1])
  /\ \/ /\ script[handled + 1] = "text"
        /\ delivered' = Append(delivered, <<handled + 1>>)
        /\ UNCHANGED <<frameQueue, fragmentationSize>>
     \/ /\ script[handled + 1] = "last"
        /\ delivered' = Append(delivered, Joined(Append(frameQueue, handled + 1), fragmentationSize + 1))
        /\ frameQueue' = <<>>
        /\ fragmentationSize' = 0
  /\ UNCHANGED <<watch, state, connected, closing, sent, ended, socket>>
FrameQueues ==
  /\ script[handled + 1] \in {"first", "more"}
  /\ ~Illegal(script[handled + 1])
  /\ frameQueue' = Append(frameQueue, handled + 1)
  /\ fragmentationSize' = IF script[handled + 1] = "first" THEN 1 ELSE fragmentationSize + 1
  /\ UNCHANGED <<watch, delivered, state, connected, closing, sent, ended, socket>>
FramePong ==
  /\ script[handled + 1] = "pong"
  /\ UNCHANGED <<watch, frameQueue, fragmentationSize, delivered, state, connected, closing,
                 sent, ended, socket>>
FramePing ==
  /\ script[handled + 1] = "ping"
  /\ IF ended THEN HandleSocketError /\ UNCHANGED sent
     ELSE sent' = Append(sent, "pong") /\ UNCHANGED <<fragmentationSize, closeReasonCode, connected, state, socket>>
  /\ UNCHANGED <<watch, frameQueue, delivered, closeTimer, reported, ended>>
FrameClose ==
  /\ script[handled + 1] \in {"close", "bare"}
  /\ ended' = TRUE
  /\ \/ /\ closeTimer
        /\ state' = "closed"
        /\ closeTimer' = FALSE
        /\ UNCHANGED <<fragmentationSize, connected, closeReasonCode, sent, socket>>
     \/ /\ ~closeTimer /\ ended
        /\ HandleSocketError
        /\ UNCHANGED <<sent, closeTimer>>
     \/ /\ ~closeTimer /\ ~ended
        /\ connected' = FALSE
        /\ state' = "peer_requested_close"
        /\ closeReasonCode' = IF script[handled + 1] = "bare" THEN "unset" ELSE "peer"
        /\ sent' = Append(sent, "close")
        /\ UNCHANGED <<fragmentationSize, socket, closeTimer>>
  /\ UNCHANGED <<watch, frameQueue, delivered, reported>>

\* processFrame does one of six things with the oldest frame taken.
LEMMA FrameCases ==
  ASSUME ProcessFrame
  PROVE  FrameDrops \/ FrameEmits \/ FrameQueues \/ FramePong \/ FramePing \/ FrameClose
BY Zenon DEF ProcessFrame, FrameDrops, FrameEmits, FrameQueues, FramePong, FramePing, FrameClose

\* A close frame ends the connection: it is answered, unless ours has gone out before.
LEMMA FrameCloseState ==
  ASSUME StateInv, ProcessFrame, FrameClose
  PROVE  OutsideInv' /\ ~connected'
<1>1. /\ ended' = TRUE /\ UNCHANGED <<keepalive, inputPaused, watch, reported>>
      /\ ticks \in Nat \ {0} /\ ticks' \in Nat
  BY FrameFacts DEF FrameClose
<1>2. OutsideInv BY StateParts
<1>3. CASE closeTimer /\ state' = "closed" /\ closeTimer' = FALSE
           /\ UNCHANGED <<connected, closeReasonCode, sent, socket>>
  <2>1. ~connected BY <1>3 DEF StateInv, OpenIsConnected
  <2>2. FlagsOK' BY <1>1, <1>2, <1>3 DEF OutsideInv, FlagsOK
  <2>3. ClosingOK' /\ WatchOK' BY <1>1, <1>2, <1>3 DEF OutsideInv, ClosingOK, WatchOK, States
  <2>4. EndedByClose' /\ CloseIsLast'
    BY <1>1, <1>2, <1>3 DEF OutsideInv, EndedByClose, CloseIsLast
  <2>5. OpenIsConnected' BY <1>1, <1>3, <2>1 DEF OpenIsConnected
  <2> QED BY <1>3, <2>1, <2>2, <2>3, <2>4, <2>5 DEF OutsideInv
<1>4. CASE ~closeTimer /\ ended /\ HandleSocketError /\ UNCHANGED <<sent, closeTimer>>
  <2>1. UNCHANGED ended BY <1>1, <1>4 DEF OutsideInv
  <2> QED BY <1>1, <1>2, <1>4, <2>1, ErrorStep
<1>5. CASE /\ ~closeTimer /\ ~ended
           /\ connected' = FALSE
           /\ state' = "peer_requested_close"
           /\ closeReasonCode' = IF script[handled + 1] = "bare" THEN "unset" ELSE "peer"
           /\ sent' = Append(sent, "close")
           /\ UNCHANGED <<socket, closeTimer>>
  <2>2. FlagsOK' BY <1>1, <1>2, <1>5 DEF OutsideInv, FlagsOK
  <2>3. ClosingOK' /\ WatchOK'
    BY <1>1, <1>2, <1>5, SentFacts DEF OutsideInv, ClosingOK, WatchOK, States, Codes
  <2>4. EndedByClose' /\ CloseIsLast'
    BY <1>1, <1>2, <1>5, SentFacts DEF OutsideInv, EndedByClose, CloseIsLast
  <2>5. OpenIsConnected' BY <1>1, <1>5 DEF OpenIsConnected
  <2> QED BY <1>5, <2>2, <2>3, <2>4, <2>5 DEF OutsideInv
<1> QED BY <1>3, <1>4, <1>5 DEF FrameClose

\* A frame that breaks the protocol ends the connection.
LEMMA FrameDropsState ==
  ASSUME StateInv, ProcessFrame, FrameDrops
  PROVE  OutsideInv' /\ QueuesOK' /\ ~connected'
<1>1. Drop(FALSE) /\ UNCHANGED delivered BY DEF FrameDrops
<1>2. QueuesOK' BY <1>1, FrameFacts DEF Drop, StateInv, QueuesOK
<1>3. /\ UNCHANGED <<keepalive, inputPaused>>
      /\ ticks \in Nat /\ ticks' \in Nat /\ ticks' <= ticks
  BY FrameFacts
<1> QED BY <1>1, <1>2, <1>3, StateParts, DropStep

\* What is joined are frames of the script, the first ones of those that waited.
LEMMA JoinedType ==
  ASSUME NEW S, NEW s \in Seq(S), NEW n \in 0..Len(s)
  PROVE  /\ Joined(s, n) \in Seq(S) /\ Len(Joined(s, n)) = n
         /\ \A a \in 1..n : Joined(s, n)[a] = s[a]
<1>1. Len(s) \in Nat /\ \A a \in 1..Len(s) : s[a] \in S BY LenProperties, ElementOfSeq
<1>2. n \in Int /\ 1 \in Int /\ \A a \in 1..n : s[a] \in S BY <1>1
<1>3. /\ SubSeq(s, 1, n) \in Seq(S)
      /\ Len(SubSeq(s, 1, n)) = IF 1 <= n THEN n - 1 + 1 ELSE 0
      /\ \A a \in 1..(n - 1 + 1) : SubSeq(s, 1, n)[a] = s[1 + a - 1]
  BY <1>2, SubSeqProperties
<1> QED BY <1>1, <1>3 DEF Joined

\* A data frame or a pong leaves the connection as it is.
LEMMA FrameInsideState ==
  ASSUME StateInv, SizeFits, ProcessFrame, FrameEmits \/ FrameQueues \/ FramePong
  PROVE  OutsideInv' /\ QueuesOK' /\ connected' = connected /\ script[handled + 1] # "bad"
<1>1. UNCHANGED <<watch, state, connected, closing, sent, ended, socket>>
      /\ script[handled + 1] # "bad"
  BY DEF FrameEmits, FrameQueues, FramePong
<1>2. /\ UNCHANGED <<keepalive, inputPaused, script>> /\ (ticks' > 0 => ticks > 0)
      /\ handled + 1 \in 1..Len(script)
  BY FrameFacts
<1>3. inputPaused' \in BOOLEAN BY <1>2 DEF StateInv, FlagsOK
<1>4. OutsideInv' BY <1>1, <1>2, <1>3, StateParts, InsideStep
<1>5. Append(frameQueue, handled + 1) \in Seq(1..Len(script)) /\ <<>> \in Seq(1..Len(script))
  BY <1>2, AppendProperties DEF StateInv, QueuesOK
<1>6. QueuesOK'
  <2>1. script' = script /\ delivered \in Seq(Seq(1..Len(script))) /\ frameQueue \in Seq(1..Len(script))
    BY <1>2 DEF StateInv, QueuesOK
  <2>5. fragmentationSize \in 0..MaxMessage BY DEF StateInv, QueuesOK
  <2>2. CASE FrameEmits
    <3>1. PICK part \in Seq(1..Len(script)) : delivered' = Append(delivered, part)
      <4>1. CASE delivered' = Append(delivered, <<handled + 1>>)
        <5>1. <<handled + 1>> \in Seq(1..Len(script)) BY <1>2
        <5> QED BY <4>1, <5>1
      <4>2. CASE delivered' = Append(delivered, Joined(Append(frameQueue, handled + 1), fragmentationSize + 1))
        <5>1. Len(Append(frameQueue, handled + 1)) = Len(frameQueue) + 1 BY <2>1
        <5>2. fragmentationSize + 1 \in 0..Len(Append(frameQueue, handled + 1))
          BY <2>1, <2>5, <5>1 DEF SizeFits
        <5> QED BY <1>5, <4>2, <5>2, JoinedType
      <4> QED BY <2>2, <4>1, <4>2 DEF FrameEmits
    <3>2. delivered' \in Seq(Seq(1..Len(script))) BY <2>1, <3>1, AppendProperties
    <3>3. frameQueue' \in {frameQueue, <<>>} /\ fragmentationSize' \in {fragmentationSize, 0}
      BY <2>2 DEF FrameEmits
    <3>4. fragmentationSize' \in 0..MaxMessage BY <2>5, <3>3
    <3>5. frameQueue' \in Seq(1..Len(script)) BY <1>5, <2>1, <3>3
    <3> QED BY <2>1, <3>2, <3>4, <3>5 DEF QueuesOK
  <2>3. CASE FrameQueues
    <3>1. script[handled + 1] = "first" \/ fragmentationSize + 1 <= MaxMessage
      BY <2>3, <2>5 DEF FrameQueues, Illegal
    <3>2. fragmentationSize' \in 0..MaxMessage BY <2>3, <2>5, <3>1 DEF FrameQueues
    <3>3. frameQueue' = Append(frameQueue, handled + 1) /\ delivered' = delivered
      BY <2>3 DEF FrameQueues
    <3> QED BY <1>5, <2>1, <3>2, <3>3 DEF QueuesOK
  <2>4. CASE FramePong BY <2>1, <2>4, <2>5 DEF FramePong, QueuesOK
  <2> QED BY <2>2, <2>3, <2>4
<1> QED BY <1>1, <1>4, <1>6

\* A ping is answered, and an answer that cannot be written is an error.
LEMMA FramePingState ==
  ASSUME StateInv, ProcessFrame, FramePing
  PROVE  OutsideInv' /\ QueuesOK' /\ (connected' => connected) /\ script[handled + 1] # "bad"
<1>1. /\ UNCHANGED <<keepalive, inputPaused, script, watch, frameQueue, delivered, closeTimer, reported, ended>>
      /\ script[handled + 1] # "bad" /\ ticks \in Nat \ {0} /\ ticks' \in Nat
  BY FrameFacts DEF FramePing
<1>2. OutsideInv BY StateParts
<1>3. QueuesOK'
  <2>1. fragmentationSize' \in {fragmentationSize, 0} BY DEF FramePing, HandleSocketError
  <2> QED BY <1>1, <2>1, QueuesStay DEF StateInv
<1>4. CASE ended /\ HandleSocketError /\ UNCHANGED sent
  BY <1>1, <1>2, <1>3, <1>4, ErrorStep
<1>5. CASE /\ ~ended /\ sent' = Append(sent, "pong")
           /\ UNCHANGED <<closeReasonCode, connected, state, socket>>
  <2>1. FlagsOK' BY <1>1, <1>2, <1>5 DEF OutsideInv, FlagsOK
  <2>2. ClosingOK' /\ WatchOK'
    BY <1>1, <1>2, <1>5, SentFacts DEF OutsideInv, ClosingOK, WatchOK
  <2>3. EndedByClose' /\ CloseIsLast'
    BY <1>1, <1>2, <1>5, SentFacts DEF OutsideInv, EndedByClose, CloseIsLast
  <2>4. OpenIsConnected' BY <1>1, <1>2, <1>5 DEF OutsideInv, OpenIsConnected
  <2> QED BY <1>1, <1>3, <1>5, <2>1, <2>2, <2>3, <2>4 DEF OutsideInv
<1> QED BY <1>4, <1>5 DEF FramePing

\* Whatever the oldest frame is, the state around it stays consistent.
LEMMA ProcessFrameState ==
  ASSUME StateInv, SizeFits, ProcessFrame
  PROVE  StateInv'
<1>1. /\ OutsideInv' /\ QueuesOK' /\ (connected' => connected)
      /\ script[handled + 1] = "bad" => ~connected'
  <2>1. CASE FrameDrops BY <2>1, FrameDropsState
  <2>2. CASE FrameEmits \/ FrameQueues \/ FramePong BY <2>2, FrameInsideState
  <2>3. CASE FramePing BY <2>3, FramePingState
  <2>4. CASE FrameClose
    <3>1. QueuesOK'
      <4>1. fragmentationSize' \in {fragmentationSize, 0} BY <2>4 DEF FrameClose, HandleSocketError
      <4> QED BY <2>4, <4>1, FrameFacts, QueuesStay DEF FrameClose, StateInv
    <3>2. script[handled + 1] # "bad" BY <2>4 DEF FrameClose
    <3> QED BY <2>4, <3>1, <3>2, FrameCloseState
  <2> QED BY <2>1, <2>2, <2>3, <2>4, FrameCases
<1> QED BY <1>1, FrameCounts DEF StateInv, OutsideInv

-----------------------------------------------------------------------------
\* The socket, the timers and the application.
LEMMA SocketEndsState ==
  ASSUME StateInv, SocketEnds
  PROVE  StateInv'
<1>1. /\ socket = "open" /\ ended' = TRUE /\ socket' = "ended"
      /\ UNCHANGED <<watching, receiving, fragmentationSize, state, connected, inputPaused, closing, sent>>
  BY DEF SocketEnds
<1>2. CountsOK' /\ CallsCounted' /\ RejectedIsTaken' BY <1>1, QuietStep DEF receiving
<1>3. QueuesOK' /\ FlagsOK' BY <1>1 DEF StateInv, QueuesOK, FlagsOK, receiving, closing
<1>4. ClosingOK' BY <1>1 DEF StateInv, ClosingOK, closing
<1>5. WatchOK' BY <1>1 DEF StateInv, WatchOK, watching
<1>6. EndedByClose' /\ CloseIsLast' BY <1>1 DEF StateInv, EndedByClose, CloseIsLast
<1>7. OpenIsConnected' BY <1>1 DEF StateInv, OpenIsConnected, closing
<1> QED BY <1>2, <1>3, <1>4, <1>5, <1>6, <1>7 DEF StateInv

\* The socket's 'close' stops the timers and is told once.
LEMMA SocketClosesState ==
  ASSUME StateInv, SocketCloses
  PROVE  StateInv'
<1>1. /\ ticks = 0 /\ socket' = "closed" /\ connected' = FALSE /\ state' = "closed"
      /\ closeTimer' = FALSE /\ watch' = "off"
      /\ closeReasonCode' = IF closeReasonCode = "unset" THEN "abnormal" ELSE closeReasonCode
      /\ reported' \in {reported, closeReasonCode'}
      /\ UNCHANGED <<keepalive, receiving, fragmentationSize, inputPaused, sent, ended>>
  BY DEF SocketCloses, LoopIdle, EmitClose
<1>2. CountsOK' /\ CallsCounted' /\ RejectedIsTaken' BY <1>1, QuietStep DEF receiving
<1>3. QueuesOK' /\ FlagsOK' BY <1>1 DEF StateInv, QueuesOK, FlagsOK, receiving
<1>4. ClosingOK' BY <1>1 DEF StateInv, ClosingOK, States, Codes
<1>5. WatchOK' BY <1>1 DEF StateInv, WatchOK
<1>6. EndedByClose' /\ CloseIsLast' BY <1>1 DEF StateInv, EndedByClose, CloseIsLast
<1>7. OpenIsConnected' BY <1>1 DEF OpenIsConnected, receiving
<1> QED BY <1>2, <1>3, <1>4, <1>5, <1>6, <1>7 DEF StateInv

\* An error ends the connection and destroys its socket.
LEMMA SocketFailsState ==
  ASSUME StateInv, SocketFails
  PROVE  StateInv'
<1>1. /\ ticks = 0 /\ HandleSocketError
      /\ UNCHANGED <<watching, receiving, inputPaused, closeTimer, reported, sent, ended>>
  BY DEF SocketFails, LoopIdle
<1>2. OutsideInv' /\ ~connected' BY <1>1, StateParts, ErrorStep DEF watching, receiving
<1>3. CountsOK' /\ CallsCounted' /\ RejectedIsTaken' BY <1>1, <1>2, QuietStep DEF receiving
<1>4. QueuesOK' BY <1>1, QueuesStay DEF StateInv, HandleSocketError, receiving
<1> QED BY <1>2, <1>3, <1>4 DEF StateInv, OutsideInv

\* The close timer finds our side of the stream ended already.
LEMMA CloseTimerFiresState ==
  ASSUME StateInv, CloseTimerFires
  PROVE  StateInv'
<1>1. /\ ticks = 0 /\ closeTimer /\ closeTimer' = FALSE /\ state' = "closed" /\ ended' = TRUE
      /\ UNCHANGED <<watching, receiving, fragmentationSize, connected, inputPaused, closeReasonCode,
                     reported, sent, socket>>
  BY DEF CloseTimerFires, LoopIdle
<1>2. CountsOK' /\ CallsCounted' /\ RejectedIsTaken' BY <1>1, QuietStep DEF receiving
<1>3. QueuesOK' /\ FlagsOK' BY <1>1 DEF StateInv, QueuesOK, FlagsOK, receiving
<1>4. ClosingOK' BY <1>1 DEF StateInv, ClosingOK, States
<1>5. WatchOK' BY <1>1 DEF StateInv, WatchOK, watching
<1>6. EndedByClose' /\ CloseIsLast' BY <1>1 DEF StateInv, EndedByClose, CloseIsLast
<1>7. OpenIsConnected' BY <1>1 DEF StateInv, OpenIsConnected
<1> QED BY <1>2, <1>3, <1>4, <1>5, <1>6, <1>7 DEF StateInv

\* The keepalive timer sends a ping, which is an error once our side has ended.
LEMMA KeepaliveTimerFiresState ==
  ASSUME StateInv, KeepaliveTimerFires
  PROVE  StateInv'
<1>1. /\ ticks = 0 /\ watch = "keepalive"
      /\ watch' = IF keepalive = "drop" THEN "grace" ELSE "keepalive"
      /\ UNCHANGED <<keepalive, receiving, inputPaused, closeTimer, reported, ended>>
  BY DEF KeepaliveTimerFires, LoopIdle
<1>2. OutsideInv /\ socket # "closed" /\ keepalive # "off" /\ ticks' = 0
  BY <1>1, StateParts DEF OutsideInv, WatchOK, receiving
<1>3. QueuesOK'
  <2>1. fragmentationSize' \in {fragmentationSize, 0} BY DEF KeepaliveTimerFires, HandleSocketError
  <2> QED BY <1>1, <2>1, QueuesStay DEF StateInv, receiving
<1>4. OutsideInv' /\ (connected' => connected)
  <2>1. CASE HandleSocketError /\ UNCHANGED sent
    BY <1>1, <1>2, <2>1, ErrorStep
  <2>2. CASE /\ ~ended /\ sent' = Pinged
             /\ UNCHANGED <<closeReasonCode, connected, state, socket>>
    <3>1. sent' = sent \/ sent' = Append(sent, "ping") BY <2>2 DEF Pinged
    <3>2. FlagsOK' BY <1>1, <1>2, <2>2 DEF OutsideInv, FlagsOK
    <3>3. ClosingOK' BY <1>1, <1>2, <2>2, <3>1, SentFacts DEF OutsideInv, ClosingOK
    <3>4. WatchOK' BY <1>1, <1>2, <2>2 DEF OutsideInv, WatchOK
    <3>5. EndedByClose' /\ CloseIsLast'
      BY <1>1, <1>2, <2>2, <3>1, SentFacts DEF OutsideInv, EndedByClose, CloseIsLast
    <3>6. OpenIsConnected' BY <1>1, <1>2, <2>2 DEF OutsideInv, OpenIsConnected
    <3> QED BY <2>2, <3>2, <3>3, <3>4, <3>5, <3>6 DEF OutsideInv
  <2> QED BY <2>1, <2>2 DEF KeepaliveTimerFires
<1>5. CountsOK' /\ CallsCounted' /\ RejectedIsTaken' BY <1>1, <1>4, QuietStep DEF receiving
<1> QED BY <1>3, <1>4, <1>5 DEF StateInv, OutsideInv

\* The grace period ends with a drop() that sends nothing.
LEMMA GracePeriodTimerFiresState ==
  ASSUME StateInv, GracePeriodTimerFires
  PROVE  StateInv'
<1>1. /\ ticks = 0 /\ Drop(TRUE)
      /\ UNCHANGED <<keepalive, script, got, buffered, immediates, ticks, delivered, inputPaused>>
  BY DEF GracePeriodTimerFires, LoopIdle
<1>2. OutsideInv' /\ ~connected'
  <2>1. UNCHANGED <<keepalive, inputPaused>> /\ ticks \in Nat /\ ticks' \in Nat /\ ticks' <= ticks
    BY <1>1
  <2>2. \A skip \in BOOLEAN : Drop(skip) => OutsideInv' /\ ~connected'
    BY <1>1, <2>1, StateParts, DropStep
  <2> QED BY <1>1, <2>2
<1>3. CountsOK' /\ CallsCounted' /\ RejectedIsTaken' BY <1>1, <1>2, QuietStep
<1>4. QueuesOK' BY <1>1 DEF StateInv, QueuesOK, Drop
<1> QED BY <1>2, <1>3, <1>4 DEF StateInv, OutsideInv

\* drop() by the application sends a close frame only if none has gone out.
LEMMA AppDropsState ==
  ASSUME StateInv, AppDrops
  PROVE  StateInv'
<1>1. /\ Drop(FALSE)
      /\ UNCHANGED <<keepalive, script, got, buffered, immediates, ticks, delivered, inputPaused>>
  BY DEF AppDrops
<1>2. UNCHANGED <<keepalive, inputPaused>> /\ ticks \in Nat /\ ticks' \in Nat /\ ticks' <= ticks
  BY <1>1, ScriptFacts DEF StateInv, CountsOK
<1>3. OutsideInv' /\ ~connected' BY <1>1, <1>2, StateParts, DropStep
<1>4. CountsOK' /\ CallsCounted' /\ RejectedIsTaken' BY <1>1, <1>3, QuietStep
<1>5. QueuesOK' BY <1>1 DEF StateInv, QueuesOK, Drop
<1> QED BY <1>3, <1>4, <1>5 DEF StateInv, OutsideInv

\* The application's close() sends the last frame there is.
LEMMA AppClosesState ==
  ASSUME StateInv, AppCloses
  PROVE  StateInv'
<1>1. /\ closeTimer' = TRUE /\ ended' = TRUE /\ state' = "ending" /\ connected' = FALSE
      /\ UNCHANGED <<watching, receiving, inputPaused, reported>>
  BY DEF AppCloses
<1>2. \/ /\ ended /\ closeReasonCode' = "abnormal" /\ UNCHANGED sent
         /\ socket' = IF socket = "closed" THEN "closed" ELSE "closing"
      \/ ~ended /\ closeReasonCode' = "ours" /\ sent' = Append(sent, "close") /\ UNCHANGED socket
  BY DEF AppCloses, DestroySocket
<1>3. CountsOK' /\ CallsCounted' /\ RejectedIsTaken' BY <1>1, QuietStep DEF receiving
<1>4. QueuesOK' /\ FlagsOK'
  <2>1. fragmentationSize' \in {fragmentationSize, 0} BY DEF AppCloses
  <2>2. FlagsOK' BY <1>1 DEF StateInv, FlagsOK
  <2> QED BY <1>1, <2>1, <2>2, QueuesStay DEF StateInv, receiving
<1>5. ClosingOK' BY <1>1, <1>2, SentFacts, StateParts DEF OutsideInv, ClosingOK, States, Codes
<1>6. WatchOK' BY <1>1, <1>2 DEF StateInv, WatchOK, watching
<1>7. EndedByClose' /\ CloseIsLast'
  BY <1>1, <1>2, SentFacts, StateParts DEF OutsideInv, EndedByClose, CloseIsLast
<1>8. OpenIsConnected' BY <1>1 DEF OpenIsConnected
<1> QED BY <1>3, <1>4, <1>5, <1>6, <1>7, <1>8 DEF StateInv

\* What the application sends goes out before a close frame, or not at all.
LEMMA AppSendsState ==
  ASSUME StateInv, AppSends
  PROVE  StateInv'
<1>1. UNCHANGED <<watching, receiving, inputPaused, closeTimer, reported, ended>> BY DEF AppSends
<1>2. OutsideInv BY StateParts
<1>3. QueuesOK'
  <2>1. fragmentationSize' \in {fragmentationSize, 0} BY DEF AppSends, HandleSocketError
  <2> QED BY <1>1, <2>1, QueuesStay DEF StateInv, receiving
<1>4. OutsideInv' /\ (connected' => connected)
  <2>1. CASE ended /\ HandleSocketError /\ UNCHANGED sent
    BY <1>1, <1>2, <2>1, ErrorStep DEF watching
  <2>2. CASE /\ ~ended /\ sent' = Append(sent, "data")
             /\ UNCHANGED <<closeReasonCode, connected, state, socket>>
    <3>1. FlagsOK' BY <1>1, <1>2, <2>2 DEF OutsideInv, FlagsOK
    <3>2. ClosingOK' BY <1>1, <1>2, <2>2, SentFacts DEF OutsideInv, ClosingOK
    <3>3. WatchOK' BY <1>1, <1>2, <2>2 DEF OutsideInv, WatchOK, watching
    <3>4. EndedByClose' /\ CloseIsLast'
      BY <1>1, <1>2, <2>2, SentFacts DEF OutsideInv, EndedByClose, CloseIsLast
    <3>5. OpenIsConnected' BY <1>1, <1>2, <2>2 DEF OutsideInv, OpenIsConnected, receiving
    <3> QED BY <2>2, <3>1, <3>2, <3>3, <3>4, <3>5 DEF OutsideInv
  <2> QED BY <2>1, <2>2 DEF AppSends
<1>5. CountsOK' /\ CallsCounted' /\ RejectedIsTaken' BY <1>1, <1>4, QuietStep DEF receiving
<1> QED BY <1>3, <1>4, <1>5 DEF StateInv, OutsideInv

\* A pause holds back what is not parsed yet.
LEMMA AppPausesState ==
  ASSUME StateInv, AppPauses
  PROVE  StateInv'
<1>1. /\ inputPaused' = TRUE
      /\ UNCHANGED <<watching, receiving, fragmentationSize, state, connected, closing, sent, ended, socket>>
  BY DEF AppPauses
<1>2. CountsOK' /\ CallsCounted' /\ RejectedIsTaken' BY <1>1, QuietStep DEF receiving
<1>3. OutsideInv' BY <1>1, StateParts, InsideStep DEF watching, receiving
<1>4. QueuesOK' BY <1>1 DEF StateInv, QueuesOK, receiving
<1> QED BY <1>2, <1>3, <1>4 DEF StateInv, OutsideInv

-----------------------------------------------------------------------------
\* The data frames up to the next frame.
LEMMA DataFramesFacts ==
  ASSUME NEW i \in Nat, NEW j \in Nat
  PROVE  /\ IsFiniteSet(DataFrames(i, j)) /\ Cardinality(DataFrames(i, j)) \in Nat
         /\ DataFrames(i, j) \subseteq i..j
         /\ i <= j + 1 /\ script[j + 1] \in {"text", "first", "more", "last"} =>
              /\ DataFrames(i, j + 1) = DataFrames(i, j) \cup {j + 1}
              /\ Cardinality(DataFrames(i, j + 1)) = Cardinality(DataFrames(i, j)) + 1
         /\ script[j + 1] \notin {"text", "first", "more", "last"} =>
              DataFrames(i, j + 1) = DataFrames(i, j)
<1>1. DataFrames(i, j) \subseteq i..j BY DEF DataFrames
<1>2. IsFiniteSet(i..j) BY FS_Interval, i \in Int, j \in Int
<1>3. IsFiniteSet(DataFrames(i, j)) /\ Cardinality(DataFrames(i, j)) \in Nat
  BY <1>1, <1>2, FS_Subset, FS_CardinalityType
<1>4. ASSUME i <= j + 1, script[j + 1] \in {"text", "first", "more", "last"}
      PROVE  /\ DataFrames(i, j + 1) = DataFrames(i, j) \cup {j + 1}
             /\ Cardinality(DataFrames(i, j + 1)) = Cardinality(DataFrames(i, j)) + 1
  <2>1. DataFrames(i, j + 1) = DataFrames(i, j) \cup {j + 1} BY <1>4 DEF DataFrames
  <2>2. j + 1 \notin DataFrames(i, j) BY <1>1
  <2> QED BY <1>3, <2>1, <2>2, FS_AddElement
<1>5. ASSUME script[j + 1] \notin {"text", "first", "more", "last"}
      PROVE  DataFrames(i, j + 1) = DataFrames(i, j)
  BY <1>5 DEF DataFrames
<1> QED BY <1>1, <1>3, <1>4, <1>5

\* A message ends with its last frame, and the next frame adds at most the
\* messages it ends.
Ending(n) == {DataFrames(i, n) : i \in {i \in 1..n : IsMessage(i, n)}}

\* One frame more ends at most the message that it belongs to.
LEMMA MessagesFacts ==
  ASSUME NEW n \in Nat
  PROVE  Messages(n + 1) = Messages(n) \cup Ending(n + 1)
<1>1. \A m \in Nat : \A S : S \in Messages(m) <=>
        \E i, j \in 1..m : IsMessage(i, j) /\ S = DataFrames(i, j)
  <2> SUFFICES ASSUME NEW m \in Nat, NEW S
               PROVE  S \in Messages(m) <=> \E i, j \in 1..m : IsMessage(i, j) /\ S = DataFrames(i, j)
    OBVIOUS
  <2>1. ASSUME S \in Messages(m) PROVE \E i, j \in 1..m : IsMessage(i, j) /\ S = DataFrames(i, j)
    BY <2>1 DEF Messages
  <2>2. ASSUME NEW i \in 1..m, NEW j \in 1..m, IsMessage(i, j), S = DataFrames(i, j)
        PROVE  S \in Messages(m)
    <3>1. <<i, j>> \in {ij \in (1..m) \X (1..m) : IsMessage(ij[1], ij[2])} BY <2>2
    <3> QED BY <2>2, <3>1 DEF Messages
  <2> QED BY <2>1, <2>2
<1>2. \A i \in 1..(n + 1), j \in 1..n : IsMessage(i, j) => i \in 1..n BY DEF IsMessage
<1>3. \A S : S \in Ending(n + 1) <=> \E i \in 1..(n + 1) : IsMessage(i, n + 1) /\ S = DataFrames(i, n + 1)
  BY DEF Ending
<1>4. ASSUME NEW S \in Messages(n + 1) PROVE S \in Messages(n) \cup Ending(n + 1)
  <2>1. PICK i \in 1..(n + 1), j \in 1..(n + 1) : IsMessage(i, j) /\ S = DataFrames(i, j)
    BY <1>1
  <2>2. CASE j = n + 1 BY <1>3, <2>1, <2>2
  <2>3. CASE j # n + 1
    <3>1. j \in 1..n /\ i \in 1..n BY <1>2, <2>1, <2>3
    <3> QED BY <1>1, <2>1, <3>1
  <2> QED BY <2>2, <2>3
<1>5. ASSUME NEW S \in Messages(n) PROVE S \in Messages(n + 1)
  <2>1. PICK i \in 1..n, j \in 1..n : IsMessage(i, j) /\ S = DataFrames(i, j) BY <1>1
  <2>2. i \in 1..(n + 1) /\ j \in 1..(n + 1) OBVIOUS
  <2> QED BY <1>1, <2>1, <2>2
<1>6. ASSUME NEW S \in Ending(n + 1) PROVE S \in Messages(n + 1)
  BY <1>1, <1>3, n + 1 \in 1..(n + 1)
<1> QED BY <1>4, <1>5, <1>6

\* Messages of fewer frames are messages of more.
LEMMA MessagesGrow ==
  ASSUME NEW m \in Nat, NEW n \in Nat, m <= n
  PROVE  Messages(m) \subseteq Messages(n)
<1>1. (1..m) \X (1..m) \subseteq (1..n) \X (1..n) BY 1..m \subseteq 1..n
<1> QED BY <1>1 DEF Messages

\* And so are beginnings of messages.
LEMMA BeginningsGrow ==
  ASSUME NEW m \in Nat, NEW n \in Nat, m <= n
  PROVE  Beginnings(m) \subseteq Beginnings(n)
<1>1. (1..m) \X (1..m) \subseteq (1..n) \X (1..n) BY 1..m \subseteq 1..n
<1> QED BY <1>1 DEF Beginnings

\* Only a whole message or the last fragment of one ends a message.
LEMMA EndingFacts ==
  ASSUME NEW n \in Nat \ {0}
  PROVE  /\ script[n] = "text" => Ending(n) = {{n}}
         /\ script[n] \notin {"text", "last"} => Ending(n) = {}
<1>1. ASSUME script[n] = "text" PROVE Ending(n) = {{n}}
  <2>1. IsMessage(n, n) /\ DataFrames(n, n) = {n} BY <1>1 DEF IsMessage, DataFrames
  <2>2. \A i \in 1..n : IsMessage(i, n) => i = n BY <1>1 DEF IsMessage
  <2>3. {i \in 1..n : IsMessage(i, n)} = {n} BY <2>1, <2>2
  <2>4. Ending(n) = {DataFrames(i, n) : i \in {n}} BY <2>3 DEF Ending
  <2> QED BY <2>1, <2>4
<1>2. ASSUME script[n] \notin {"text", "last"} PROVE Ending(n) = {}
  <2>1. \A i \in 1..n : ~IsMessage(i, n) BY <1>2 DEF IsMessage
  <2> QED BY <2>1 DEF Ending
<1> QED BY <1>1, <1>2

\* The script does not change.
LEMMA SameFrames ==
  ASSUME UNCHANGED script
  PROVE  /\ \A i, j : DataFrames(i, j)' = DataFrames(i, j)
         /\ \A n : Messages(n)' = Messages(n)
         /\ \A n : Beginnings(n)' = Beginnings(n)
<1>1. \A i, j : DataFrames(i, j)' = DataFrames(i, j) BY DEF DataFrames
<1>2. \A n : Messages(n)' = Messages(n) BY DEF Messages, IsMessage, DataFrames
<1>3. \A n : Beginnings(n)' = Beginnings(n) BY DEF Beginnings, IsBeginning, DataFrames
<1> QED BY <1>1, <1>2, <1>3

\* No fragment comes, and if one is lost or forgotten then with the connection.
FragmentsStay ==
  /\ frameQueue' = frameQueue
  /\ fragmentationSize' = fragmentationSize \/ (fragmentationSize' = 0 /\ ~connected')
FragmentsGo == frameQueue' = <<>> /\ fragmentationSize' = 0

\* A step that handles no frame.
LEMMA QuietMessages ==
  ASSUME MessageInv, UNCHANGED <<script, delivered>>, handled' = handled,
         FragmentsStay \/ FragmentsGo, ended => ended', connected' => connected,
         closeReasonCode' = "peer" \/ reported' = "peer" => closeReasonCode = "peer" \/ reported = "peer"
  PROVE  MessageInv'
<1>1. Emitted' = Emitted BY DEF Emitted
<1>2. HandledDelivered' /\ DeliveredInTurn'
  BY DEF MessageInv, HandledDelivered, DeliveredInTurn
<1>3. EmittedAre' BY <1>1, SameFrames DEF MessageInv, EmittedAre
<1>4. CleanClose' BY <1>1, SameFrames DEF MessageInv, CleanClose
<1>5. FragmentsFit'
  BY SameFrames DEF MessageInv, FragmentsFit, FragmentsStay, FragmentsGo
<1>6. SizeFits' BY DEF MessageInv, SizeFits, FragmentsStay, FragmentsGo
<1> QED BY <1>2, <1>3, <1>4, <1>5, <1>6 DEF MessageInv

\* A frame that completes no message: a control frame, or one that is illegal.
LEMMA OtherFrameMessages ==
  ASSUME StateInv, MessageInv, ProcessFrame, UNCHANGED delivered,
         FragmentsGo \/ FragmentsStay,
         frameQueue' # <<>> => script[handled + 1] \notin {"text", "first", "more", "last"},
         ended => ended',
         connected' => connected /\ script[handled + 1] \notin {"text", "last"},
         closeReasonCode' = "peer" \/ reported' = "peer" =>
           \/ closeReasonCode = "peer" \/ reported = "peer"
           \/ connected /\ script[handled + 1] = "close"
  PROVE  MessageInv'
<1>1. PICK h \in Nat : h = handled /\ handled' = h + 1 BY FrameFacts
<1>2. UNCHANGED script BY FrameFacts
<1>3. Emitted' = Emitted BY DEF Emitted
<1>4. \A n : Messages(n)' = Messages(n) BY <1>2, SameFrames
<1>5. Messages(h) \subseteq Messages(h + 1) BY MessagesGrow
<1>6. script[h + 1] \notin {"text", "last"} => Messages(h + 1) = Messages(h)
  BY MessagesFacts, EndingFacts, h + 1 \in Nat \ {0}
<1>7. HandledDelivered'
  <2> SUFFICES ASSUME NEW m \in DOMAIN delivered, NEW a \in DOMAIN delivered[m]
               PROVE  delivered[m][a] <= h + 1
    BY <1>1 DEF HandledDelivered
  <2>1. delivered[m] \in Seq(1..Len(script)) BY DEF StateInv, QueuesOK
  <2>2. delivered[m][a] \in 1..Len(script) BY <2>1, ElementOfSeq
  <2>3. delivered[m][a] <= h BY <1>1 DEF MessageInv, HandledDelivered
  <2> QED BY <2>2, <2>3, FrameFacts
<1>8. DeliveredInTurn' BY DEF MessageInv, DeliveredInTurn
<1>9. EmittedAre'
  <2>1. /\ Beginnings(h + 1)' = Beginnings(h + 1) /\ Messages(h + 1)' = Messages(h + 1)
        /\ Beginnings(h) \subseteq Beginnings(h + 1)
    BY <1>2, SameFrames, BeginningsGrow
  <2> QED BY <1>1, <1>3, <1>5, <1>6, <2>1 DEF MessageInv, EmittedAre
<1>12. SizeFits'
  <2>1. Len(frameQueue) \in Nat /\ Len(<<>>) = 0 BY DEF StateInv, QueuesOK
  <2> QED BY <2>1 DEF MessageInv, SizeFits, FragmentsStay, FragmentsGo
<1>10. CleanClose'
  <2> SUFFICES ASSUME closeReasonCode' = "peer" \/ reported' = "peer"
               PROVE  \E i \in 1..(h + 1) : script[i] = "close" /\ Messages(i) \subseteq Emitted
    BY <1>1, <1>2, <1>3, <1>4 DEF CleanClose
  <2>1. CASE closeReasonCode = "peer" \/ reported = "peer"
    BY <1>1, <2>1 DEF MessageInv, CleanClose
  <2>2. CASE connected /\ script[handled + 1] = "close"
    <3>1. Messages(h + 1) \subseteq Emitted BY <1>1, <1>6, <2>2 DEF MessageInv, EmittedAre
    <3> QED BY <1>1, <2>2, <3>1, h + 1 \in 1..(h + 1)
  <2> QED BY <2>1, <2>2
<1>11. FragmentsFit'
  <2> SUFFICES ASSUME frameQueue' # <<>> PROVE FragmentsFit' BY DEF FragmentsFit
  <2>1. /\ frameQueue' = frameQueue /\ frameQueue # <<>>
        /\ script[h + 1] \notin {"text", "first", "more", "last"}
    BY <1>1 DEF FragmentsStay, FragmentsGo
  <2>2. PICK f \in 1..h : f = frameQueue[1] BY <1>1, <2>1 DEF MessageInv, FragmentsFit
  <2>3. DataFrames(f, h + 1) = DataFrames(f, h) /\ DataFrames(f + 1, h + 1) = DataFrames(f + 1, h)
    BY <2>1, DataFramesFacts, f \in Nat, f + 1 \in Nat
  <2>4. f \in 1..(h + 1) OBVIOUS
  <2>5. \A i, j : DataFrames(i, j)' = DataFrames(i, j) BY <1>2, SameFrames
  <2> QED BY <1>1, <1>2, <2>1, <2>2, <2>3, <2>4, <2>5 DEF MessageInv, FragmentsFit
<1> QED BY <1>7, <1>8, <1>9, <1>10, <1>11, <1>12 DEF MessageInv

\* The elements of a sequence with one appended.
LEMMA ToSetAppend ==
  ASSUME NEW S, NEW s \in Seq(S), NEW e
  PROVE  ToSet(Append(s, e)) = ToSet(s) \cup {e}
<1>1. PICK l \in Nat : l = Len(s) OBVIOUS
<1>2. /\ DOMAIN s = 1..l /\ 1..(l + 1) = (1..l) \cup {l + 1}
      /\ DOMAIN Append(s, e) = 1..(l + 1)
      /\ Append(s, e)[l + 1] = e /\ \A a \in 1..l : Append(s, e)[a] = s[a]
  <2>1. s \in Seq(S \cup {e}) BY SeqMonotonic
  <2> QED BY <1>1, <2>1, AppendProperties
<1>3. ToSet(Append(s, e)) = {Append(s, e)[a] : a \in 1..(l + 1)} BY <1>2 DEF ToSet
<1>4. ToSet(s) = {s[a] : a \in 1..l} BY <1>2 DEF ToSet
<1> QED BY <1>2, <1>3, <1>4

\* A fragment that is queued.
LEMMA QueuedFrameMessages ==
  ASSUME StateInv, MessageInv, ProcessFrame, FrameQueues
  PROVE  MessageInv'
<1>1. PICK h \in Nat : h = handled /\ handled' = h + 1 BY FrameFacts
<1>2. /\ UNCHANGED script /\ frameQueue' = Append(frameQueue, h + 1)
      /\ script[h + 1] \in {"first", "more"} /\ ~Illegal(script[h + 1])
      /\ UNCHANGED <<delivered, connected, closeReasonCode, reported, ended>>
      /\ fragmentationSize' = IF script[h + 1] = "first" THEN 1 ELSE fragmentationSize + 1
  BY <1>1, FrameFacts DEF FrameQueues, closing
<1>3. Emitted' = Emitted BY <1>2 DEF Emitted
<1>4. \A n : Messages(n)' = Messages(n) BY <1>2, SameFrames
<1>6. Messages(h + 1) = Messages(h)
  BY <1>2, MessagesFacts, EndingFacts, h + 1 \in Nat \ {0}
<1>7. HandledDelivered' /\ \A m \in DOMAIN delivered : \A a \in DOMAIN delivered[m] : delivered[m][a] < h + 1
  <2> SUFFICES ASSUME NEW m \in DOMAIN delivered, NEW a \in DOMAIN delivered[m]
               PROVE  delivered[m][a] <= h + 1 /\ delivered[m][a] < h + 1
    BY <1>1, <1>2 DEF HandledDelivered
  <2>1. delivered[m] \in Seq(1..Len(script)) BY DEF StateInv, QueuesOK
  <2>2. delivered[m][a] \in 1..Len(script) BY <2>1, ElementOfSeq
  <2>3. delivered[m][a] <= h BY <1>1 DEF MessageInv, HandledDelivered
  <2> QED BY <2>2, <2>3, FrameFacts
<1>8. DeliveredInTurn' BY <1>2 DEF MessageInv, DeliveredInTurn
<1>9. EmittedAre'
  <2>1. Beginnings(h + 1)' = Beginnings(h + 1) /\ Beginnings(h) \subseteq Beginnings(h + 1)
    BY <1>2, SameFrames, BeginningsGrow
  <2> QED BY <1>1, <1>2, <1>3, <1>4, <1>6, <2>1 DEF MessageInv, EmittedAre
<1>10. CleanClose' BY <1>1, <1>2, <1>3, <1>4 DEF MessageInv, CleanClose
<1>12. SizeFits'
  <2>1. frameQueue \in Seq(1..Len(script)) /\ fragmentationSize \in Nat
    BY DEF StateInv, QueuesOK
  <2>2. Len(frameQueue) \in Nat /\ Len(frameQueue') = Len(frameQueue) + 1 BY <1>2, <2>1
  <2>3. CASE script[h + 1] = "first"
    <3>1. frameQueue = <<>> BY <1>2, <2>3 DEF Illegal
    <3>2. Len(frameQueue) = 0 BY <3>1
    <3>3. fragmentationSize' = 1 BY <1>2, <2>3
    <3> QED BY <2>2, <3>2, <3>3 DEF SizeFits
  <2>4. CASE script[h + 1] # "first"
    <3>1. fragmentationSize' = fragmentationSize + 1 BY <1>2, <2>4
    <3> QED BY <1>2, <2>1, <2>2, <3>1 DEF MessageInv, SizeFits
  <2> QED BY <2>3, <2>4
<1>11. FragmentsFit'
  <2>1. frameQueue \in Seq(1..Len(script)) /\ Len(script) \in Nat /\ h + 1 \in 1..Len(script)
    BY <1>1, FrameFacts DEF StateInv, QueuesOK
  <2>2. PICK l \in Nat : l = Len(frameQueue) BY <2>1
  <2>3. /\ Len(frameQueue') = l + 1 /\ frameQueue'[l + 1] = h + 1
        /\ \A a \in 1..l : frameQueue'[a] = frameQueue[a]
        /\ DOMAIN frameQueue' = 1..(l + 1) /\ frameQueue' \in Seq(1..Len(script))
    BY <1>2, <2>1, <2>2, AppendProperties
  <2>4. ToSet(frameQueue') = ToSet(frameQueue) \cup {h + 1} BY <1>2, <2>1, ToSetAppend
  <2>5. \A i, j : DataFrames(i, j)' = DataFrames(i, j) BY <1>2, SameFrames
  <2> DEFINE Fits(f) ==
        /\ f = frameQueue'[1] /\ f \in 1..(h + 1) /\ script[f] = "first"
        /\ ToSet(frameQueue') = DataFrames(f, h + 1)
        /\ \A k \in DataFrames(f + 1, h + 1) : script[k] = "more"
        /\ l + 1 = Cardinality(DataFrames(f, h + 1))
        /\ \A a, b \in 1..(l + 1) : a < b => frameQueue'[a] < frameQueue'[b]
        /\ \A m \in DOMAIN delivered : \A a \in DOMAIN delivered[m] : delivered[m][a] < f
  <2>8. (\E f : Fits(f)) => FragmentsFit'
    <3> SUFFICES ASSUME NEW f, Fits(f) PROVE FragmentsFit' OBVIOUS
    <3>1. handled' = h + 1 /\ script' = script /\ delivered' = delivered BY <1>1, <1>2
    <3> QED BY <2>3, <2>5, <3>1 DEF FragmentsFit
  <2>6. CASE frameQueue = <<>>
    <3>1. script[h + 1] = "first" BY <1>2, <2>6 DEF Illegal
    <3>2. l = 0 /\ frameQueue'[1] = h + 1 BY <2>2, <2>3, <2>6
    <3>3. DataFrames(h + 1, h + 1) = {h + 1} /\ DataFrames(h + 2, h + 1) = {}
      BY <3>1 DEF DataFrames
    <3>4. Cardinality(DataFrames(h + 1, h + 1)) = 1 BY <3>3, FS_Singleton
    <3>5. ToSet(frameQueue') = {h + 1} BY <2>4, <2>6 DEF ToSet
    <3>6. frameQueue'[1] + 1 = h + 2 BY <3>2
    <3>7. h + 1 \in 1..(h + 1) OBVIOUS
    <3>8. Fits(h + 1) BY <1>7, <3>1, <3>2, <3>3, <3>4, <3>5, <3>6, <3>7
    <3> QED BY <2>8, <3>8
  <2>7. CASE frameQueue # <<>>
    <3>1. script[h + 1] = "more" BY <1>2, <2>7 DEF Illegal
    <3>2. l >= 1 BY <2>1, <2>2, <2>7
    <3>3. PICK f \in 1..h : f = frameQueue[1] BY <1>1, <2>7 DEF MessageInv, FragmentsFit
    <3>4. frameQueue'[1] = f /\ frameQueue' # <<>> BY <2>3, <3>2, <3>3
    <3>5. /\ DataFrames(f, h + 1) = DataFrames(f, h) \cup {h + 1}
          /\ Cardinality(DataFrames(f, h + 1)) = Cardinality(DataFrames(f, h)) + 1
          /\ DataFrames(f + 1, h + 1) = DataFrames(f + 1, h) \cup {h + 1}
      BY <3>1, DataFramesFacts, f \in Nat, f + 1 \in Nat, f <= h + 1, f + 1 <= h + 1
    <3>6. /\ script[f] = "first" /\ ToSet(frameQueue) = DataFrames(f, h)
          /\ \A k \in DataFrames(f + 1, h) : script[k] = "more"
          /\ l = Cardinality(DataFrames(f, h))
          /\ \A a, b \in 1..l : a < b => frameQueue[a] < frameQueue[b]
          /\ \A m \in DOMAIN delivered : \A a \in DOMAIN delivered[m] : delivered[m][a] < f
      <4>1. DOMAIN frameQueue = 1..l BY <2>1, <2>2
      <4> QED BY <1>1, <2>2, <2>7, <3>3, <4>1 DEF MessageInv, FragmentsFit
    <3>7. \A a \in 1..l : frameQueue[a] \in DataFrames(f, h)
      <4>1. DOMAIN frameQueue = 1..l BY <2>1, <2>2
      <4> QED BY <3>6, <4>1 DEF ToSet
    <3>8. DataFrames(f, h) \subseteq f..h BY DataFramesFacts
    <3>9. \A a, b \in 1..(l + 1) : a < b => frameQueue'[a] < frameQueue'[b]
      <4> SUFFICES ASSUME NEW a \in 1..(l + 1), NEW b \in 1..(l + 1), a < b
                   PROVE  frameQueue'[a] < frameQueue'[b]
        OBVIOUS
      <4>1. a \in 1..l /\ frameQueue'[a] = frameQueue[a] BY <2>3
      <4>2. CASE b = l + 1
        <5>1. frameQueue[a] \in f..h BY <3>7, <3>8, <4>1
        <5> QED BY <2>3, <4>1, <4>2, <5>1
      <4>3. CASE b # l + 1
        <5>1. b \in 1..l /\ frameQueue'[b] = frameQueue[b] BY <2>3, <4>3
        <5> QED BY <3>6, <4>1, <5>1
      <4> QED BY <4>2, <4>3
    <3>10. f \in 1..(h + 1) OBVIOUS
    <3>11. \A k \in DataFrames(f + 1, h + 1) : script[k] = "more" BY <3>1, <3>5, <3>6
    <3>12. Fits(f) BY <2>2, <2>4, <3>1, <3>4, <3>5, <3>6, <3>9, <3>10, <3>11
    <3> QED BY <2>8, <3>12
  <2> QED BY <2>6, <2>7
<1> QED BY <1>7, <1>8, <1>9, <1>10, <1>11, <1>12 DEF MessageInv

\* The fragments a last one completes are the only message that ends there.
LEMMA LastEnding ==
  ASSUME NEW h \in Nat, NEW f \in 1..h, script[f] = "first", script[h + 1] = "last",
         \A k \in DataFrames(f + 1, h) : script[k] = "more",
         Cardinality(DataFrames(f, h)) < MaxMessage
  PROVE  Ending(h + 1) = {DataFrames(f, h) \cup {h + 1}}
<1>1. /\ DataFrames(f, h + 1) = DataFrames(f, h) \cup {h + 1}
      /\ Cardinality(DataFrames(f, h + 1)) = Cardinality(DataFrames(f, h)) + 1
      /\ Cardinality(DataFrames(f, h)) \in Nat
  BY DataFramesFacts, f \in Nat, f <= h + 1
<1>2. IsMessage(f, h + 1)
  <2>1. h + 1 - 1 = h /\ f < h + 1 OBVIOUS
  <2>2. Cardinality(DataFrames(f, h + 1)) <= MaxMessage BY <1>1
  <2> QED BY <2>1, <2>2 DEF IsMessage
<1>3. ASSUME NEW i \in 1..(h + 1), IsMessage(i, h + 1) PROVE i = f
  <2>1. /\ i < h + 1 /\ script[i] = "first"
        /\ \A k \in DataFrames(i + 1, h) : script[k] = "more"
    <3>1. h + 1 - 1 = h OBVIOUS
    <3> QED BY <1>3, <3>1 DEF IsMessage
  <2>2. ~(i < f)
    <3>1. ASSUME i < f PROVE f \in DataFrames(i + 1, h) BY <3>1 DEF DataFrames
    <3> QED BY <2>1, <3>1
  <2>3. ~(f < i)
    <3>1. ASSUME f < i PROVE i \in DataFrames(f + 1, h) BY <2>1, <3>1 DEF DataFrames
    <3> QED BY <2>1, <3>1
  <2> QED BY <2>2, <2>3
<1>4. {i \in 1..(h + 1) : IsMessage(i, h + 1)} = {f} BY <1>2, <1>3, f \in 1..(h + 1)
<1>5. Ending(h + 1) = {DataFrames(i, h + 1) : i \in {f}} BY <1>4 DEF Ending
<1> QED BY <1>1, <1>5

\* What is emitted of the fragments that wait: all of them, or their beginning.
LEMMA EmittedPart ==
  ASSUME StateInv, MessageInv, ProcessFrame, FrameEmits
  PROVE  \E p \in 1..(Len(frameQueue) + 1), part \in Seq(1..Len(script)) :
           /\ delivered' = Append(delivered, part)
           /\ Len(part) = p /\ \A a \in 1..p : part[a] = Append(frameQueue, handled + 1)[a]
           /\ p <= MaxMessage
           /\ p # Len(frameQueue) + 1 =>
                frameQueue # <<>> /\ script[handled + 1] = "last" /\ ~connected /\ ended
<1>1. PICK h \in 1..Len(script) : h = handled + 1 BY FrameFacts
<1>2. PICK l \in Nat : l = Len(frameQueue) /\ frameQueue \in Seq(1..Len(script))
  BY DEF StateInv, QueuesOK
<1>3. PICK size \in Nat : size = fragmentationSize /\ size <= l /\ (connected => size = l)
  BY <1>2 DEF StateInv, QueuesOK, MessageInv, SizeFits
<1>4. /\ Append(frameQueue, h) \in Seq(1..Len(script)) /\ Len(Append(frameQueue, h)) = l + 1
  BY <1>1, <1>2, AppendProperties
<1>5. CASE script[h] = "text" /\ delivered' = Append(delivered, <<h>>) /\ ~Illegal(script[h])
  <2>1. frameQueue = <<>> /\ l = 0 BY <1>2, <1>5 DEF Illegal
  <2>2. 1 \in 1..(Len(frameQueue) + 1) /\ 1 = Len(frameQueue) + 1 /\ 1 <= MaxMessage
    BY <1>2, <2>1
  <2>3. Len(<<h>>) = 1 /\ <<h>> \in Seq(1..Len(script)) OBVIOUS
  <2>4. \A a \in 1..1 : <<h>>[a] = Append(frameQueue, h)[a] BY <2>1
  <2> WITNESS 1 \in 1..(Len(frameQueue) + 1)
  <2> WITNESS <<h>> \in Seq(1..Len(script))
  <2> QED BY <1>1, <1>5, <2>2, <2>3, <2>4
<1>6. CASE /\ script[h] = "last" /\ ~Illegal(script[h])
           /\ delivered' = Append(delivered, Joined(Append(frameQueue, h), size + 1))
  <2>1. frameQueue # <<>> /\ size < MaxMessage BY <1>3, <1>6 DEF Illegal
  <2>2. size + 1 \in 0..Len(Append(frameQueue, h)) BY <1>3, <1>4
  <2>3. /\ Joined(Append(frameQueue, h), size + 1) \in Seq(1..Len(script))
        /\ Len(Joined(Append(frameQueue, h), size + 1)) = size + 1
        /\ \A a \in 1..(size + 1) : Joined(Append(frameQueue, h), size + 1)[a] = Append(frameQueue, h)[a]
    BY <1>4, <2>2, JoinedType
  <2>4. size # l => ~connected /\ ended BY <1>3, FrameFacts DEF StateInv, OpenIsConnected
  <2>5. size + 1 \in 1..(l + 1) /\ size + 1 <= MaxMessage BY <1>3, <2>1
  <2>6. size + 1 # l + 1 => size # l OBVIOUS
  <2> QED BY <1>1, <1>2, <1>6, <2>1, <2>3, <2>4, <2>5, <2>6
<1> QED BY <1>1, <1>3, <1>5, <1>6 DEF FrameEmits

\* The first fragments of those that wait are the beginning of a message.
LEMMA PartIsBeginning ==
  ASSUME StateInv, MessageInv, NEW h \in Nat, h = handled, frameQueue # <<>>,
         NEW p \in 1..Len(frameQueue), p <= MaxMessage,
         NEW part \in Seq(1..Len(script)), Len(part) = p,
         \A a \in 1..p : part[a] = frameQueue[a]
  PROVE  ToSet(part) \in Beginnings(h)
<1>1. PICK l \in Nat : l = Len(frameQueue) /\ DOMAIN frameQueue = 1..l
  BY DEF StateInv, QueuesOK
<1>2. PICK f \in 1..h : f = frameQueue[1] BY DEF MessageInv, FragmentsFit
<1>3. /\ script[f] = "first" /\ ToSet(frameQueue) = DataFrames(f, h)
      /\ \A k \in DataFrames(f + 1, h) : script[k] = "more"
      /\ \A a, b \in 1..l : a < b => frameQueue[a] < frameQueue[b]
  BY <1>1, <1>2 DEF MessageInv, FragmentsFit
<1>4. PICK e : e = frameQueue[p] OBVIOUS
<1>5. /\ \A a \in 1..l : frameQueue[a] \in DataFrames(f, h)
      /\ \A k \in DataFrames(f, h) : \E a \in 1..l : k = frameQueue[a]
  BY <1>1, <1>3 DEF ToSet
<1>6. DataFrames(f, h) \subseteq f..h BY DataFramesFacts, f \in Nat
<1>7. e \in f..h /\ p \in 1..l BY <1>1, <1>4, <1>5, <1>6
<1>8. DataFrames(f, e) = {k \in DataFrames(f, h) : k <= e} BY <1>7 DEF DataFrames
<1>9. DOMAIN part = 1..p /\ ToSet(part) = {part[a] : a \in 1..p} BY DEF ToSet
<1>10. ToSet(part) = DataFrames(f, e)
  <2>1. ASSUME NEW a \in 1..p PROVE part[a] \in DataFrames(f, e)
    <3>1. a \in 1..l /\ part[a] = frameQueue[a] BY <1>1
    <3>2. frameQueue[a] <= e
      <4>1. CASE a = p BY <1>4, <1>7, <4>1
      <4>2. CASE a # p
        <5>1. a < p BY <4>2
        <5>2. frameQueue[a] < e BY <1>3, <1>4, <1>7, <3>1, <5>1
        <5>3. frameQueue[a] \in f..h BY <1>5, <1>6, <3>1
        <5> QED BY <1>7, <5>2, <5>3
      <4> QED BY <4>1, <4>2
    <3> QED BY <1>5, <1>8, <3>1, <3>2
  <2>2. ASSUME NEW k \in DataFrames(f, e) PROVE \E a \in 1..p : k = part[a]
    <3>1. k \in DataFrames(f, h) /\ k <= e BY <1>8
    <3>2. PICK a \in 1..l : k = frameQueue[a] BY <1>5, <3>1
    <3>3. a <= p
      <4>1. ASSUME p < a PROVE FALSE
        <5>1. e < k BY <1>3, <1>4, <1>7, <3>2, <4>1
        <5>2. k \in f..h BY <1>6, <3>1
        <5> QED BY <1>7, <3>1, <5>1, <5>2
      <4> QED BY <4>1
    <3>4. a \in 1..p BY <3>3
    <3> QED BY <3>2, <3>4
  <2> QED BY <1>9, <2>1, <2>2
<1>11. Cardinality(ToSet(part)) <= MaxMessage
  <2>1. part \in Surjection(1..p, ToSet(part))
    BY <1>9 DEF Surjection
  <2>2. IsFiniteSet(1..p) /\ Cardinality(1..p) = p BY FS_Interval, 1 \in Int, p \in Int
  <2>3. Cardinality(ToSet(part)) <= p /\ IsFiniteSet(ToSet(part)) BY <2>1, <2>2, FS_Surjection
  <2> QED BY <2>3, FS_CardinalityType
<1>12. IsBeginning(f, e)
  <2>1. DataFrames(f + 1, e) \subseteq DataFrames(f + 1, h) BY <1>7 DEF DataFrames
  <2> QED BY <1>3, <1>10, <1>11, <2>1 DEF IsBeginning
<1>13. <<f, e>> \in {ij \in (1..h) \X (1..h) : ij[1] <= ij[2] /\ IsBeginning(ij[1], ij[2])}
  BY <1>7, <1>12
<1> QED BY <1>10, <1>13 DEF Beginnings

\* A frame that completes a message.
LEMMA EmittedFrameMessages ==
  ASSUME StateInv, MessageInv, ProcessFrame, FrameEmits
  PROVE  MessageInv'
<1>1. PICK h \in Nat : h = handled /\ handled' = h + 1 BY FrameFacts
<1>2. /\ UNCHANGED script /\ frameQueue' = <<>> /\ fragmentationSize' = 0
      /\ script[h + 1] \in {"text", "last"} /\ ~Illegal(script[h + 1])
      /\ UNCHANGED <<connected, closeReasonCode, reported, ended>>
  <2>1. /\ UNCHANGED script
        /\ script[h + 1] \in {"text", "last"} /\ ~Illegal(script[h + 1])
        /\ UNCHANGED <<connected, closeReasonCode, reported, ended>>
    BY <1>1, FrameFacts DEF FrameEmits, closing
  <2>2. CASE script[h + 1] = "text" /\ UNCHANGED <<frameQueue, fragmentationSize>>
    <3>1. frameQueue = <<>> BY <2>1, <2>2 DEF Illegal
    <3>2. fragmentationSize = 0
      <4>1. fragmentationSize \in Nat /\ Len(<<>>) = 0 BY DEF StateInv, QueuesOK
      <4> QED BY <3>1, <4>1 DEF MessageInv, SizeFits
    <3> QED BY <2>1, <2>2, <3>1, <3>2
  <2> QED BY <1>1, <2>1, <2>2 DEF FrameEmits
<1>3. \A n : Messages(n)' = Messages(n) /\ Beginnings(n)' = Beginnings(n) BY <1>2, SameFrames
<1>4. /\ frameQueue \in Seq(1..Len(script)) /\ delivered \in Seq(Seq(1..Len(script)))
      /\ Len(script) \in Nat /\ h + 1 \in 1..Len(script)
  BY <1>1, FrameFacts DEF StateInv, QueuesOK
<1>15. PICK l \in Nat : l = Len(frameQueue) BY <1>4
<1> DEFINE message == Append(frameQueue, h + 1)
<1>16. /\ DOMAIN frameQueue = 1..l /\ DOMAIN message = 1..(l + 1) /\ message[l + 1] = h + 1
       /\ \A a \in 1..l : message[a] = frameQueue[a]
  BY <1>4, <1>15, AppendProperties
<1>22. ToSet(message) = ToSet(frameQueue) \cup {h + 1} BY <1>4, ToSetAppend
<1>5. PICK p \in 1..(l + 1), part \in Seq(1..Len(script)) :
        /\ delivered' = Append(delivered, part)
        /\ Len(part) = p /\ \A a \in 1..p : part[a] = message[a]
        /\ p <= MaxMessage
        /\ p # l + 1 => frameQueue # <<>> /\ script[h + 1] = "last" /\ ~connected /\ ended
  BY <1>1, <1>15, EmittedPart
<1> HIDE DEF message
<1>6. Emitted' = Emitted \cup {ToSet(part)}
  <2>1. ToSet(delivered') = ToSet(delivered) \cup {part} BY <1>4, <1>5, ToSetAppend
  <2> QED BY <2>1 DEF Emitted
<1>7. Ending(h + 1) = {ToSet(message)} \/ (script[h + 1] = "last" /\ p # l + 1)
  <2>1. CASE script[h + 1] = "text"
    <3>1. frameQueue = <<>> BY <1>2, <2>1 DEF Illegal
    <3>2. ToSet(frameQueue) = {} BY <3>1 DEF ToSet
    <3> QED BY <1>22, <2>1, <3>2, EndingFacts, h + 1 \in Nat \ {0}
  <2>2. CASE script[h + 1] = "last" /\ p = l + 1
    <3>1. frameQueue # <<>> /\ l < MaxMessage BY <1>2, <1>5, <2>2 DEF Illegal
    <3>2. PICK f \in 1..h : f = frameQueue[1] BY <1>1, <3>1 DEF MessageInv, FragmentsFit
    <3>3. /\ script[f] = "first" /\ ToSet(frameQueue) = DataFrames(f, h)
          /\ \A k \in DataFrames(f + 1, h) : script[k] = "more"
          /\ Cardinality(DataFrames(f, h)) < MaxMessage
      BY <1>1, <1>15, <3>1, <3>2 DEF MessageInv, FragmentsFit
    <3>4. Ending(h + 1) = {DataFrames(f, h) \cup {h + 1}} BY <2>2, <3>3, LastEnding
    <3> QED BY <1>22, <3>3, <3>4
  <2> QED BY <1>2, <2>1, <2>2
<1>8. p = l + 1 => Messages(h + 1) = Messages(h) \cup {ToSet(part)}
  <2> SUFFICES ASSUME p = l + 1 PROVE Messages(h + 1) = Messages(h) \cup {ToSet(part)}
    OBVIOUS
  <2>1. DOMAIN part = DOMAIN message /\ \A a \in DOMAIN part : part[a] = message[a]
    BY <1>5, <1>16
  <2>2. ToSet(part) = ToSet(message) BY <2>1 DEF ToSet
  <2> QED BY <1>7, <2>2, MessagesFacts
<1>9. EmittedAre'
  <2>1. Messages(h) \subseteq Messages(h + 1) /\ Beginnings(h) \subseteq Beginnings(h + 1)
    BY MessagesGrow, BeginningsGrow
  <2>2. CASE p = l + 1
    <3>1. Messages(h + 1) = Messages(h) \cup {ToSet(part)} BY <1>8, <2>2
    <3> QED BY <1>1, <1>2, <1>3, <1>6, <2>1, <3>1 DEF MessageInv, EmittedAre
  <2>3. CASE p # l + 1
    <3>1. p \in 1..Len(frameQueue) /\ \A a \in 1..p : part[a] = frameQueue[a]
      <4>1. p \in 1..l /\ \A a \in 1..p : a \in 1..l BY <2>3
      <4> QED BY <1>5, <1>15, <1>16, <4>1
    <3>2. ToSet(part) \in Beginnings(h) BY <1>1, <1>5, <2>3, <3>1, PartIsBeginning
    <3> QED BY <1>1, <1>2, <1>3, <1>5, <1>6, <2>1, <2>3, <3>2 DEF MessageInv, EmittedAre
  <2> QED BY <2>2, <2>3
<1>10. CleanClose' BY <1>1, <1>2, <1>3, <1>6 DEF MessageInv, CleanClose
<1>11. FragmentsFit' /\ SizeFits'
  <2>1. Len(<<>>) = 0 OBVIOUS
  <2> QED BY <1>2, <2>1 DEF FragmentsFit, SizeFits
<1>12. PICK d \in Nat : d = Len(delivered) BY <1>4
<1>13. /\ DOMAIN delivered = 1..d /\ DOMAIN delivered' = 1..(d + 1)
       /\ delivered'[d + 1] = part /\ \A m \in 1..d : delivered'[m] = delivered[m]
       /\ DOMAIN part = 1..p
  BY <1>4, <1>5, <1>12, AppendProperties
<1>14. \A m \in 1..d : \A a \in DOMAIN delivered[m] : delivered[m][a] \in 1..h
  <2> SUFFICES ASSUME NEW m \in 1..d, NEW a \in DOMAIN delivered[m] PROVE delivered[m][a] \in 1..h
    OBVIOUS
  <2>1. delivered[m] \in Seq(1..Len(script)) BY <1>4, <1>12
  <2>2. delivered[m][a] \in 1..Len(script) BY <2>1, ElementOfSeq
  <2>3. delivered[m][a] <= h BY <1>1, <1>13 DEF MessageInv, HandledDelivered
  <2> QED BY <1>4, <2>2, <2>3
<1>17. /\ \A a \in 1..l : frameQueue[a] \in 1..h
       /\ \A a, b \in 1..l : a < b => frameQueue[a] < frameQueue[b]
       /\ \A m \in 1..d : \A a \in DOMAIN delivered[m] : \A b \in 1..l : delivered[m][a] < frameQueue[b]
  <2>1. CASE frameQueue = <<>>
    <3>1. 1..l = {} BY <1>15, <2>1
    <3> QED BY <3>1
  <2>2. CASE frameQueue # <<>>
    <3>1. PICK f \in 1..h : f = frameQueue[1] BY <1>1, <2>2 DEF MessageInv, FragmentsFit
    <3>2. /\ ToSet(frameQueue) = DataFrames(f, h)
          /\ \A a, b \in 1..l : a < b => frameQueue[a] < frameQueue[b]
          /\ \A m \in 1..d : \A a \in DOMAIN delivered[m] : delivered[m][a] < f
      BY <1>1, <1>13, <1>16, <2>2, <3>1 DEF MessageInv, FragmentsFit
    <3>3. DataFrames(f, h) \subseteq f..h BY DataFramesFacts, f \in Nat
    <3>4. \A a \in 1..l : frameQueue[a] \in f..h BY <1>16, <3>2, <3>3 DEF ToSet
    <3>5. ASSUME NEW m \in 1..d, NEW a \in DOMAIN delivered[m], NEW b \in 1..l
          PROVE  delivered[m][a] < frameQueue[b]
      BY <1>14, <3>2, <3>4
    <3> QED BY <3>2, <3>4, <3>5
  <2> QED BY <2>1, <2>2
<1>18. /\ \A a \in 1..(l + 1) : message[a] \in 1..(h + 1)
       /\ \A a, b \in 1..(l + 1) : a < b => message[a] < message[b]
       /\ \A m \in 1..d : \A a \in DOMAIN delivered[m] : \A b \in 1..(l + 1) : delivered[m][a] < message[b]
  <2>1. \A a \in 1..(l + 1) : a \in 1..l \/ a = l + 1 OBVIOUS
  <2>2. \A a \in 1..(l + 1) : message[a] \in 1..(h + 1) BY <1>16, <1>17, <2>1
  <2>3. ASSUME NEW a \in 1..(l + 1), NEW b \in 1..(l + 1), a < b PROVE message[a] < message[b]
    <3>1. a \in 1..l /\ message[a] = frameQueue[a] /\ frameQueue[a] \in 1..h BY <1>16, <1>17, <2>3
    <3>2. CASE b = l + 1 BY <1>16, <3>1, <3>2
    <3>3. CASE b \in 1..l BY <1>16, <1>17, <2>3, <3>1, <3>3
    <3> QED BY <2>1, <3>2, <3>3
  <2>4. ASSUME NEW m \in 1..d, NEW a \in DOMAIN delivered[m], NEW b \in 1..(l + 1)
        PROVE  delivered[m][a] < message[b]
    <3>1. delivered[m][a] \in 1..h BY <1>14
    <3>2. CASE b = l + 1 BY <1>16, <3>1, <3>2
    <3>3. CASE b \in 1..l BY <1>16, <1>17, <3>3
    <3> QED BY <2>1, <3>2, <3>3
  <2> QED BY <2>2, <2>3, <2>4
<1>21. /\ \A a \in 1..p : part[a] \in 1..(h + 1)
       /\ \A a, b \in 1..p : a < b => part[a] < part[b]
       /\ \A m \in 1..d : \A a \in DOMAIN delivered[m] : \A b \in 1..p : delivered[m][a] < part[b]
  <2>1. 1..p \subseteq 1..(l + 1) /\ \A a \in 1..p : part[a] = message[a] BY <1>5
  <2> QED BY <1>18, <2>1
<1>19. HandledDelivered'
  <2> SUFFICES ASSUME NEW m \in 1..(d + 1), NEW a \in DOMAIN delivered'[m]
               PROVE  delivered'[m][a] <= h + 1
    BY <1>1, <1>13 DEF HandledDelivered
  <2>1. CASE m = d + 1 BY <1>13, <1>21, <2>1
  <2>2. CASE m \in 1..d
    <3>1. delivered'[m] = delivered[m] BY <1>13, <2>2
    <3>2. delivered[m][a] \in 1..h BY <1>14, <2>2, <3>1
    <3> QED BY <3>1, <3>2
  <2> QED BY <2>1, <2>2
<1>20. DeliveredInTurn'
  <2> SUFFICES ASSUME NEW m \in 1..(d + 1), NEW n \in 1..(d + 1),
                      NEW a \in DOMAIN delivered'[m], NEW b \in DOMAIN delivered'[n],
                      m < n \/ (m = n /\ a < b)
               PROVE  delivered'[m][a] < delivered'[n][b]
    BY <1>13 DEF DeliveredInTurn
  <2>1. CASE m = d + 1
    <3>1. n = d + 1 /\ a < b BY <2>1
    <3>2. delivered'[m] = part /\ delivered'[n] = part BY <1>13, <2>1, <3>1
    <3> QED BY <1>13, <1>21, <3>1, <3>2
  <2>2. CASE m \in 1..d /\ n = d + 1
    <3>1. delivered'[m] = delivered[m] /\ delivered'[n] = part BY <1>13, <2>2
    <3> QED BY <1>13, <1>21, <2>2, <3>1
  <2>3. CASE m \in 1..d /\ n \in 1..d
    <3>1. delivered'[m] = delivered[m] /\ delivered'[n] = delivered[n] BY <1>13, <2>3
    <3> QED BY <1>13, <2>3, <3>1 DEF MessageInv, DeliveredInTurn
  <2> QED BY <2>1, <2>2, <2>3
<1> QED BY <1>9, <1>10, <1>11, <1>19, <1>20 DEF MessageInv

\* A frame that is processed joins the fragments of its own message only.
LEMMA ProcessFrameMessages ==
  ASSUME StateInv, MessageInv, ProcessFrame
  PROVE  MessageInv'
<1>1. CASE FrameDrops
  <2>1. /\ frameQueue' = <<>> /\ FragmentsGo /\ connected' = FALSE /\ UNCHANGED delivered
        /\ closeReasonCode' \in {"ours", "abnormal"} /\ reported' \in {reported, closeReasonCode'}
        /\ ended => ended'
    BY <1>1 DEF FrameDrops, Drop, EmitClose, FragmentsGo
  <2> QED BY <2>1, OtherFrameMessages
<1>2. CASE FrameEmits BY <1>2, EmittedFrameMessages
<1>3. CASE FrameQueues BY <1>3, QueuedFrameMessages
<1>4. CASE FramePong \/ FramePing
  <2>1. /\ FragmentsStay /\ UNCHANGED <<delivered, reported, ended>>
        /\ script[handled + 1] \in {"ping", "pong"}
        /\ closeReasonCode' \in {closeReasonCode, "abnormal"}
    BY <1>4 DEF FramePong, FramePing, HandleSocketError, FragmentsStay, closing
  <2>2. connected' => connected BY <1>4, FrameInsideState, FramePingState DEF MessageInv
  <2> QED BY <2>1, <2>2, OtherFrameMessages
<1>5. CASE FrameClose
  <2>1. /\ frameQueue' = frameQueue /\ UNCHANGED <<delivered, reported>>
        /\ script[handled + 1] \in {"close", "bare"} /\ ended'
        /\ fragmentationSize' \in {fragmentationSize, 0}
    BY <1>5 DEF FrameClose, HandleSocketError
  <2>2. ~connected' BY <1>5, FrameCloseState
  <2>3. \/ closeReasonCode' \in {closeReasonCode, "abnormal", "unset"}
        \/ ~ended /\ script[handled + 1] = "close"
    BY <1>5, <2>1 DEF FrameClose, HandleSocketError
  <2>4. ~ended => connected BY FrameFacts DEF StateInv, OpenIsConnected
  <2>5. FragmentsStay BY <2>1, <2>2 DEF FragmentsStay
  <2> QED BY <2>1, <2>2, <2>3, <2>4, <2>5, OtherFrameMessages
<1> QED BY <1>1, <1>2, <1>3, <1>4, <1>5, FrameCases

\* Every other step handles no frame, and none of them takes over the code of
\* a close frame.
LEMMA OtherStepsQuiet ==
  ASSUME StateInv, Next \/ UNCHANGED vars, ~ProcessFrame
  PROVE  /\ UNCHANGED <<script, delivered>> /\ handled' = handled
         /\ FragmentsStay \/ FragmentsGo
         /\ ended => ended'
         /\ connected' => connected
         /\ closeReasonCode' = "peer" \/ reported' = "peer" =>
              closeReasonCode = "peer" \/ reported = "peer"
<1> USE DEF FragmentsStay, FragmentsGo
<1>1. CASE Data BY <1>1, DataState DEF Data, closing
<1>2. CASE Immediates BY <1>2, ImmediatesState DEF Immediates, closing
<1>3. CASE AppResumes BY <1>3, AppResumesState DEF AppResumes, closing
<1>4. CASE SocketEnds BY <1>4 DEF SocketEnds, handled, receiving, closing
<1>5. CASE SocketCloses BY <1>5 DEF SocketCloses, EmitClose, handled, receiving
<1>6. CASE SocketFails BY <1>6 DEF SocketFails, HandleSocketError, handled, receiving
<1>7. CASE CloseTimerFires BY <1>7 DEF CloseTimerFires, handled, receiving
<1>8. CASE KeepaliveTimerFires
  BY <1>8 DEF KeepaliveTimerFires, HandleSocketError, handled, receiving
<1>9. CASE GracePeriodTimerFires
  BY <1>9 DEF GracePeriodTimerFires, Drop, EmitClose, handled
<1>10. CASE AppCloses BY <1>10 DEF AppCloses, handled, receiving
<1>11. CASE AppDrops BY <1>11 DEF AppDrops, Drop, EmitClose, handled
<1>12. CASE AppSends BY <1>12 DEF AppSends, HandleSocketError, handled, receiving
<1>13. CASE AppPauses BY <1>13 DEF AppPauses, handled, receiving, closing
<1>14. CASE Finished \/ UNCHANGED vars BY <1>14 DEF Finished, vars, handled, receiving, closing
<1> QED
  BY <1>1, <1>2, <1>3, <1>4, <1>5, <1>6, <1>7, <1>8, <1>9, <1>10, <1>11, <1>12, <1>13, <1>14
  DEF Next

-----------------------------------------------------------------------------
\* After the handshake nothing has been read, queued or emitted.
LEMMA InitIInv == Init => IInv
<1> SUFFICES ASSUME Init PROVE IInv OBVIOUS
<1>1. handled = 0 /\ delivered = <<>> /\ frameQueue = <<>> BY DEF Init, handled
<1>2. Emitted = {} BY <1>1 DEF Emitted, ToSet
<1>7. SizeFits
  <2>1. fragmentationSize = 0 /\ Len(<<>>) = 0 BY DEF Init
  <2> QED BY <1>1, <2>1 DEF SizeFits
<1>3. Messages(0) = {} BY DEF Messages
<1>4. FragmentsFit /\ HandledDelivered /\ DeliveredInTurn
  BY <1>1 DEF FragmentsFit, HandledDelivered, DeliveredInTurn
<1>5. EmittedAre BY <1>1, <1>2, <1>3 DEF EmittedAre
<1>6. CleanClose BY DEF Init, CleanClose
<1> QED BY <1>4, <1>5, <1>6, <1>7, InitState DEF IInv, MessageInv

\* Every step preserves the invariant.
THEOREM NextIInv == IInv /\ [Next]_vars => IInv'
<1> SUFFICES ASSUME IInv, [Next]_vars PROVE IInv' OBVIOUS
<1>1. StateInv /\ MessageInv BY DEF IInv
<1>2. StateInv'
  <2>1. CASE Data BY <1>1, <2>1, DataState
  <2>2. CASE Immediates BY <1>1, <2>2, ImmediatesState
  <2>3. CASE ProcessFrame BY <1>1, <2>3, ProcessFrameState DEF MessageInv
  <2>4. CASE SocketEnds BY <1>1, <2>4, SocketEndsState
  <2>5. CASE SocketCloses BY <1>1, <2>5, SocketClosesState
  <2>6. CASE SocketFails BY <1>1, <2>6, SocketFailsState
  <2>7. CASE CloseTimerFires BY <1>1, <2>7, CloseTimerFiresState
  <2>8. CASE KeepaliveTimerFires BY <1>1, <2>8, KeepaliveTimerFiresState
  <2>9. CASE GracePeriodTimerFires BY <1>1, <2>9, GracePeriodTimerFiresState
  <2>10. CASE AppCloses BY <1>1, <2>10, AppClosesState
  <2>11. CASE AppDrops BY <1>1, <2>11, AppDropsState
  <2>12. CASE AppSends BY <1>1, <2>12, AppSendsState
  <2>13. CASE AppPauses BY <1>1, <2>13, AppPausesState
  <2>14. CASE AppResumes BY <1>1, <2>14, AppResumesState
  <2>15. CASE Finished \/ UNCHANGED vars
    <3>1. UNCHANGED vars BY <2>15 DEF Finished
    <3>2. OutsideInv'
      <4>1. /\ UNCHANGED <<state, connected, closing, sent, ended, socket, keepalive>>
            /\ inputPaused' = inputPaused /\ ticks' = ticks /\ watch' = watch
        BY <3>1 DEF vars, receiving, watching
      <4>2. inputPaused' \in BOOLEAN BY <1>1, <4>1 DEF StateInv, FlagsOK
      <4> QED BY <1>1, <4>1, <4>2, StateParts, InsideStep
    <3>3. CountsOK' /\ CallsCounted' /\ RejectedIsTaken'
      BY <1>1, <3>1, QuietStep DEF vars, receiving
    <3>4. QueuesOK' BY <1>1, <3>1 DEF vars, receiving, StateInv, QueuesOK
    <3> QED BY <3>2, <3>3, <3>4 DEF StateInv, OutsideInv
  <2> QED
    BY <2>1, <2>2, <2>3, <2>4, <2>5, <2>6, <2>7, <2>8, <2>9, <2>10, <2>11, <2>12, <2>13, <2>14, <2>15
    DEF Next
<1>3. MessageInv'
  <2>1. CASE ProcessFrame BY <1>1, <2>1, ProcessFrameMessages
  <2>2. CASE ~ProcessFrame BY <1>1, <2>2, OtherStepsQuiet, QuietMessages
  <2> QED BY <2>1, <2>2
<1> QED BY <1>2, <1>3 DEF IInv

\* The inductive invariant holds in every state of every behaviour.
THEOREM Invariance == Spec => []IInv
BY InitIInv, NextIInv, PTL DEF Spec

\* The variables keep their types: no counter of the receiving side goes below
\* zero or beyond what has arrived, no keepalive timer outlives the socket.
THEOREM TypeCorrect == Spec => []TypeOK
<1>1. IInv => TypeOK BY TypeParts DEF IInv, StateInv
<1> QED BY <1>1, Invariance, PTL

\* The parser never stalls: while the connection is open and not paused, a
\* frame that is buffered has a call of processReceivedData coming.
THEOREM NothingStuck == Spec => []NoStuckFrames
<1>1. IInv => NoStuckFrames
  <2> SUFFICES ASSUME IInv, connected, ~inputPaused, immediates = 0, ticks = 0 PROVE buffered = 0
    BY DEF NoStuckFrames
  <2>1. got \in Nat /\ buffered \in 0..got /\ handled \in Nat
    BY ScriptFacts DEF IInv, StateInv, CountsOK
  <2>2. (handled + 1)..(handled + ticks) = {} BY <2>1
  <2> QED BY <2>1, <2>2 DEF IInv, StateInv, RejectedIsTaken
<1> QED BY <1>1, Invariance, PTL

\* Nothing follows our close frame on the wire.
THEOREM CloseLast == Spec => []CloseIsLast
<1>1. IInv => CloseIsLast BY DEF IInv, StateInv
<1> QED BY <1>1, Invariance, PTL

\* Each message is emitted once and in its turn, however the peer's stream is
\* cut and whenever the application pauses; and whole, until our side of the
\* socket is ended.  After that an error can cut one short, to a beginning.
THEOREM EachMessageOnce == Spec => []MessagesWhole
<1>1. IInv => MessagesWhole
  BY DEF IInv, MessageInv, EmittedAre, Emitted, DeliveredInTurn, MessagesWhole
<1> QED BY <1>1, Invariance, PTL

\* The code of the peer's close frame is reported only when every message
\* before that frame was emitted.
THEOREM NothingLostBeforeClose == Spec => []CleanCloseLosesNothing
<1>1. IInv => CleanCloseLosesNothing
  BY DEF IInv, MessageInv, CleanClose, CleanCloseLosesNothing, Emitted
<1> QED BY <1>1, Invariance, PTL

-----------------------------------------------------------------------------
\* 'close' is emitted once, and with a code.
LEMMA ReportedOnce ==
  ASSUME StateInv, [Next]_vars
  PROVE  reported' = reported \/ (reported = "none" /\ reported' # "none")
<1>1. CASE Data \/ Immediates \/ AppResumes \/ AppPauses \/ SocketEnds
  BY <1>1 DEF Data, Immediates, AppResumes, AppPauses, SocketEnds, closing
<1>2. CASE SocketFails \/ CloseTimerFires \/ KeepaliveTimerFires \/ AppCloses \/ AppSends
  BY <1>2 DEF SocketFails, CloseTimerFires, KeepaliveTimerFires, AppCloses, AppSends
<1>3. CASE SocketCloses
  <2>1. closeReasonCode' # "none" BY <1>3 DEF SocketCloses, StateInv, ClosingOK, Codes
  <2> QED BY <1>3, <2>1 DEF SocketCloses, EmitClose
<1>4. CASE GracePeriodTimerFires \/ AppDrops
  BY <1>4 DEF GracePeriodTimerFires, AppDrops, Drop, EmitClose
<1>5. CASE ProcessFrame
  <2>1. FrameDrops => reported' = reported \/ (reported = "none" /\ reported' # "none")
    BY DEF FrameDrops, Drop, EmitClose
  <2>2. ~FrameDrops => reported' = reported
    BY <1>5, FrameCases DEF FrameEmits, FrameQueues, FramePong, FramePing, FrameClose, closing
  <2> QED BY <2>1, <2>2
<1>6. CASE Finished \/ UNCHANGED vars BY <1>6 DEF Finished, vars, closing
<1> QED BY <1>1, <1>2, <1>3, <1>4, <1>5, <1>6 DEF Next

\* It is opened only once.
LEMMA NeverReopened ==
  ASSUME IInv, [Next]_vars
  PROVE  connected' => connected
<1>1. CASE ProcessFrame
  BY <1>1, FrameCases, FrameDropsState, FrameInsideState, FramePingState, FrameCloseState
  DEF IInv, MessageInv
<1>2. CASE ~ProcessFrame BY <1>2, OtherStepsQuiet DEF IInv
<1> QED BY <1>1, <1>2

\* To its owner a connection is a ChannelLife: every step of it, an error that
\* meets a timer or a call included, is one step of that life or none.
THEOREM LivesAsChannel == Spec => ChannelSpec
<1>1. Init => Channel!Init BY DEF Init, Channel!Init
<1>2. ASSUME IInv, [Next]_vars PROVE [Channel!Next]_(Channel!vars)
  <2>1. /\ reported' = reported \/ (reported = "none" /\ reported' # "none")
        /\ connected' => connected
        /\ connected \in BOOLEAN /\ connected' \in BOOLEAN
    <3>1. StateInv /\ StateInv' BY <1>2, NextIInv DEF IInv
    <3> QED BY <1>2, <3>1, ReportedOnce, NeverReopened DEF StateInv, FlagsOK
  <2>2. CASE reported = "none" /\ reported' # "none"
    <3>1. Channel!Close BY <2>1, <2>2 DEF Channel!Close
    <3> QED BY <3>1 DEF Channel!Next
  <2>3. CASE reported' = reported /\ reported = "none" /\ connected /\ ~connected'
    <3>1. Channel!Shut BY <2>3 DEF Channel!Shut
    <3> QED BY <3>1 DEF Channel!Next
  <2>4. CASE reported' = reported /\ (reported # "none" \/ connected' = connected)
    BY <2>4 DEF Channel!vars
  <2> QED BY <2>1, <2>2, <2>3, <2>4
<1>3. IInv /\ [Next]_vars => [Channel!Next]_(Channel!vars) BY <1>2
<1> QED BY <1>1, <1>3, Invariance, PTL DEF Spec, ChannelSpec, Channel!Spec
=============================================================================
