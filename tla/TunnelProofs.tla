---------------------------- MODULE TunnelProofs ----------------------------
(***************************************************************************)
(* Safety of Tunnel for all requests the server may send and however its   *)
(* stream is cut, and that a tunnel lives the life of TunnelLife.          *)
(***************************************************************************)
EXTENDS Tunnel, SequenceTheorems, FiniteSetTheorems, WellFoundedInduction, TLAPS

\* The inductive invariant, in named parts.
ListensForAnswer == listening = (~connected /\ ~destroyed)
ConnectedByAnswer == connected => script[1] = "ok"
WaitsForRequest == waiting => connected /\ local = "none"
ReportedOnce == reported => destroyed

IInv ==
  /\ TypeOK
  /\ NoSocketLeaks
  /\ OnlyEstablishedReachLocal
  /\ ListensForAnswer
  /\ ConnectedByAnswer
  /\ WaitsForRequest
  /\ ReportedOnce

USE MaxAnswersAssumption, SplitsAssumption

-----------------------------------------------------------------------------
\* A set of numbers that is not empty has a least one.
LEMMA LeastNumber ==
  ASSUME NEW S \in SUBSET Nat, S # {}
  PROVE  \E m \in S : \A n \in S : m <= n
<1> DEFINE T == {0..n : n \in S}
<1>1. IsWellFoundedOn(StrictSubsetOrdering(Nat), FiniteSubsetsOf(Nat))
  BY FS_StrictSubsetOrderingWellFounded
<1>2. T \subseteq FiniteSubsetsOf(Nat) /\ T # {}
  <2>1. ASSUME NEW n \in S PROVE 0..n \in FiniteSubsetsOf(Nat)
    <3>1. IsFiniteSet(0..n) BY FS_Interval, n \in Int, 0 \in Int
    <3>2. 0..n \subseteq Nat BY n \in Nat
    <3> QED BY <3>1, <3>2 DEF FiniteSubsetsOf
  <2> QED BY <2>1
<1>3. PICK u \in T : \A v \in T : <<v, u>> \notin StrictSubsetOrdering(Nat)
  <2> HIDE DEF T
  <2> QED BY <1>1, <1>2, WFMin, Zenon
<1>4. PICK m \in S : u = 0..m OBVIOUS
<1>5. ASSUME NEW n \in S, n < m PROVE FALSE
  <2>1. m \in 0..m /\ m \notin 0..n BY <1>5
  <2>2. 0..n \subseteq 0..m /\ 0..n # 0..m /\ 0..n \in SUBSET Nat /\ 0..m \in SUBSET Nat BY <1>5, <2>1
  <2>3. <<0..n, 0..m>> \in StrictSubsetOrdering(Nat) BY <2>2 DEF StrictSubsetOrdering
  <2> QED BY <1>3, <1>4, <2>3
<1> QED BY <1>5

\* A sequence is one of its own elements.
LEMMA SeqOfToSet ==
  ASSUME NEW S, NEW s \in Seq(S)
  PROVE  s \in Seq(ToSet(s))
<1>1. \A i \in 1..Len(s) : s[i] \in ToSet(s) BY DEF ToSet
<1> QED BY <1>1, LenProperties

\* A part of a sequence.
LEMMA PartOf ==
  ASSUME NEW S, NEW s \in Seq(S), NEW m \in Nat, NEW n \in Nat, m <= n, n <= Len(s)
  PROVE  /\ SubSeq(s, m + 1, n) \in Seq(S)
         /\ Len(SubSeq(s, m + 1, n)) = n - m
         /\ \A i \in 1..(n - m) : SubSeq(s, m + 1, n)[i] = s[m + i]
BY SubSeqProperties

\* The end of a piece of a sequence is a piece of the sequence.
LEMMA PartOfPart ==
  ASSUME NEW S, NEW s \in Seq(S), NEW c \in Seq(S),
         NEW g \in Nat, NEW d \in Nat, NEW m \in Nat, NEW h \in Nat, NEW n \in Nat,
         h = g + d, n = g + m, d <= m, n <= Len(s), Len(c) = m, \A i \in 1..m : c[i] = s[g + i]
  PROVE  SubSeq(c, d + 1, m) = SubSeq(s, h + 1, n)
<1>1. PICK l \in Nat : l = m - d /\ n - h = l /\ h <= n OBVIOUS
<1>2. /\ SubSeq(c, d + 1, m) \in Seq(S) /\ Len(SubSeq(c, d + 1, m)) = m - d
      /\ \A i \in 1..(m - d) : SubSeq(c, d + 1, m)[i] = c[d + i]
  BY PartOf
<1>3. /\ SubSeq(s, h + 1, n) \in Seq(S) /\ Len(SubSeq(s, h + 1, n)) = n - h
      /\ \A i \in 1..(n - h) : SubSeq(s, h + 1, n)[i] = s[h + i]
  BY <1>1, PartOf
<1>4. ASSUME NEW i \in 1..l PROVE SubSeq(c, d + 1, m)[i] = SubSeq(s, h + 1, n)[i]
  <2>1. d + i \in 1..m /\ g + (d + i) = h + i BY <1>1
  <2>2. c[d + i] = s[h + i] BY <2>1
  <2> QED BY <1>1, <1>2, <1>3, <2>2
<1> DEFINE a == SubSeq(c, d + 1, m)
           b == SubSeq(s, h + 1, n)
<1>5. a \in Seq(S) /\ b \in Seq(S) /\ Len(a) = l /\ Len(b) = l BY <1>1, <1>2, <1>3
<1>6. \A i \in 1..l : a[i] = b[i] BY <1>4
<1> HIDE DEF a, b
<1>7. a = b BY <1>1, <1>5, <1>6, SeqEqual
<1> QED BY <1>1, <1>7 DEF a, b

\* What the server sends starts with its answer and the terminator.
LEMMA ScriptFacts ==
  ASSUME script \in Scripts
  PROVE  /\ script \in Seq(ToSet(script))
         /\ Len(script) \in Nat /\ Len(script) >= AnswerLength
         /\ script[1] \in Answers /\ script[2] = "e1" /\ script[3] = "e2"
<1>1. PICK pair \in Answers \X Requests : script = <<pair[1], "e1", "e2">> \o pair[2]
  BY DEF Scripts
<1> DEFINE S == {pair[1], "e1", "e2"} \cup ToSet(pair[2])
<1>2. pair[2] \in Seq(S)
  <2>1. pair[2] \in Seq(ToSet(pair[2])) BY RequestsAssumption
  <2> QED BY <2>1, SeqMonotonic
<1>3. <<pair[1], "e1", "e2">> \in Seq(S) OBVIOUS
<1>4. Len(<<pair[1], "e1", "e2">>) = 3 OBVIOUS
<1> HIDE DEF S
<1>5. script \in Seq(S) BY <1>1, <1>2, <1>3
<1>6. script \in Seq(ToSet(script)) BY <1>5, SeqOfToSet
<1>7. Len(script) \in Nat /\ Len(script) >= 3 BY <1>1, <1>2, <1>3, <1>4
<1>8. /\ script[1] = pair[1] /\ script[2] = "e1" /\ script[3] = "e2"
  BY <1>1, <1>2, <1>3, <1>4
<1> QED BY <1>6, <1>7, <1>8 DEF AnswerLength

\* The part of a chunk that is fed to the parser is some of it, and the rest
\* is what is queued.
LEMMA FedFacts ==
  ASSUME NEW S, NEW chunk \in Seq(S), chunk # <<>>
  PROVE  /\ FedLength(chunk) \in 1..Len(chunk)
         /\ Queued(chunk) \in Seq(S)
         /\ Len(Queued(chunk)) = Len(chunk) - FedLength(chunk)
<1>1. Len(chunk) \in Nat /\ Len(chunk) >= 1 OBVIOUS
<1>2. FedLength(chunk) \in 1..Len(chunk)
  <2>1. CASE HeaderEnds(chunk) = {} BY <1>1, <2>1 DEF FedLength
  <2>2. CASE HeaderEnds(chunk) # {}
    <3>1. HeaderEnds(chunk) \subseteq 1..(Len(chunk) - 1) BY DEF HeaderEnds
    <3>2. \E m \in HeaderEnds(chunk) : \A n \in HeaderEnds(chunk) : m <= n
      BY <1>1, <2>2, <3>1, LeastNumber
    <3>3. Min(HeaderEnds(chunk)) \in HeaderEnds(chunk) BY <3>2 DEF Min
    <3> QED BY <1>1, <2>2, <3>1, <3>3 DEF FedLength
  <2> QED BY <2>1, <2>2
<1> QED BY <1>1, <1>2, PartOf DEF Queued

\* What arrives is the next part of the script.
LEMMA ArrivesFacts ==
  ASSUME TypeOK, NEW chunk, Arrives(chunk)
  PROVE  /\ chunk \in Seq(ToSet(script)) /\ chunk # <<>>
         /\ got' \in 0..Len(script) /\ got' > got
         /\ chunk = SubSeq(script, got + 1, got')
         /\ Len(chunk) = got' - got
         /\ \A i \in 1..(got' - got) : chunk[i] = script[got + i]
<1>1. PICK n \in (got + 1)..Len(script) : chunk = SubSeq(script, got + 1, n) /\ got' = n
  BY DEF Arrives
<1>2. script \in Seq(ToSet(script)) /\ Len(script) \in Nat BY ScriptFacts DEF TypeOK
<1>3. got \in Nat /\ n \in Nat /\ got <= n /\ n <= Len(script) BY <1>2 DEF TypeOK
<1>4. /\ chunk \in Seq(ToSet(script)) /\ Len(chunk) = got' - got
      /\ \A i \in 1..(got' - got) : chunk[i] = script[got + i]
  BY <1>1, <1>2, <1>3, PartOf
<1>5. got' \in 0..Len(script) /\ got' > got BY <1>1, <1>3
<1>6. chunk # <<>> BY <1>3, <1>4, <1>5
<1> QED BY <1>1, <1>4, <1>5, <1>6

-----------------------------------------------------------------------------
\* A new tunnel satisfies the invariant.
LEMMA InitIInv == Init => IInv
<1> SUFFICES ASSUME Init PROVE IInv OBVIOUS
<1>1. TypeOK
  <2>1. 0 \in 0..Len(script) BY ScriptFacts DEF Init
  <2>2. {listening, waiting, connected, destroyed, reported} \subseteq BOOLEAN BY DEF Init
  <2> QED BY <2>1, <2>2 DEF Init, TypeOK
<1>2. ListensForAnswer BY DEF Init, ListensForAnswer
<1> QED
  BY <1>1, <1>2 DEF Init, IInv, NoSocketLeaks, OnlyEstablishedReachLocal,
     ConnectedByAnswer, WaitsForRequest, ReportedOnce

\* destroy() leaves the invariant, whatever calls it.
LEMMA DestroyStep ==
  ASSUME IInv, NEW err \in {"none", "forbidden", "network"}, Destroy(err),
         UNCHANGED <<script, connected, toLocal, answers, reported>>, got' \in 0..Len(script)
  PROVE  IInv'
BY DEF IInv, TypeOK, NoSocketLeaks, OnlyEstablishedReachLocal,
   ListensForAnswer, ConnectedByAnswer, WaitsForRequest, ReportedOnce, Destroy

\* An answer is rejected, awaited, refused or accepted.
LEMMA OnSocketDataStep ==
  ASSUME IInv, NEW chunk, OnSocketData(chunk)
  PROVE  IInv'
<1>1. Arrives(chunk) BY DEF OnSocketData
<1>2. /\ chunk \in Seq(ToSet(script)) /\ chunk # <<>> /\ got' \in 0..Len(script)
      /\ script' = script /\ reported' = reported /\ answers' = answers
  BY <1>1, ArrivesFacts DEF IInv, Arrives, OnSocketData
<1>3. CASE Destroy("network") /\ UNCHANGED <<connected, toLocal>>
  BY <1>2, <1>3, DestroyStep
<1>4. CASE Destroy("forbidden") /\ UNCHANGED <<connected, toLocal>>
  BY <1>2, <1>4, DestroyStep
<1>5. CASE UNCHANGED <<rv, listening, waiting, connected, local, toLocal, destroyed, reason>>
  BY <1>2, <1>5 DEF IInv, TypeOK, NoSocketLeaks, OnlyEstablishedReachLocal,
     ListensForAnswer, ConnectedByAnswer, WaitsForRequest, ReportedOnce
<1>6. CASE /\ script[1] = "ok"
           /\ listening' = FALSE
           /\ connected' = TRUE
           /\ toLocal' = Queued(chunk)
           /\ local' = IF Queued(chunk) = <<>> THEN "none" ELSE "connecting"
           /\ waiting' = (Queued(chunk) = <<>>)
           /\ UNCHANGED <<rv, destroyed, reason>>
  <2>1. Queued(chunk) \in Seq(ToSet(script)) BY <1>2, FedFacts
  <2>2. listening BY DEF OnSocketData
  <2> QED
    BY <1>2, <1>6, <2>1, <2>2 DEF IInv, TypeOK, NoSocketLeaks, OnlyEstablishedReachLocal,
       ListensForAnswer, ConnectedByAnswer, WaitsForRequest, ReportedOnce
<1> QED BY <1>3, <1>4, <1>5, <1>6 DEF OnSocketData

\* What comes after the answer goes to the local server.
LEMMA PipeToLocalStep ==
  ASSUME IInv, NEW chunk, PipeToLocal(chunk)
  PROVE  IInv'
<1>1. Arrives(chunk) BY DEF PipeToLocal
<1>2. /\ chunk \in Seq(ToSet(script)) /\ got' \in 0..Len(script)
      /\ script' = script /\ reported' = reported
  BY <1>1, ArrivesFacts DEF IInv, Arrives
<1>3. toLocal' \in Seq(ToSet(script)) BY <1>2 DEF PipeToLocal, IInv, TypeOK
<1>4. connected BY <1>1 DEF PipeToLocal, Arrives, IInv, ListensForAnswer, NoSocketLeaks
<1> QED
  BY <1>2, <1>3, <1>4 DEF PipeToLocal, IInv, TypeOK, NoSocketLeaks, OnlyEstablishedReachLocal,
     ListensForAnswer, ConnectedByAnswer, WaitsForRequest, ReportedOnce

\* The handlers that can only destroy the tunnel.
LEMMA FailureSteps ==
  ASSUME IInv, RvCloses \/ RvFails \/ LocalFails \/ OwnerDestroys
  PROVE  IInv'
<1>1. PICK err \in {"none", "forbidden", "network"} :
        Destroy(err) /\ UNCHANGED <<script, got, connected, toLocal, answers, reported>>
  BY DEF RvCloses, RvFails, LocalFails, OwnerDestroys
<1>2. got' \in 0..Len(script) BY <1>1 DEF IInv, TypeOK
<1> QED BY <1>1, <1>2, DestroyStep

\* The handlers of the sockets that leave it alive, and the report.
LEMMA SocketSteps ==
  ASSUME IInv, RvConnects \/ RvEnds \/ LocalConnects \/ LocalEnds \/ LocalTimesOut \/ Report
  PROVE  IInv'
<1> USE DEF IInv, NoSocketLeaks, OnlyEstablishedReachLocal,
          ListensForAnswer, ConnectedByAnswer, WaitsForRequest, ReportedOnce
<1>1. CASE RvConnects BY <1>1 DEF RvConnects, TypeOK
<1>2. CASE RvEnds BY <1>2 DEF RvEnds, TypeOK
<1>3. CASE LocalConnects BY <1>3 DEF LocalConnects, TypeOK
<1>4. CASE LocalEnds BY <1>4 DEF LocalEnds, TypeOK
<1>5. CASE LocalTimesOut BY <1>5 DEF LocalTimesOut, TypeOK
<1>6. CASE Report BY <1>6 DEF Report, TypeOK
<1> QED BY <1>1, <1>2, <1>3, <1>4, <1>5, <1>6

\* A response is forwarded, or finds the socket closing.
LEMMA LocalRespondsStep ==
  ASSUME IInv, LocalResponds
  PROVE  IInv'
<1>1. CASE Destroy("network") /\ UNCHANGED answers
  BY <1>1, DestroyStep DEF LocalResponds, IInv, TypeOK
<1>2. CASE answers < MaxAnswers /\ answers' = answers + 1 /\ UNCHANGED <<rv, listening, waiting, local, destroyed, reason>>
  BY <1>2 DEF LocalResponds, IInv, TypeOK, NoSocketLeaks, OnlyEstablishedReachLocal,
     ListensForAnswer, ConnectedByAnswer, WaitsForRequest, ReportedOnce
<1> QED BY <1>1, <1>2 DEF LocalResponds

\* A step that changes nothing keeps the invariant.
LEMMA StutterStep ==
  ASSUME IInv, UNCHANGED vars
  PROVE  IInv'
BY DEF vars, IInv, TypeOK, NoSocketLeaks, OnlyEstablishedReachLocal,
   ListensForAnswer, ConnectedByAnswer, WaitsForRequest, ReportedOnce

\* Every step keeps the invariant.
THEOREM NextIInv == IInv /\ [Next]_vars => IInv'
<1> SUFFICES ASSUME IInv, [Next]_vars PROVE IInv' OBVIOUS
<1>1. ASSUME NEW chunk \in Chunks, OnSocketData(chunk) PROVE IInv' BY <1>1, OnSocketDataStep
<1>2. ASSUME NEW chunk \in Chunks, PipeToLocal(chunk) PROVE IInv' BY <1>2, PipeToLocalStep
<1>3. CASE RvCloses \/ RvFails \/ LocalFails \/ OwnerDestroys BY <1>3, FailureSteps
<1>4. CASE RvConnects \/ RvEnds \/ LocalConnects \/ LocalEnds \/ LocalTimesOut \/ Report
  BY <1>4, SocketSteps
<1>5. CASE LocalResponds BY <1>5, LocalRespondsStep
<1>6. CASE UNCHANGED vars \/ Finished BY <1>6, StutterStep DEF Finished
<1> QED BY <1>1, <1>2, <1>3, <1>4, <1>5, <1>6 DEF Next

\* The invariant holds in every state of every run, for all constants.
THEOREM Invariance == Spec => []IInv
BY InitIInv, NextIInv, PTL DEF Spec

\* Every variable keeps to its type, whatever the two sockets do when.
THEOREM TypeCorrect == Spec => []TypeOK
<1>1. IInv => TypeOK BY DEF IInv
<1> QED BY <1>1, Invariance, PTL

\* destroy(), whoever calls it, leaves neither socket open nor a listener that
\* could open the local one later.
THEOREM SocketsReleased == Spec => []NoSocketLeaks
<1>1. IInv => NoSocketLeaks BY DEF IInv
<1> QED BY <1>1, Invariance, PTL

\* The local server is contacted for an established tunnel only.
THEOREM LocalAfterAnswer == Spec => []OnlyEstablishedReachLocal
<1>1. IInv => OnlyEstablishedReachLocal BY DEF IInv
<1> QED BY <1>1, Invariance, PTL

-----------------------------------------------------------------------------
\* The answer comes in one piece with its terminator, if the terminator is not
\* cut: as long as it is waited for, at most its first line has come.
AnswerInOne == listening => got < AnswerLength - 1
AnswerRead == connected => got >= AnswerLength

IntactInv == IInv /\ AnswerInOne /\ AnswerRead /\ RequestsIntact

\* Nothing is a prefix of everything.
LEMMA EmptyIsPrefix ==
  ASSUME NEW S, NEW s \in Seq(S), NEW m \in Nat, NEW n \in Nat
  PROVE  IsPrefix(<<>>, SubSeq(s, m + 1, n))
<1>1. Len(SubSeq(s, m + 1, n)) \in Nat BY SubSeqProperties
<1>2. SubSeq(SubSeq(s, m + 1, n), 1, 0) = <<>> /\ SubSeq(<<>>, 1, 0) = <<>> BY SubSeqEmpty
<1> QED BY <1>1, <1>2 DEF IsPrefix

\* The chunk that ends the answer is fed to the parser up to the terminator,
\* and what is queued is the part of the stream behind the answer.
LEMMA AnswerChunkOf ==
  ASSUME NEW S, NEW s \in Seq(S), NEW g \in 0..1, NEW n \in AnswerLength..Len(s),
         NEW chunk \in Seq(S), Len(chunk) = n - g, \A i \in 1..(n - g) : chunk[i] = s[g + i],
         s[1] \in Answers, s[2] = "e1", s[3] = "e2"
  PROVE  /\ g + FedLength(chunk) = AnswerLength
         /\ Queued(chunk) = SubSeq(s, AnswerLength + 1, n)
<1> USE DEF AnswerLength
<1>1. n \in Nat /\ n >= 3 /\ n <= Len(s) /\ Len(s) \in Nat OBVIOUS
<1>2. chunk \in Seq(S) /\ Len(chunk) = n - g OBVIOUS
<1>3. \A i \in 1..(n - g) : chunk[i] = s[g + i] OBVIOUS
<1>4. chunk[2 - g] = "e1" /\ chunk[2 - g + 1] = "e2"
  <2>1. 2 - g \in 1..(n - g) /\ 2 - g + 1 \in 1..(n - g) BY <1>1
  <2>2. chunk[2 - g] = s[g + (2 - g)] /\ chunk[2 - g + 1] = s[g + (2 - g + 1)] BY <1>3, <2>1
  <2>3. g + (2 - g) = 2 /\ g + (2 - g + 1) = 3 OBVIOUS
  <2> QED BY <2>2, <2>3
<1>5. 2 - g \in HeaderEnds(chunk)
  <2>1. 2 - g \in 1..(Len(chunk) - 1) BY <1>1, <1>2
  <2> QED BY <1>4, <2>1 DEF HeaderEnds
<1>6. ASSUME NEW i \in HeaderEnds(chunk) PROVE i \in Nat /\ 2 - g <= i
  <2>1. i \in 1..(Len(chunk) - 1) /\ chunk[i] = "e1" BY DEF HeaderEnds
  <2>2. i \in 1..(n - g) BY <1>1, <1>2, <2>1
  <2>3. chunk[i] = s[g + i] BY <1>3, <2>2
  <2>4. s[1] # "e1" BY DEF Answers
  <2>5. g + i # 1 BY <2>1, <2>3, <2>4
  <2> QED BY <2>2, <2>5
<1>7. Min(HeaderEnds(chunk)) = 2 - g
  <2>1. \E m \in HeaderEnds(chunk) : \A i \in HeaderEnds(chunk) : m <= i BY <1>5, <1>6
  <2>2. /\ Min(HeaderEnds(chunk)) \in HeaderEnds(chunk)
        /\ \A i \in HeaderEnds(chunk) : Min(HeaderEnds(chunk)) <= i
    BY <2>1 DEF Min
  <2>3. Min(HeaderEnds(chunk)) <= 2 - g BY <1>5, <2>2
  <2> QED BY <1>6, <2>2, <2>3
<1>8. FedLength(chunk) = 3 - g BY <1>5, <1>7 DEF FedLength
<1>9. SubSeq(chunk, 3 - g + 1, n - g) = SubSeq(s, 3 + 1, n)
  <2>1. PICK h \in Nat, d \in Nat, m \in Nat :
          h = 3 /\ d = 3 - g /\ m = n - g /\ d <= m /\ n = g + m /\ h = g + d
    BY <1>1
  <2>2. Len(chunk) = m /\ \A i \in 1..m : chunk[i] = s[g + i] BY <1>2, <1>3, <2>1
  <2>3. SubSeq(chunk, d + 1, m) = SubSeq(s, h + 1, n)
    BY <1>1, <2>1, <2>2, PartOfPart
  <2> QED BY <2>1, <2>3
<1>10. Queued(chunk) = SubSeq(chunk, 3 - g + 1, n - g) BY <1>2, <1>8 DEF Queued
<1>11. g + FedLength(chunk) = 3 BY <1>8
<1>12. Queued(chunk) = SubSeq(s, AnswerLength + 1, n) BY <1>9, <1>10
<1> QED BY <1>11, <1>12

\* So for the chunk that TCP delivers.
LEMMA AnswerChunk ==
  ASSUME NEW S, NEW s \in Seq(S), NEW g \in 0..1, NEW n \in AnswerLength..Len(s),
         s[1] \in Answers, s[2] = "e1", s[3] = "e2"
  PROVE  /\ g + FedLength(SubSeq(s, g + 1, n)) = AnswerLength
         /\ Queued(SubSeq(s, g + 1, n)) = SubSeq(s, AnswerLength + 1, n)
<1> DEFINE chunk == SubSeq(s, g + 1, n)
<1>1. /\ chunk \in Seq(S) /\ Len(chunk) = n - g
      /\ \A i \in 1..(n - g) : chunk[i] = s[g + i]
  BY PartOf DEF AnswerLength
<1> HIDE DEF chunk
<1>2. /\ g + FedLength(chunk) = AnswerLength
      /\ Queued(chunk) = SubSeq(s, AnswerLength + 1, n)
  BY <1>1, AnswerChunkOf
<1> QED BY <1>2 DEF chunk

\* Where the stream has come to when it is cut at g and at n.
LEMMA Further ==
  ASSUME NEW S, NEW s \in Seq(S), NEW g \in AnswerLength..Len(s), NEW n \in g..Len(s)
  PROVE  /\ IsPrefix(SubSeq(s, AnswerLength + 1, n), SubSeq(s, AnswerLength + 1, Len(s)))
         /\ SubSeq(s, AnswerLength + 1, g) \o SubSeq(s, g + 1, n) = SubSeq(s, AnswerLength + 1, n)
<1> USE DEF AnswerLength
<1>1. Len(s) \in Nat /\ g \in Nat /\ n \in Nat /\ 3 <= g /\ g <= n /\ n <= Len(s) OBVIOUS
<1>2. SubSeq(s, 3 + 1, g) \o SubSeq(s, g + 1, n) = SubSeq(s, 3 + 1, n)
  BY <1>1, ConcatAdjacentSubSeq
<1> DEFINE a == SubSeq(s, 3 + 1, n)
           b == SubSeq(s, 3 + 1, Len(s))
           c == SubSeq(b, 0 + 1, Len(a))
<1>3. a \in Seq(S) /\ Len(a) = n - 3 /\ \A i \in 1..(n - 3) : a[i] = s[3 + i]
  BY <1>1, PartOf
<1>4. b \in Seq(S) /\ Len(b) = Len(s) - 3 /\ \A i \in 1..(Len(s) - 3) : b[i] = s[3 + i]
  <2>1. PICK l \in Nat : l = Len(s) BY <1>1
  <2>2. /\ SubSeq(s, 3 + 1, l) \in Seq(S) /\ Len(SubSeq(s, 3 + 1, l)) = l - 3
        /\ \A i \in 1..(l - 3) : SubSeq(s, 3 + 1, l)[i] = s[3 + i]
    BY <1>1, <2>1, PartOf
  <2> QED BY <2>1, <2>2
<1>5. c \in Seq(S) /\ Len(c) = Len(a) - 0 /\ \A i \in 1..(Len(a) - 0) : c[i] = b[0 + i]
  <2> HIDE DEF a, b
  <2> QED BY <1>1, <1>3, <1>4, PartOf
<1>6. a = c
  <2> HIDE DEF a, b, c
  <2> QED BY <1>1, <1>3, <1>4, <1>5, SeqEqual
<1>7. IsPrefix(a, b)
  <2>1. SubSeq(a, 1, Len(a)) = a BY <1>3, SubSeqFull
  <2> HIDE DEF a, b
  <2> QED BY <1>1, <1>3, <1>4, <1>6, <2>1 DEF IsPrefix, c
<1> QED BY <1>2, <1>7

\* Nothing was sent, so nothing was lost.
LEMMA InitIntact == Init => IntactInv
<1> SUFFICES ASSUME Init PROVE IntactInv OBVIOUS
<1>1. script \in Seq(ToSet(script)) /\ Len(script) \in Nat /\ AnswerLength \in Nat
  BY ScriptFacts DEF Init, AnswerLength
<1>2. IsPrefix(<<>>, SubSeq(script, AnswerLength + 1, Len(script)))
  BY <1>1, EmptyIsPrefix
<1> QED
  BY <1>2, InitIInv DEF Init, IntactInv, AnswerInOne, AnswerRead, RequestsIntact, AnswerLength

\* A step that moves no bytes, opens no closed socket and does not start to
\* listen again keeps the requests intact.
LEMMA QuietStep ==
  ASSUME IntactInv, UNCHANGED <<script, got, connected, toLocal>>,
         listening' => listening, local = "closed" => local' = "closed"
  PROVE  AnswerInOne' /\ AnswerRead' /\ RequestsIntact'
BY DEF IntactInv, AnswerInOne, AnswerRead, RequestsIntact

\* The chunk that ends the answer brings the queued part of the request, and
\* one that does not end it brings the first line of the answer alone.
LEMMA OnSocketDataIntact ==
  ASSUME IntactInv, ~Splits, NEW chunk, OnSocketData(chunk)
  PROVE  AnswerInOne' /\ AnswerRead' /\ RequestsIntact'
<1> USE DEF AnswerLength
<1>1. /\ chunk \in Seq(ToSet(script)) /\ chunk # <<>>
      /\ got' \in 0..Len(script) /\ got' > got
      /\ chunk = SubSeq(script, got + 1, got') /\ Len(chunk) = got' - got
  BY ArrivesFacts DEF OnSocketData, IntactInv, IInv
<1>2. got' # 2 /\ script' = script BY DEF OnSocketData, Arrives
<1>3. /\ script \in Seq(ToSet(script)) /\ Len(script) \in Nat /\ Len(script) >= 3
      /\ script[1] \in Answers /\ script[2] = "e1" /\ script[3] = "e2"
  BY ScriptFacts DEF IntactInv, IInv, TypeOK
<1>4. listening /\ ~connected /\ got \in 0..1 /\ toLocal = <<>>
  BY DEF OnSocketData, IntactInv, IInv, TypeOK, ListensForAnswer, OnlyEstablishedReachLocal, AnswerInOne
<1>5. got' >= 3 => got + FedLength(chunk) = 3 /\ Queued(chunk) = SubSeq(script, 3 + 1, got')
  <2>1. SUFFICES ASSUME got' >= 3 PROVE got + FedLength(chunk) = 3 /\ Queued(chunk) = SubSeq(script, 3 + 1, got')
    OBVIOUS
  <2>2. PICK n \in Nat : n = got' BY <1>1
  <2>3. n \in AnswerLength..Len(script) BY <1>1, <1>3, <2>1, <2>2
  <2>4. chunk = SubSeq(script, got + 1, n) BY <1>1, <2>2
  <2> QED BY <1>3, <1>4, <2>2, <2>3, <2>4, AnswerChunk
<1>6. FedLength(chunk) \in 1..(got' - got) BY <1>1, FedFacts
<1>7. CASE /\ listening' = FALSE /\ connected' = connected /\ toLocal' = toLocal
  <2>1. IsPrefix(<<>>, SubSeq(script, 3 + 1, Len(script))) BY <1>3, EmptyIsPrefix
  <2> QED BY <1>2, <1>1, <1>4, <1>7, <2>1 DEF AnswerInOne, AnswerRead, RequestsIntact
<1>8. CASE got + FedLength(chunk) < 3 /\ UNCHANGED <<listening, connected, local, toLocal>>
  <2>1. got' < 2 BY <1>2, <1>1, <1>4, <1>5, <1>8
  <2>2. IsPrefix(<<>>, SubSeq(script, 3 + 1, Len(script))) BY <1>3, EmptyIsPrefix
  <2>3. AnswerInOne' BY <2>1 DEF AnswerInOne
  <2>4. AnswerRead' /\ RequestsIntact' BY <1>2, <1>4, <1>8, <2>2 DEF AnswerRead, RequestsIntact
  <2> QED BY <2>3, <2>4
<1>9. CASE got + FedLength(chunk) >= 3 /\ listening' = FALSE /\ toLocal' = Queued(chunk)
  <2>1. got' >= 3 BY <1>1, <1>4, <1>6, <1>9
  <2>2. toLocal' = SubSeq(script, 3 + 1, got') BY <1>5, <1>9, <2>1
  <2>3. PICK n \in Nat : n = got' BY <1>1
  <2>4. IsPrefix(SubSeq(script, AnswerLength + 1, n), SubSeq(script, AnswerLength + 1, Len(script)))
    <3>1. AnswerLength \in AnswerLength..Len(script) /\ n \in AnswerLength..Len(script)
      BY <1>1, <1>3, <2>1, <2>3
    <3> QED BY <1>3, <3>1, Further
  <2>5. AnswerInOne' BY <1>9 DEF AnswerInOne
  <2>6. AnswerRead' BY <2>1 DEF AnswerRead
  <2>7. RequestsIntact' BY <1>2, <2>2, <2>3, <2>4 DEF RequestsIntact
  <2> QED BY <2>5, <2>6, <2>7
<1>10. \/ /\ \E err \in {"network", "forbidden"} : Destroy(err)
         /\ UNCHANGED <<connected, toLocal>>
      \/ /\ got + FedLength(chunk) < AnswerLength
         /\ UNCHANGED <<listening, connected, local, toLocal>>
      \/ /\ got + FedLength(chunk) >= AnswerLength
         /\ listening' = FALSE
         /\ toLocal' = Queued(chunk)
  BY DEF OnSocketData
<1> QED BY <1>7, <1>8, <1>9, <1>10 DEF Destroy

\* What is piped follows on what the local server has got already.
LEMMA PipeToLocalIntact ==
  ASSUME IntactInv, NEW chunk, PipeToLocal(chunk)
  PROVE  AnswerInOne' /\ AnswerRead' /\ RequestsIntact'
<1>1. PICK n \in Nat : n = got' BY ArrivesFacts DEF PipeToLocal, IntactInv, IInv
<1>2. n \in 0..Len(script) /\ n > got /\ chunk = SubSeq(script, got + 1, n) /\ script' = script
  BY <1>1, ArrivesFacts DEF PipeToLocal, Arrives, IntactInv, IInv
<1>3. script \in Seq(ToSet(script)) /\ Len(script) \in Nat
  BY ScriptFacts DEF IntactInv, IInv, TypeOK
<1>4. connected /\ got \in Nat /\ got >= AnswerLength
  <2>1. ~listening /\ ~destroyed
    BY DEF PipeToLocal, Arrives, IntactInv, IInv, NoSocketLeaks
  <2>2. connected BY <2>1 DEF IntactInv, IInv, ListensForAnswer
  <2> QED BY <1>3, <2>2 DEF IntactInv, IInv, TypeOK, AnswerRead
<1>5. /\ connected' = connected /\ listening' = FALSE
      /\ local' = IF waiting THEN "connecting" ELSE local
      /\ toLocal' = IF local = "closed" THEN toLocal ELSE toLocal \o chunk
  BY DEF PipeToLocal, IntactInv, IInv, TypeOK
<1>6. CASE local = "closed"
  <2>1. local' = "closed" BY <1>5, <1>6 DEF IntactInv, IInv, WaitsForRequest
  <2> QED
    BY <1>1, <1>2, <1>4, <1>5, <1>6, <2>1
    DEF IntactInv, AnswerInOne, AnswerRead, RequestsIntact, AnswerLength
<1>7. CASE local # "closed"
  <2>1. toLocal = SubSeq(script, AnswerLength + 1, got) BY <1>4, <1>7 DEF IntactInv, RequestsIntact
  <2>2. /\ IsPrefix(SubSeq(script, AnswerLength + 1, n), SubSeq(script, AnswerLength + 1, Len(script)))
        /\ SubSeq(script, AnswerLength + 1, got) \o SubSeq(script, got + 1, n)
           = SubSeq(script, AnswerLength + 1, n)
    <3>1. got \in AnswerLength..Len(script) /\ n \in got..Len(script)
      BY <1>2, <1>3, <1>4 DEF AnswerLength
    <3> QED BY <1>3, <3>1, Further
  <2>3. toLocal' = SubSeq(script, AnswerLength + 1, n) BY <1>2, <1>5, <1>7, <2>1, <2>2
  <2>4. AnswerInOne' BY <1>5 DEF AnswerInOne
  <2>5. AnswerRead' BY <1>1, <1>2, <1>4 DEF AnswerRead, AnswerLength
  <2>6. RequestsIntact' BY <1>1, <1>2, <2>2, <2>3 DEF RequestsIntact
  <2> QED BY <2>4, <2>5, <2>6
<1> QED BY <1>6, <1>7

\* Without a cut in the terminator every step keeps the requests intact.
THEOREM NextIntact == ~Splits /\ IntactInv /\ [Next]_vars => IntactInv'
<1> SUFFICES ASSUME ~Splits, IntactInv, [Next]_vars
             PROVE  AnswerInOne' /\ AnswerRead' /\ RequestsIntact'
  BY NextIInv DEF IntactInv
<1>1. ASSUME NEW chunk \in Chunks, OnSocketData(chunk) PROVE AnswerInOne' /\ AnswerRead' /\ RequestsIntact'
  BY <1>1, OnSocketDataIntact
<1>2. ASSUME NEW chunk \in Chunks, PipeToLocal(chunk) PROVE AnswerInOne' /\ AnswerRead' /\ RequestsIntact'
  BY <1>2, PipeToLocalIntact
<1>3. CASE RvCloses \/ RvFails \/ LocalFails \/ OwnerDestroys \/ LocalResponds
  BY <1>3, QuietStep DEF RvCloses, RvFails, LocalFails, OwnerDestroys, LocalResponds, Destroy
<1>4. CASE RvConnects \/ RvEnds \/ LocalConnects \/ LocalEnds \/ LocalTimesOut \/ Report
  BY <1>4, QuietStep DEF RvConnects, RvEnds, LocalConnects, LocalEnds, LocalTimesOut, Report,
     IntactInv, IInv, WaitsForRequest
<1>5. CASE UNCHANGED vars \/ Finished BY <1>5, QuietStep DEF Finished, vars
<1> QED BY <1>1, <1>2, <1>3, <1>4, <1>5 DEF Next

\* What the local server gets is what the server sent after its answer, whole,
\* in order and once, however it was cut, unless the terminator was.
THEOREM RequestsArrive ==
  ASSUME ~Splits
  PROVE  Spec => []RequestsIntact
<1>1. Init => IntactInv BY InitIntact
<1>2. IntactInv /\ [Next]_vars => IntactInv' BY NextIntact
<1>3. IntactInv => RequestsIntact BY DEF IntactInv
<1> QED BY <1>1, <1>2, <1>3, PTL DEF Spec

-----------------------------------------------------------------------------
\* What the owner sees of a tunnel that is destroyed.
LEMMA DestroyIsClose ==
  ASSUME IInv, NEW err \in {"none", "network", "forbidden"}, Destroy(err),
         err = "forbidden" => ~connected, UNCHANGED <<connected, reported>>
  PROVE  Life!Close
<1>1. ~reported /\ ~reported' /\ ~destroyed /\ destroyed' /\ reason' = err
  BY DEF Destroy, IInv, ReportedOnce
<1> QED BY <1>1 DEF Life!Close, phaseSeen

\* And of a step that neither connects nor destroys it.
LEMMA UnseenStep ==
  ASSUME UNCHANGED <<connected, destroyed, reason, reported>>
  PROVE  UNCHANGED Life!vars
BY DEF Life!vars, phaseSeen

\* The answer connects a tunnel or closes it, or its owner sees nothing of it.
LEMMA OnSocketDataLives ==
  ASSUME IInv, NEW chunk, OnSocketData(chunk)
  PROVE  [Life!Next]_(Life!vars)
<1>1. ~connected /\ ~destroyed /\ ~reported /\ reported' = reported
  BY DEF OnSocketData, Arrives, IInv, ListensForAnswer, ReportedOnce
<1>2. CASE Destroy("network") /\ UNCHANGED <<connected, toLocal>>
  BY <1>1, <1>2, DestroyIsClose DEF Life!Next
<1>3. CASE Destroy("forbidden") /\ UNCHANGED <<connected, toLocal>>
  BY <1>1, <1>3, DestroyIsClose DEF Life!Next
<1>4. CASE UNCHANGED <<connected, destroyed, reason>>
  BY <1>1, <1>4, UnseenStep
<1>5. CASE connected' = TRUE /\ UNCHANGED <<destroyed, reason>>
  BY <1>1, <1>5 DEF Life!Next, Life!Connect, phaseSeen
<1> QED BY <1>2, <1>3, <1>4, <1>5 DEF OnSocketData

\* The initial states and each step of a tunnel are those of TunnelLife, and
\* most steps are none that its owner sees.
THEOREM LivesItsLife == Spec => LifeSpec
<1>1. Init => Life!Init BY DEF Init, Life!Init, phaseSeen
<1>2. IInv /\ [Next]_vars => [Life!Next]_(Life!vars)
  <2> SUFFICES ASSUME IInv, [Next]_vars PROVE [Life!Next]_(Life!vars) OBVIOUS
  <2>1. ASSUME NEW chunk \in Chunks, OnSocketData(chunk) PROVE [Life!Next]_(Life!vars)
    BY <2>1, OnSocketDataLives
  <2>2. ASSUME NEW chunk \in Chunks, PipeToLocal(chunk) PROVE [Life!Next]_(Life!vars)
    BY <2>2, UnseenStep DEF PipeToLocal, Arrives
  <2>3. CASE RvCloses \/ RvFails \/ LocalFails \/ OwnerDestroys
    BY <2>3, DestroyIsClose DEF RvCloses, RvFails, LocalFails, OwnerDestroys, Life!Next
  <2>4. CASE LocalResponds
    BY <2>4, DestroyIsClose, UnseenStep DEF LocalResponds, Life!Next
  <2>5. CASE RvConnects \/ RvEnds \/ LocalConnects \/ LocalEnds \/ LocalTimesOut
    BY <2>5, UnseenStep DEF RvConnects, RvEnds, LocalConnects, LocalEnds, LocalTimesOut
  <2>6. CASE Report BY <2>6 DEF Report, Life!Next, Life!Report, phaseSeen
  <2>7. CASE UNCHANGED vars \/ Finished BY <2>7, UnseenStep DEF Finished, vars
  <2> QED BY <2>1, <2>2, <2>3, <2>4, <2>5, <2>6, <2>7 DEF Next
<1> QED BY <1>1, <1>2, Invariance, PTL DEF Spec, LifeSpec, Life!Spec
=============================================================================
