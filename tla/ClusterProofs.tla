--------------------------- MODULE ClusterProofs ---------------------------
(***************************************************************************)
(* Safety of Cluster for every set of tunnels, every pool size, every      *)
(* retry budget and whatever the application does; that no tunnel is lost, *)
(* that each is treated as a TunnelLife, and that all are a TunnelPool.    *)
(***************************************************************************)
EXTENDS Cluster, FiniteSetTheorems, TLAPS

\* The inductive invariant, in named parts.  The theorems at the end only
\* read off what it implies.
HasFill(queue) == \E i \in DOMAIN queue : queue[i] = FillTick
FillPending == fillQueued => HasFill(ticks)
LiveAreListed == Live \subseteq Listed
NoStallYet == Alive /\ tunnels = <<>> => reconnectTimer = "armed" \/ fillQueued
OwnNothing == ~Alive => /\ idleTimer = "null"
                        /\ reconnectTimer = "null"
                        /\ connector = "null"

IInv ==
  /\ TypeOK
  /\ FillPending
  /\ LiveAreListed
  /\ Capacity
  /\ NoStallYet
  /\ ActiveHasIdleTimer
  /\ EstablishedMeansFullBudget
  /\ OwnNothing

USE MaxConnectionsAssumption, RetryCountAssumption, MaxErrorsAssumption

-----------------------------------------------------------------------------
\* ToSet and Reverse of SequencesExt, in the form the provers use.
LEMMA InToSet ==
  ASSUME NEW S, NEW s \in Seq(S), NEW i \in 1..Len(s)
  PROVE  s[i] \in ToSet(s)
BY DEF ToSet

\* The set of a concatenation.
LEMMA ToSetConcat ==
  ASSUME NEW S, NEW s \in Seq(S), NEW u \in Seq(S)
  PROVE  ToSet(s \o u) = ToSet(s) \cup ToSet(u)
<1>1. ASSUME NEW e \in ToSet(s \o u) PROVE e \in ToSet(s) \cup ToSet(u)
  <2>1. PICK i \in 1..Len(s \o u) : e = (s \o u)[i] BY <1>1 DEF ToSet
  <2>2. CASE i <= Len(s) BY <2>1, <2>2 DEF ToSet
  <2>3. CASE i > Len(s)
    <3>1. e = u[i - Len(s)] /\ i - Len(s) \in 1..Len(u) BY <2>1, <2>3
    <3> QED BY <3>1 DEF ToSet
  <2> QED BY <2>1, <2>2, <2>3
<1>2. ASSUME NEW e \in ToSet(s) PROVE e \in ToSet(s \o u)
  <2>1. PICK i \in 1..Len(s) : e = s[i] BY <1>2 DEF ToSet
  <2>2. e = (s \o u)[i] /\ i \in 1..Len(s \o u) BY <2>1
  <2> QED BY <2>2 DEF ToSet
<1>3. ASSUME NEW e \in ToSet(u) PROVE e \in ToSet(s \o u)
  <2>1. PICK i \in 1..Len(u) : e = u[i] BY <1>3 DEF ToSet
  <2>2. e = (s \o u)[Len(s) + i] /\ Len(s) + i \in 1..Len(s \o u) BY <2>1
  <2> QED BY <2>2 DEF ToSet
<1> QED BY <1>1, <1>2, <1>3

\* The set of a sequence that is not empty.
LEMMA ToSetHeadTail ==
  ASSUME NEW S, NEW s \in Seq(S), s # <<>>
  PROVE  /\ Head(s) \in S /\ Tail(s) \in Seq(S)
         /\ ToSet(s) = {Head(s)} \cup ToSet(Tail(s))
<1>1. Head(s) \in S /\ Tail(s) \in Seq(S) OBVIOUS
<1>2. ASSUME NEW e \in ToSet(s) PROVE e \in {Head(s)} \cup ToSet(Tail(s))
  <2>1. PICK i \in 1..Len(s) : e = s[i] BY <1>2 DEF ToSet
  <2>2. CASE i = 1 BY <2>1, <2>2
  <2>3. CASE i # 1
    <3>1. e = Tail(s)[i - 1] /\ i - 1 \in 1..Len(Tail(s)) BY <2>1, <2>3
    <3> QED BY <3>1, <1>1, InToSet
  <2> QED BY <2>2, <2>3
<1>3. Head(s) \in ToSet(s)
  <2>1. Head(s) = s[1] /\ 1 \in 1..Len(s) OBVIOUS
  <2> QED BY <2>1 DEF ToSet
<1>4. ASSUME NEW e \in ToSet(Tail(s)) PROVE e \in ToSet(s)
  <2>1. PICK i \in 1..Len(Tail(s)) : e = Tail(s)[i] BY <1>1, <1>4 DEF ToSet
  <2>2. e = s[i + 1] /\ i + 1 \in 1..Len(s) BY <2>1
  <2> QED BY <2>2 DEF ToSet
<1> QED BY <1>1, <1>2, <1>3, <1>4

\* Reversing keeps the type.
LEMMA ReverseType ==
  ASSUME NEW S, NEW s \in Seq(S)
  PROVE  Reverse(s) \in [1..Len(s) -> S]
BY DEF Reverse

\* The ticks a handler queues for the tunnels it pops are well formed.
LEMMA DestroyTicksType ==
  ASSUME NEW ts \in Seq(Tunnels)
  PROVE  DestroyTicks(ts) \in Seq(TickRecords)
<1>1. ASSUME NEW i \in 1..Len(ts) PROVE DestroyTick(Reverse(ts)[i], "none") \in TickRecords
  BY ReverseType DEF TickRecords, CloseReasons
<1>2. DestroyTicks(ts) \in [1..Len(ts) -> TickRecords] BY <1>1 DEF DestroyTicks
<1>3. Len(ts) \in Nat OBVIOUS
<1> QED BY <1>2, <1>3

\* Removing one tunnel keeps the others and adds none.
LEMMA RemoveFromArrayFact ==
  ASSUME NEW S, NEW s \in Seq(S), NEW e
  PROVE  /\ RemoveFromArray(s, e) \in Seq(S)
         /\ Len(RemoveFromArray(s, e)) <= Len(s)
         /\ ToSet(s) \ {e} \subseteq ToSet(RemoveFromArray(s, e))
<1>1. CASE e \notin ToSet(s) BY <1>1 DEF RemoveFromArray
<1>2. CASE e \in ToSet(s)
  <2> DEFINE i == CHOOSE ix \in DOMAIN s : s[ix] = e
  <2>1. \E ix \in DOMAIN s : s[ix] = e BY <1>2 DEF ToSet
  <2>2. i \in 1..Len(s) /\ s[i] = e BY <2>1
  <2>3. RemoveFromArray(s, e) = SubSeq(s, 1, i - 1) \o SubSeq(s, i + 1, Len(s))
    BY <1>2 DEF RemoveFromArray, RemoveAt
  <2> HIDE DEF i
  <2> DEFINE a == SubSeq(s, 1, i - 1)  b == SubSeq(s, i + 1, Len(s))
  <2>4. a \in Seq(S) /\ b \in Seq(S) /\ Len(a) = i - 1 /\ Len(b) = Len(s) - i
    BY <2>2
  <2>5. ASSUME NEW x \in ToSet(s) \ {e} PROVE x \in ToSet(a) \cup ToSet(b)
    <3>1. PICK k \in 1..Len(s) : x = s[k] BY DEF ToSet
    <3>2. CASE k < i
      <4>1. x = a[k] /\ k \in 1..Len(a) BY <3>1, <3>2, <2>2
      <4> HIDE DEF a
      <4> QED BY <4>1, <2>4, InToSet
    <3>3. CASE k > i
      <4>1. x = b[k - i] /\ k - i \in 1..Len(b) BY <3>1, <3>3, <2>2
      <4> HIDE DEF b
      <4> QED BY <4>1, <2>4, InToSet
    <3> QED BY <3>1, <3>2, <3>3, <2>2
  <2>6. ToSet(a \o b) = ToSet(a) \cup ToSet(b) BY <2>4, ToSetConcat
  <2> HIDE DEF a, b
  <2>7. RemoveFromArray(s, e) = a \o b BY <2>3 DEF a, b
  <2> QED BY <2>2, <2>4, <2>5, <2>6, <2>7
<1> QED BY <1>1, <1>2

-----------------------------------------------------------------------------
\* fill(): the flag is set and its tick is in the queue.
LEMMA FillFact ==
  ASSUME TypeOK, FillPending, NEW queue \in Seq(TickRecords), Fill(queue),
         fillQueued => HasFill(queue)
  PROVE  /\ fillQueued' = TRUE
         /\ ticks' \in Seq(TickRecords)
         /\ FillPending'
<1>1. FillTick \in TickRecords BY DEF TickRecords
<1>2. CASE fillQueued BY <1>2 DEF Fill, FillPending
<1>3. CASE ~fillQueued
  <2>1. ticks' = Append(queue, FillTick) BY <1>3 DEF Fill
  <2>2. Len(queue) + 1 \in DOMAIN ticks' /\ ticks'[Len(queue) + 1] = FillTick
    BY <2>1, <1>1
  <2> QED BY <1>1, <2>1, <2>2 DEF Fill, FillPending, HasFill
<1> QED BY <1>2, <1>3

\* Taking a tick that is not the fill leaves the fill in the queue.
LEMMA TailKeepsFill ==
  ASSUME TypeOK, FillPending, ticks # <<>>, Head(ticks) # FillTick
  PROVE  /\ Tail(ticks) \in Seq(TickRecords)
         /\ fillQueued => HasFill(Tail(ticks))
<1>1. ticks \in Seq(TickRecords) BY DEF TypeOK
<1>2. Tail(ticks) \in Seq(TickRecords) BY <1>1
<1>3. ASSUME fillQueued PROVE HasFill(Tail(ticks))
  <2>1. PICK i \in DOMAIN ticks : ticks[i] = FillTick BY <1>3 DEF FillPending, HasFill
  <2>2. i # 1 /\ i \in 1..Len(ticks) BY <1>1, <2>1
  <2>3. i - 1 \in DOMAIN Tail(ticks) /\ Tail(ticks)[i - 1] = FillTick BY <1>1, <2>1, <2>2
  <2> QED BY <2>3 DEF HasFill
<1> QED BY <1>2, <1>3

\* Popping gone from the list closes exactly gone and only adds to the queue.
LEMMA PopFact ==
  ASSUME NEW kept \in Seq(Tunnels), NEW gone \in Seq(Tunnels),
         NEW ph \in [Tunnels -> Phases], NEW queue \in Seq(TickRecords),
         PopTunnels(kept, gone, ph, queue)
  PROVE  /\ tunnels' = kept
         /\ phase' \in [Tunnels -> Phases]
         /\ \A t \in Tunnels : phase'[t] = IF t \in ToSet(gone) THEN "destroyed" ELSE ph[t]
         /\ ticks' \in Seq(TickRecords)
         /\ HasFill(queue) => HasFill(ticks')
<1>1. DestroyTicks(gone) \in Seq(TickRecords) BY DestroyTicksType
<1>2. ticks' = queue \o DestroyTicks(gone) BY DEF PopTunnels
<1>3. ticks' \in Seq(TickRecords) BY <1>1, <1>2
<1>4. ASSUME HasFill(queue) PROVE HasFill(ticks')
  <2> PICK i \in DOMAIN queue : queue[i] = FillTick BY <1>4 DEF HasFill
  <2>1. i \in DOMAIN ticks' /\ ticks'[i] = FillTick BY <1>1, <1>2
  <2> QED BY <2>1 DEF HasFill
<1>5. \A t \in Tunnels : phase'[t] = IF t \in ToSet(gone) THEN "destroyed" ELSE ph[t]
  BY DEF PopTunnels
<1>6. phase' \in [Tunnels -> Phases] BY DEF PopTunnels, Phases
<1> QED BY <1>3, <1>4, <1>5, <1>6 DEF PopTunnels

\* destroy() of a cluster whose live tunnels are all in ts establishes the
\* invariant, whatever the handler it is called from.
LEMMA DestroyFact ==
  ASSUME IInv, NEW ts \in Seq(Tunnels), NEW ph \in [Tunnels -> Phases],
         NEW queue \in Seq(TickRecords),
         DestroyCluster(ts, ph, queue),
         {t \in Tunnels : ph[t] \in {"connecting", "connected"}} \subseteq ToSet(ts),
         fillQueued' => HasFill(queue),
         fillQueued' \in BOOLEAN, attempts' \in 0..RetryCount, errors' \in 0..MaxErrors,
         hasUrl' \in BOOLEAN, callback' \in BOOLEAN, crashed' \in BOOLEAN
  PROVE  IInv'
<1>1. PopTunnels(<<>>, ts, ph, queue) BY DEF DestroyCluster
<1>2. <<>> \in Seq(Tunnels) OBVIOUS
<1>3. /\ tunnels' = <<>>
      /\ phase' \in [Tunnels -> Phases]
      /\ \A t \in Tunnels : phase'[t] = IF t \in ToSet(ts) THEN "destroyed" ELSE ph[t]
      /\ ticks' \in Seq(TickRecords)
      /\ HasFill(queue) => HasFill(ticks')
  BY <1>1, <1>2, PopFact
<1>9. FillPending' BY <1>3 DEF FillPending
<1>4. Live' = {} /\ Connected' = {} BY <1>3 DEF Live, Connected
<1>5. TypeOK' BY <1>3, <1>2 DEF TypeOK, DestroyCluster, Modes, TimerStates
<1>6. LiveAreListed' BY <1>4 DEF LiveAreListed
<1>7. Capacity' BY <1>3 DEF Capacity, DestroyCluster, Limit
<1>8. NoStallYet' /\ ActiveHasIdleTimer' /\ OwnNothing' /\ EstablishedMeansFullBudget'
  BY <1>4 DEF NoStallYet, ActiveHasIdleTimer, OwnNothing, EstablishedMeansFullBudget, Alive, DestroyCluster
<1> QED BY <1>5, <1>6, <1>7, <1>8, <1>9 DEF IInv

-----------------------------------------------------------------------------
\* The constructor establishes the invariant.
THEOREM InitIInv == Init => IInv
<1> SUFFICES ASSUME Init PROVE IInv OBVIOUS
<1>1. ticks \in Seq(TickRecords) /\ HasFill(ticks) BY DEF Init, TickRecords, HasFill
<1>2. TypeOK
  <2>1. phase \in [Tunnels -> Phases] BY DEF Init, Phases
  <2>2. connector \in {"running", "null"} BY DEF Init
  <2>3. tunnels \in Seq(Tunnels) /\ fillQueued \in BOOLEAN BY DEF Init
  <2>4. hasUrl \in BOOLEAN /\ callback \in BOOLEAN /\ crashed \in BOOLEAN BY Zenon DEF Init
  <2> QED BY <1>1, <2>1, <2>2, <2>3, <2>4 DEF Init, TypeOK, Modes, TimerStates
<1>3. Live = {} /\ Connected = {} BY DEF Init, Live, Connected
<1>4. Capacity BY DEF Init, Capacity, Limit
<1> QED
  BY <1>1, <1>2, <1>3, <1>4
  DEF Init, IInv, FillPending, LiveAreListed, NoStallYet, ActiveHasIdleTimer,
      EstablishedMeansFullBudget, OwnNothing, Alive

\* A cluster with a live tunnel is alive: a destroyed one lists nothing.
LEMMA LiveMeansAlive ==
  ASSUME IInv, NEW t \in Live
  PROVE  Alive /\ tunnels # <<>>
<1>1. t \in ToSet(tunnels) BY DEF IInv, LiveAreListed, Listed
<1>2. tunnels # <<>> BY <1>1 DEF ToSet
<1>3. Len(tunnels) > 0 BY <1>2 DEF IInv, TypeOK
<1>4. state # "destroyed" BY <1>3 DEF IInv, Capacity, Limit
<1> QED BY <1>2, <1>4 DEF Alive

\* When the event loop is idle, the invariant says no fill is due.
LEMMA EmptyQueue ==
  ASSUME IInv, LoopIdle
  PROVE  ticks = <<>> /\ ticks \in Seq(TickRecords) /\ ~fillQueued
BY DEF IInv, LoopIdle, FillPending, HasFill, TypeOK

\* _onTunnelConnect stops the retries, gives back the budget and asks for a
\* fill: the invariant is kept.
LEMMA ConnectedStep ==
  ASSUME IInv, NEW t \in Tunnels, TunnelConnected(t)
  PROVE  IInv'
<1> USE DEF IInv, TunnelConnected
<1>1. t \in Live BY DEF Live, Connected
<1>2. Alive /\ tunnels # <<>> BY <1>1, LiveMeansAlive
<1>3. fillQueued' = TRUE /\ ticks' \in Seq(TickRecords) /\ FillPending'
  BY EmptyQueue, FillFact
<1>4. TypeOK'
  <2>1. phase' \in [Tunnels -> Phases] BY DEF TypeOK, Phases
  <2>2. hasUrl' \in BOOLEAN /\ callback' \in BOOLEAN /\ crashed' \in BOOLEAN BY Zenon DEF TypeOK
  <2>3. fillQueued' \in BOOLEAN BY <1>3
  <2> QED BY <1>3, <2>1, <2>2, <2>3 DEF TypeOK, TimerStates, Stop
<1>5. Live' = Live BY DEF Live, TypeOK
<1>6. LiveAreListed' BY <1>5 DEF LiveAreListed, Listed
<1>7. Capacity' BY DEF Capacity
<1>8. NoStallYet' /\ ActiveHasIdleTimer' /\ EstablishedMeansFullBudget' /\ OwnNothing'
  BY <1>2, <1>3 DEF NoStallYet, ActiveHasIdleTimer, EstablishedMeansFullBudget, OwnNothing, Alive
<1> QED BY <1>3, <1>4, <1>6, <1>7, <1>8

\* destroy() called in the middle of _onTunnelConnect keeps it, though the
\* handler then throws.
LEMMA ConnectThenDestroysStep ==
  ASSUME IInv, NEW t \in Tunnels, ConnectThenDestroys(t)
  PROVE  IInv'
<1>1. {u \in Tunnels : phase[u] \in {"connecting", "connected"}} \subseteq ToSet(tunnels)
  BY DEF IInv, LiveAreListed, Live, Listed
<1> QED
  BY <1>1, EmptyQueue, DestroyFact DEF ConnectThenDestroys, IInv, TypeOK

\* _onTunnelActivity makes the cluster active and restarts its idle timer.
LEMMA ActivityStep ==
  ASSUME IInv, NEW t \in Tunnels, TunnelActivity(t)
  PROVE  IInv'
<1> USE DEF IInv, TunnelActivity
<1>1. t \in Live BY DEF Live
<1>2. Alive /\ tunnels # <<>> BY <1>1, LiveMeansAlive
<1>3. fillQueued' = TRUE /\ ticks' \in Seq(TickRecords) /\ FillPending'
  BY EmptyQueue, FillFact
<1>4. idleTimer' = "armed" BY DEF Restart, Start, Stop
<1>5. TypeOK' BY <1>3, <1>4 DEF TypeOK, Modes, TimerStates
<1>6. Live' = Live /\ Connected' = Connected BY DEF Live, Connected
<1>7. LiveAreListed' BY <1>6 DEF LiveAreListed, Listed
<1>8. Capacity'
  <2>1. Len(tunnels) \in Nat BY DEF TypeOK
  <2> QED BY <1>2, <2>1 DEF Capacity, Limit, TypeOK, Modes, Alive
<1>9. NoStallYet' /\ ActiveHasIdleTimer' /\ EstablishedMeansFullBudget' /\ OwnNothing'
  BY <1>2, <1>4, <1>6 DEF NoStallYet, ActiveHasIdleTimer, EstablishedMeansFullBudget, OwnNothing, Alive
<1> QED BY <1>3, <1>5, <1>7, <1>8, <1>9

\* A tunnel that closes stays in the list until it is reported.
LEMMA ClosesStep ==
  ASSUME IInv, NEW t \in Tunnels, NEW err \in CloseReasons, TunnelCloses(t, err)
  PROVE  IInv'
<1> USE DEF IInv, TunnelCloses
<1>1. ticks' = Append(ticks, DestroyTick(t, err)) /\ ~fillQueued' BY EmptyQueue
<1>2. DestroyTick(t, err) \in TickRecords BY DEF TickRecords
<1>3. TypeOK'
  <2>1. phase' \in [Tunnels -> Phases] BY DEF TypeOK, Phases
  <2>2. ticks' \in Seq(TickRecords) BY <1>1, <1>2 DEF TypeOK
  <2> QED BY <2>1, <2>2 DEF TypeOK, timers
<1>4. Live' \subseteq Live /\ Connected' \subseteq Connected BY DEF Live, Connected, TypeOK
<1>5. LiveAreListed' BY <1>4 DEF LiveAreListed, Listed
<1>6. Capacity' BY DEF Capacity
<1>7. NoStallYet' /\ ActiveHasIdleTimer' /\ EstablishedMeansFullBudget' /\ OwnNothing' /\ FillPending'
  BY <1>1, <1>4 DEF NoStallYet, ActiveHasIdleTimer, EstablishedMeansFullBudget, OwnNothing, Alive,
                    FillPending, timers
<1> QED BY <1>3, <1>5, <1>6, <1>7

\* _doFill never fills beyond the limit of the state it finds, which may not
\* be the state in which the fill was asked for.
LEMMA TickFillStep ==
  ASSUME IInv, TickFill
  PROVE  IInv'
<1> DEFINE missing == Limit[state] - Len(tunnels)
<1> USE DEF IInv
<1>1. tunnels \in Seq(Tunnels) /\ Len(tunnels) \in Nat /\ Limit[state] \in Nat
  BY DEF TypeOK, Limit, Modes
<1>2. fillQueued' = FALSE /\ Tail(ticks) \in Seq(TickRecords) BY DEF TickFill, TypeOK
<1>3. CASE /\ missing <= 0
           /\ ticks' = Tail(ticks)
           /\ UNCHANGED <<state, tunnels, phase, timers, connector>>
  <2>1. TypeOK' BY <1>2, <1>3 DEF TypeOK, TickFill, timers
  <2>2. Alive => tunnels # <<>> BY <1>1, <1>3 DEF Alive, Limit, TypeOK, Modes
  <2> QED
    BY <1>2, <1>3, <2>1, <2>2
    DEF FillPending, LiveAreListed, Live, Listed, Capacity, NoStallYet, ActiveHasIdleTimer,
        EstablishedMeansFullBudget, Connected, OwnNothing, Alive, TickFill, timers
<1>4. CASE /\ missing > 0
           /\ \E new \in [1..missing -> {t \in Tunnels : phase[t] = "free"}] :
                /\ IsInjective(new)
                /\ tunnels' = tunnels \o new
                /\ phase' = [t \in Tunnels |-> IF t \in ToSet(new) THEN "connecting" ELSE phase[t]]
           /\ ticks' = Tail(ticks)
           /\ UNCHANGED <<state, timers, connector>>
  <2>1. PICK new \in [1..missing -> {t \in Tunnels : phase[t] = "free"}] :
          /\ tunnels' = tunnels \o new
          /\ phase' = [t \in Tunnels |-> IF t \in ToSet(new) THEN "connecting" ELSE phase[t]]
    BY <1>4
  <2>2. missing \in Nat BY <1>1, <1>4
  <2>3. new \in Seq(Tunnels) /\ Len(new) = missing
    <3> HIDE DEF missing
    <3>1. new \in [1..missing -> Tunnels] BY <2>1
    <3> QED BY <2>2, <3>1
  <2>4. tunnels' \in Seq(Tunnels) /\ Len(tunnels') = Limit[state] /\ tunnels' # <<>>
    <3>1. tunnels' = tunnels \o new BY <2>1
    <3>2. tunnels \o new \in Seq(Tunnels) /\ Len(tunnels \o new) = Len(tunnels) + Len(new)
      BY <1>1, <2>3
    <3>3. Len(tunnels') = Limit[state] /\ Limit[state] > 0 BY <1>1, <1>4, <2>3, <3>1, <3>2
    <3>4. tunnels' # <<>> BY <3>3
    <3> QED BY <3>1, <3>2, <3>3, <3>4
  <2>5. ToSet(tunnels') = ToSet(tunnels) \cup ToSet(new) BY <1>1, <2>1, <2>3, ToSetConcat
  <2>6. phase' \in [Tunnels -> Phases] BY <2>1 DEF TypeOK, Phases
  <2>7. Live' \subseteq Live \cup ToSet(new) /\ Connected' \subseteq Connected
    BY <2>1 DEF Live, Connected, TypeOK
  <2>8. TypeOK' BY <1>2, <1>4, <2>4, <2>6 DEF TypeOK, TickFill, timers
  <2>9. LiveAreListed' BY <2>5, <2>7 DEF LiveAreListed, Listed
  <2>10. Capacity' BY <1>1, <1>4, <2>4 DEF Capacity
  <2> QED
    BY <1>2, <1>4, <2>4, <2>7, <2>8, <2>9, <2>10
    DEF FillPending, NoStallYet, ActiveHasIdleTimer, EstablishedMeansFullBudget, OwnNothing,
        Alive, TickFill, timers
<1>5. CASE missing > 0 /\ DestroyCluster(tunnels, phase, Tail(ticks))
  <2>1. {t \in Tunnels : phase[t] \in {"connecting", "connected"}} \subseteq ToSet(tunnels)
    BY DEF LiveAreListed, Live, Listed
  <2> QED BY <1>2, <1>5, <2>1, DestroyFact DEF TickFill, TypeOK
<1> QED BY <1>3, <1>4, <1>5 DEF TickFill

\* _onTunnelDestroy leaves a fill queued, a retry timer running or a cluster
\* that is destroyed, so an empty list does not stall.
LEMMA TickDestroyStep ==
  ASSUME IInv, TickDestroy
  PROVE  IInv'
<1> DEFINE t == Head(ticks).tunnel
           err == Head(ticks).err
           left == RemoveFromArray(tunnels, t)
           freed == [phase EXCEPT ![t] = "free"]
<1> USE DEF IInv
<1>1. /\ Head(ticks) \in TickRecords
      /\ Head(ticks) # FillTick
  BY DEF TickDestroy, TypeOK, FillTick
<1>2. t \in Tunnels /\ err \in CloseReasons
  BY <1>1 DEF TickRecords, DestroyTick
<1>3. /\ Tail(ticks) \in Seq(TickRecords)
      /\ fillQueued => HasFill(Tail(ticks))
  BY <1>1, TailKeepsFill DEF TickDestroy
<1>4. /\ left \in Seq(Tunnels) /\ Len(left) <= Len(tunnels)
      /\ Listed \ {t} \subseteq ToSet(left)
  BY RemoveFromArrayFact DEF TypeOK, Listed
<1>5. /\ freed \in [Tunnels -> Phases]
      /\ \A u \in Tunnels : freed[u] = IF u = t THEN "free" ELSE phase[u]
  BY <1>2 DEF TypeOK, Phases
<1>6. {u \in Tunnels : freed[u] \in {"connecting", "connected"}} \subseteq ToSet(left)
  BY <1>4, <1>5 DEF LiveAreListed, Live
<1> HIDE DEF t, err, left, freed
<1>7. ASSUME tunnels' = left, phase' = freed, state' = state
      PROVE  LiveAreListed' /\ Capacity' /\ Connected' \subseteq Connected
  <2>1. LiveAreListed' BY <1>6, <1>7 DEF LiveAreListed, Live, Listed
  <2>2. Connected' \subseteq Connected BY <1>5, <1>7 DEF Connected
  <2>3. Len(left) \in Nat /\ Len(tunnels) \in Nat /\ Limit[state] \in Nat
    BY <1>4 DEF TypeOK, Limit, Modes
  <2>4. Capacity' BY <1>4, <1>7, <2>3 DEF Capacity
  <2> QED BY <2>1, <2>2, <2>4
<1>8. CASE /\ tunnels' = left
           /\ phase' = freed
           /\ Fill(Tail(ticks))
           /\ UNCHANGED <<state, timers, errors, connector>>
  <2>1. fillQueued' = TRUE /\ ticks' \in Seq(TickRecords) /\ FillPending'
    BY <1>3, <1>8, FillFact
  <2>2. TypeOK' BY <1>4, <1>5, <1>8, <2>1 DEF TypeOK, TickDestroy, timers
  <2> QED
    BY <1>7, <1>8, <2>1, <2>2
    DEF NoStallYet, ActiveHasIdleTimer, EstablishedMeansFullBudget, OwnNothing, Alive,
        TickDestroy, timers
<1>9. CASE /\ errors' = IF errors < MaxErrors THEN errors + 1 ELSE errors
           /\ UNCHANGED fillQueued
           /\ DestroyCluster(left, freed, Tail(ticks))
  <2>1. errors' \in 0..MaxErrors BY <1>9 DEF TypeOK
  <2> QED BY <1>3, <1>4, <1>5, <1>6, <1>9, <2>1, DestroyFact DEF TickDestroy, TypeOK
<1>10. CASE /\ errors' = IF errors < MaxErrors THEN errors + 1 ELSE errors
            /\ UNCHANGED fillQueued
            /\ tunnels' = left
            /\ phase' = freed
            /\ ticks' = Tail(ticks)
            /\ reconnectTimer' = IF Alive THEN Restart(reconnectTimer) ELSE reconnectTimer
            /\ UNCHANGED <<state, idleTimer, connector>>
  <2>1. errors' \in 0..MaxErrors BY <1>10 DEF TypeOK
  <2>2. Alive => reconnectTimer' = "armed" BY <1>10 DEF Restart, Start, Stop
  <2>3. TypeOK' BY <1>3, <1>4, <1>5, <1>10, <2>1, <2>2 DEF TypeOK, TickDestroy, TimerStates
  <2> QED
    BY <1>3, <1>7, <1>10, <2>2, <2>3
    DEF FillPending, NoStallYet, ActiveHasIdleTimer, EstablishedMeansFullBudget, OwnNothing,
        Alive, TickDestroy
<1> QED BY <1>8, <1>9, <1>10 DEF TickDestroy, t, err, left, freed

\* The idle timer leaves idle a cluster that has one tunnel at most.
LEMMA IdleTimerStep ==
  ASSUME IInv, IdleTimerFires
  PROVE  IInv'
<1> USE DEF IInv
<1>1. ticks = <<>> /\ ticks \in Seq(TickRecords) /\ ~fillQueued /\ fillQueued' = fillQueued
  BY EmptyQueue DEF IdleTimerFires
<1>2. Alive BY DEF IdleTimerFires, OwnNothing
<1>3. CASE UNCHANGED <<tunnels, phase, ticks>> /\ (state = "active" => tunnels = <<>> /\ state' = "idle")
           /\ (state # "active" => state' = state)
  <2>1. Live' = Live /\ Connected' = Connected BY <1>3 DEF Live, Connected
  <2>2. state' \in Modes /\ state' # "active" /\ state' # "destroyed" /\ Capacity'
    <3>1. Len(<<>>) = 0 OBVIOUS
    <3> QED BY <1>2, <1>3, <3>1 DEF Capacity, Limit, Alive, TypeOK, Modes
  <2>3. TypeOK' BY <1>1, <1>3, <2>2 DEF TypeOK, TimerStates, IdleTimerFires
  <2> QED
    BY <1>1, <1>2, <1>3, <2>1, <2>2, <2>3
    DEF FillPending, LiveAreListed, Listed, NoStallYet, ActiveHasIdleTimer,
        EstablishedMeansFullBudget, OwnNothing, Alive, IdleTimerFires
<1>4. CASE /\ state = "active"
           /\ state' = "idle"
           /\ tunnels # <<>>
           /\ PopTunnels(<<Head(tunnels)>>, Tail(tunnels), phase, ticks)
  <2>1. /\ Head(tunnels) \in Tunnels /\ Tail(tunnels) \in Seq(Tunnels)
        /\ ToSet(tunnels) = {Head(tunnels)} \cup ToSet(Tail(tunnels))
    BY <1>4, ToSetHeadTail DEF TypeOK
  <2>2. <<Head(tunnels)>> \in Seq(Tunnels) /\ phase \in [Tunnels -> Phases] BY <2>1 DEF TypeOK
  <2>3. /\ tunnels' = <<Head(tunnels)>>
        /\ phase' \in [Tunnels -> Phases]
        /\ \A t \in Tunnels : phase'[t] = IF t \in ToSet(Tail(tunnels)) THEN "destroyed" ELSE phase[t]
        /\ ticks' \in Seq(TickRecords)
    BY <1>1, <1>4, <2>1, <2>2, PopFact
  <2>4. LiveAreListed' /\ Connected' \subseteq Connected
    <3>1. ToSet(tunnels') = {Head(tunnels)} BY <2>3 DEF ToSet
    <3> QED BY <2>1, <2>3, <3>1 DEF LiveAreListed, Live, Listed, Connected
  <2>5. Capacity' BY <1>4, <2>3 DEF Capacity, Limit
  <2>6. TypeOK' BY <1>1, <1>4, <2>2, <2>3 DEF TypeOK, Modes, TimerStates, IdleTimerFires
  <2> QED
    BY <1>1, <1>2, <1>4, <2>3, <2>4, <2>5, <2>6
    DEF FillPending, NoStallYet, ActiveHasIdleTimer, EstablishedMeansFullBudget, OwnNothing,
        Alive, IdleTimerFires
<1> QED BY <1>3, <1>4 DEF IdleTimerFires

\* The retry timer fires with no tunnel listed only to retry or to give up.
LEMMA ReconnectTimerStep ==
  ASSUME IInv, ReconnectTimerFires
  PROVE  IInv'
<1> USE DEF IInv
<1>1. ticks = <<>> /\ ticks \in Seq(TickRecords) /\ ~fillQueued
  BY EmptyQueue DEF ReconnectTimerFires
<1>2. Alive BY DEF ReconnectTimerFires, OwnNothing
<1>3. CASE /\ tunnels # <<>>
           /\ reconnectTimer' = "fired"
           /\ UNCHANGED <<state, tunnels, phase, ticks, fillQueued, idleTimer, attempts, connector>>
  <2>1. TypeOK' BY <1>3 DEF TypeOK, TimerStates, ReconnectTimerFires
  <2>2. Live' = Live /\ Connected' = Connected BY <1>3 DEF Live, Connected
  <2> QED
    BY <1>1, <1>2, <1>3, <2>1, <2>2
    DEF FillPending, LiveAreListed, Listed, Capacity, NoStallYet, ActiveHasIdleTimer,
        EstablishedMeansFullBudget, OwnNothing, Alive
<1>4. CASE /\ DestroyCluster(tunnels, phase, ticks)
           /\ UNCHANGED <<fillQueued, attempts>>
  <2>1. {t \in Tunnels : phase[t] \in {"connecting", "connected"}} \subseteq ToSet(tunnels)
    BY DEF LiveAreListed, Live, Listed
  <2> QED BY <1>1, <1>4, <2>1, DestroyFact DEF ReconnectTimerFires, TypeOK
<1>5. CASE /\ tunnels = <<>>
           /\ attempts < RetryCount
           /\ reconnectTimer' = "fired"
           /\ attempts' = attempts + 1
           /\ state' = "idle"
           /\ idleTimer' = Restart(idleTimer)
           /\ Fill(ticks)
           /\ UNCHANGED <<tunnels, phase, connector>>
  <2>1. fillQueued' = TRUE /\ ticks' \in Seq(TickRecords) /\ FillPending'
    BY <1>1, <1>5, FillFact
  <2>2. TypeOK'
    <3>1. idleTimer' = "armed" BY <1>5 DEF Restart, Start, Stop
    <3>2. attempts' \in 0..RetryCount BY <1>5 DEF TypeOK
    <3> QED BY <1>5, <2>1, <3>1, <3>2 DEF TypeOK, Modes, TimerStates, ReconnectTimerFires
  <2>3. Live = {} BY <1>5, LiveMeansAlive
  <2>4. Live' = {} /\ Connected' = {} BY <1>5, <2>3 DEF Live, Connected
  <2>5. Capacity' BY <1>5 DEF Capacity, Limit
  <2> QED
    BY <1>5, <2>1, <2>2, <2>4, <2>5
    DEF LiveAreListed, NoStallYet, ActiveHasIdleTimer, EstablishedMeansFullBudget, OwnNothing, Alive
<1> QED BY <1>3, <1>4, <1>5 DEF ReconnectTimerFires

\* destroy() called by a 'state' listener in the middle of a retry keeps it.
LEMMA RetryThenDestroysStep ==
  ASSUME IInv, RetryThenDestroys
  PROVE  IInv'
<1>1. {t \in Tunnels : phase[t] \in {"connecting", "connected"}} \subseteq ToSet(tunnels)
  BY DEF IInv, LiveAreListed, Live, Listed
<1>2. attempts' \in 0..RetryCount BY DEF IInv, TypeOK, RetryThenDestroys
<1> QED
  BY <1>1, <1>2, EmptyQueue, DestroyFact DEF RetryThenDestroys, IInv, TypeOK

\* destroy() called by the application keeps the invariant.
LEMMA UserDestroyStep ==
  ASSUME IInv, UserDestroy
  PROVE  IInv'
<1>1. {t \in Tunnels : phase[t] \in {"connecting", "connected"}} \subseteq ToSet(tunnels)
  BY DEF IInv, LiveAreListed, Live, Listed
<1> QED BY <1>1, DestroyFact DEF UserDestroy, IInv, TypeOK, FillPending

\* fill() called by the application keeps it, also on a destroyed cluster.
LEMMA UserFillStep ==
  ASSUME IInv, UserFill
  PROVE  IInv'
<1> USE DEF IInv, UserFill
<1>1. fillQueued' = TRUE /\ ticks' \in Seq(TickRecords) /\ FillPending'
  <2>1. ticks \in Seq(TickRecords) /\ (fillQueued => HasFill(ticks)) BY DEF TypeOK, FillPending
  <2> QED BY <2>1, FillFact
<1>2. TypeOK' BY <1>1 DEF TypeOK, timers
<1>3. Live' = Live /\ Connected' = Connected BY DEF Live, Connected
<1> QED
  BY <1>1, <1>2, <1>3
  DEF LiveAreListed, Listed, Capacity, NoStallYet, ActiveHasIdleTimer,
      EstablishedMeansFullBudget, OwnNothing, Alive, timers

\* A step that changes nothing keeps it.
LEMMA StutterStep ==
  ASSUME IInv, UNCHANGED vars
  PROVE  IInv'
BY DEF vars, timers, IInv, TypeOK, FillPending, HasFill, LiveAreListed, Live, Listed, Capacity, NoStallYet,
       ActiveHasIdleTimer, EstablishedMeansFullBudget, Connected, OwnNothing, Alive

\* Every step keeps the invariant.
THEOREM NextIInv == IInv /\ [Next]_vars => IInv'
<1> SUFFICES ASSUME IInv, [Next]_vars PROVE IInv' OBVIOUS
<1>1. CASE TickFill BY <1>1, TickFillStep
<1>2. CASE TickDestroy BY <1>2, TickDestroyStep
<1>3. CASE IdleTimerFires BY <1>3, IdleTimerStep
<1>4. CASE ReconnectTimerFires BY <1>4, ReconnectTimerStep
<1>5. CASE RetryThenDestroys BY <1>5, RetryThenDestroysStep
<1>6. ASSUME NEW t \in Tunnels, Resolves(t) PROVE IInv'
  BY <1>6, ConnectedStep, ConnectThenDestroysStep, ClosesStep DEF Resolves
<1>7. ASSUME NEW t \in Tunnels, TunnelActivity(t) PROVE IInv'
  BY <1>7, ActivityStep
<1>8. CASE UserDestroy BY <1>8, UserDestroyStep
<1>9. CASE UserFill BY <1>9, UserFillStep
<1>10. CASE UNCHANGED vars \/ Stopped BY <1>10, StutterStep DEF Stopped
<1> QED
  BY <1>1, <1>2, <1>3, <1>4, <1>5, <1>6, <1>7, <1>8, <1>9, <1>10 DEF Next, Tick, Timer

\* The invariant holds in every state of every run, for all constants.
THEOREM Invariance == Spec => []IInv
BY InitIInv, NextIInv, PTL DEF Spec

\* Every variable keeps to its type: no timer, tunnel or tick is ever of a
\* kind the handlers do not know.
THEOREM TypeCorrect == Spec => []TypeOK
<1>1. IInv => TypeOK BY DEF IInv
<1> QED BY <1>1, Invariance, PTL

\* The list is never longer than the state of the cluster allows.
THEOREM CapacityHolds == Spec => []Capacity
<1>1. IInv => Capacity BY DEF IInv
<1> QED BY <1>1, Invariance, PTL

\* A living cluster that has nothing to do and no tunnel has its retry timer
\* running.
THEOREM NeverStalls == Spec => []NoStall
<1>1. IInv => NoStall BY EmptyQueue DEF IInv, NoStallYet, NoStall
<1> QED BY <1>1, Invariance, PTL

\* An active cluster has its idle timer running.
THEOREM ActiveIsTimed == Spec => []ActiveHasIdleTimer
<1>1. IInv => ActiveHasIdleTimer BY DEF IInv
<1> QED BY <1>1, Invariance, PTL

\* While a tunnel is established no retry is used up.
THEOREM BudgetIsWhole == Spec => []EstablishedMeansFullBudget
<1>1. IInv => EstablishedMeansFullBudget BY DEF IInv
<1> QED BY <1>1, Invariance, PTL

\* A destroyed cluster holds no socket, timer or connector, also when destroy()
\* was called by a listener in the middle of a handler.
THEOREM DestroyReleases == Spec => []DestroyedReleasesAll
<1>1. ASSUME IInv, ~Alive PROVE tunnels = <<>>
  <2>1. Len(tunnels) \in Nat /\ Len(tunnels) <= 0
    BY <1>1 DEF IInv, Capacity, Limit, Alive, TypeOK
  <2> QED BY <1>1, <2>1 DEF IInv, TypeOK
<1>2. IInv => DestroyedReleasesAll
  <2> SUFFICES ASSUME IInv, ~Alive PROVE DestroyedReleasesAll BY DEF DestroyedReleasesAll
  <2>1. Live = {} BY LiveMeansAlive
  <2> QED BY <1>1, <2>1 DEF DestroyedReleasesAll, IInv, OwnNothing, timers
<1> QED BY <1>2, Invariance, PTL

-----------------------------------------------------------------------------
\* That Cluster loses no tunnel, treats each as a TunnelLife and is a
\* TunnelPool.

\* Tunnel t is to be reported with err by one of the ticks of a queue.
Reported(queue, t, err) == \E i \in DOMAIN queue : queue[i] = DestroyTick(t, err)
OnceEach(queue) ==
  \A t \in Tunnels : \A e, f \in CloseReasons : \A i, j \in DOMAIN queue :
    queue[i] = DestroyTick(t, e) /\ queue[j] = DestroyTick(t, f) => i = j

\* What the invariant above says nothing of, in named parts: the
\* tunnels that were destroyed and the ticks of the queue that report them.  A
\* tunnel that is destroyed and still listed is the only one: nothing runs
\* before its report, so no fill counts it.
DestroyedReported ==
  \A t \in Tunnels : phase[t] = "destroyed" <=> \E e \in CloseReasons : Reported(ticks, t, e)
ListedReportedFirst ==
  \A t \in Listed : phase[t] = "destroyed" => \E e \in CloseReasons : ticks = <<DestroyTick(t, e)>>
ListedNotFree == \A t \in Listed : phase[t] # "free"

Tracked ==
  /\ IsInjective(tunnels)
  /\ OnceEach(ticks)
  /\ DestroyedReported
  /\ ListedReportedFirst
  /\ ListedNotFree

\* What a step may do to a tunnel, in terms of the ticks that report it.
Moved(t) ==
  \/ /\ phase'[t] = phase[t]
     /\ \A e \in CloseReasons : Reported(ticks, t, e) => Reported(ticks', t, e)
  \/ phase[t] = "free" /\ phase'[t] = "connecting"
  \/ phase[t] = "connecting" /\ phase'[t] = "connected"
  \/ /\ phase[t] \in {"connecting", "connected"} /\ phase'[t] = "destroyed"
     /\ \E e \in {"none", "network"} \cup IF phase[t] = "connecting" THEN {"forbidden"} ELSE {} :
          Reported(ticks', t, e)
  \/ phase[t] = "destroyed" /\ phase'[t] = "free"
AllMoved == \A t \in Tunnels : Moved(t)

LInv == IInv /\ Tracked

-----------------------------------------------------------------------------
\* Ticks differ by what they do, the tunnel and the error.
LEMMA TickFacts ==
  /\ \A t \in Tunnels, e \in CloseReasons : DestroyTick(t, e) \in TickRecords /\ DestroyTick(t, e) # FillTick
  /\ \A t, u, e, f : DestroyTick(t, e) = DestroyTick(u, f) => t = u /\ e = f
  /\ \A r \in TickRecords : r # FillTick => \E t \in Tunnels, e \in CloseReasons : r = DestroyTick(t, e)
  /\ FillTick \in TickRecords
<1>1. \A t \in Tunnels, e \in CloseReasons : DestroyTick(t, e) \in TickRecords BY DEF TickRecords
<1>2. \A t, e : DestroyTick(t, e) # FillTick BY DEF DestroyTick, FillTick
<1>3. ASSUME NEW t, NEW u, NEW e, NEW f, DestroyTick(t, e) = DestroyTick(u, f) PROVE t = u /\ e = f
  <2>1. DestroyTick(t, e).tunnel = t /\ DestroyTick(t, e).err = e BY DEF DestroyTick
  <2>2. DestroyTick(u, f).tunnel = u /\ DestroyTick(u, f).err = f BY DEF DestroyTick
  <2> QED BY <1>3, <2>1, <2>2
<1>4. \A r \in TickRecords : r # FillTick => \E t \in Tunnels, e \in CloseReasons : r = DestroyTick(t, e)
  BY DEF TickRecords
<1>5. FillTick \in TickRecords BY DEF TickRecords
<1> QED BY <1>1, <1>2, <1>3, <1>4, <1>5

\* fill() appends a tick that reports nothing.
LEMMA FillReports ==
  ASSUME NEW queue \in Seq(TickRecords), OnceEach(queue), Fill(queue)
  PROVE  /\ ticks' \in Seq(TickRecords) /\ OnceEach(ticks')
         /\ \A t \in Tunnels, e \in CloseReasons : Reported(ticks', t, e) <=> Reported(queue, t, e)
<1>1. CASE fillQueued BY <1>1 DEF Fill
<1>2. CASE ~fillQueued
  <2>1. ticks' = Append(queue, FillTick) BY <1>2 DEF Fill
  <2>2. PICK l \in Nat : l = Len(queue) OBVIOUS
  <2>3. /\ DOMAIN queue = 1..l /\ DOMAIN ticks' = 1..(l + 1)
        /\ ticks'[l + 1] = FillTick /\ \A i \in 1..l : ticks'[i] = queue[i]
        /\ ticks' \in Seq(TickRecords)
    BY <2>1, <2>2, TickFacts
  <2>4. \A t \in Tunnels, e \in CloseReasons : \A i \in 1..(l + 1) :
          ticks'[i] = DestroyTick(t, e) => i \in 1..l /\ queue[i] = DestroyTick(t, e)
    <3> SUFFICES ASSUME NEW t \in Tunnels, NEW e \in CloseReasons, NEW i \in 1..(l + 1),
                        ticks'[i] = DestroyTick(t, e)
                 PROVE  i \in 1..l /\ queue[i] = DestroyTick(t, e)
      OBVIOUS
    <3>1. i # l + 1 BY <2>3, TickFacts
    <3>2. i \in 1..l BY <3>1
    <3> QED BY <2>3, <3>2
  <2>5. OnceEach(ticks') BY <2>3, <2>4 DEF OnceEach
  <2>6. ASSUME NEW t \in Tunnels, NEW e \in CloseReasons
        PROVE  Reported(ticks', t, e) <=> Reported(queue, t, e)
    <3>1. ASSUME Reported(ticks', t, e) PROVE Reported(queue, t, e)
      BY <2>3, <2>4, <3>1 DEF Reported
    <3>2. ASSUME NEW i \in 1..l, queue[i] = DestroyTick(t, e) PROVE Reported(ticks', t, e)
      BY <2>3, <3>2, i \in 1..(l + 1) DEF Reported
    <3> QED BY <2>3, <3>1, <3>2 DEF Reported
  <2> QED BY <2>3, <2>5, <2>6
<1> QED BY <1>1, <1>2

\* Taking the first tick takes the reports of its tunnel.
LEMMA TailReports ==
  ASSUME NEW queue \in Seq(TickRecords), OnceEach(queue), queue # <<>>
  PROVE  /\ Tail(queue) \in Seq(TickRecords) /\ OnceEach(Tail(queue))
         /\ \A t \in Tunnels, e \in CloseReasons :
              Reported(Tail(queue), t, e) <=>
                Reported(queue, t, e) /\ \A f \in CloseReasons : Head(queue) # DestroyTick(t, f)
<1>1. PICK l \in Nat \ {0} : l = Len(queue) OBVIOUS
<1>2. /\ DOMAIN queue = 1..l /\ DOMAIN Tail(queue) = 1..(l - 1) /\ Head(queue) = queue[1]
      /\ \A i \in 1..(l - 1) : i + 1 \in 1..l /\ Tail(queue)[i] = queue[i + 1]
      /\ Tail(queue) \in Seq(TickRecords)
  BY <1>1
<1>3. \A i \in 2..l : i - 1 \in 1..(l - 1) /\ Tail(queue)[i - 1] = queue[i] BY <1>2
<1>4. OnceEach(Tail(queue))
  <2> SUFFICES ASSUME NEW t \in Tunnels, NEW e \in CloseReasons, NEW f \in CloseReasons,
                      NEW i \in 1..(l - 1), NEW j \in 1..(l - 1),
                      Tail(queue)[i] = DestroyTick(t, e), Tail(queue)[j] = DestroyTick(t, f)
               PROVE  i = j
    BY <1>2 DEF OnceEach
  <2>1. i + 1 = j + 1 BY <1>2 DEF OnceEach
  <2> QED BY <2>1
<1>5. ASSUME NEW t \in Tunnels, NEW e \in CloseReasons, Reported(Tail(queue), t, e)
      PROVE  Reported(queue, t, e) /\ \A f \in CloseReasons : Head(queue) # DestroyTick(t, f)
  <2>1. PICK i \in 1..(l - 1) : Tail(queue)[i] = DestroyTick(t, e) BY <1>2, <1>5 DEF Reported
  <2>2. i + 1 \in 1..l /\ queue[i + 1] = DestroyTick(t, e) BY <1>2, <2>1
  <2>3. Reported(queue, t, e) BY <1>2, <2>2 DEF Reported
  <2>4. ASSUME NEW f \in CloseReasons, Head(queue) = DestroyTick(t, f) PROVE FALSE
    <3>1. i + 1 = 1 BY <1>2, <2>2, <2>4 DEF OnceEach
    <3> QED BY <3>1
  <2> QED BY <2>3, <2>4
<1>6. ASSUME NEW t \in Tunnels, NEW e \in CloseReasons, Reported(queue, t, e),
             \A f \in CloseReasons : Head(queue) # DestroyTick(t, f)
      PROVE  Reported(Tail(queue), t, e)
  <2>1. PICK i \in 1..l : queue[i] = DestroyTick(t, e) BY <1>2, <1>6 DEF Reported
  <2>2. i # 1 BY <1>2, <1>6, <2>1
  <2>3. i \in 2..l BY <2>2
  <2>4. i - 1 \in 1..(l - 1) /\ Tail(queue)[i - 1] = DestroyTick(t, e) BY <1>3, <2>1, <2>3
  <2> QED BY <1>2, <2>4 DEF Reported
<1> QED BY <1>2, <1>4, <1>5, <1>6

\* Popping reports each tunnel that is popped once more, without an error.
LEMMA DestroyTicksReports ==
  ASSUME NEW queue \in Seq(TickRecords), OnceEach(queue),
         NEW gone \in Seq(Tunnels), IsInjective(gone),
         \A t \in ToSet(gone), e \in CloseReasons : ~Reported(queue, t, e)
  PROVE  /\ queue \o DestroyTicks(gone) \in Seq(TickRecords)
         /\ OnceEach(queue \o DestroyTicks(gone))
         /\ \A t \in Tunnels, e \in CloseReasons :
              Reported(queue \o DestroyTicks(gone), t, e) <=>
                Reported(queue, t, e) \/ (t \in ToSet(gone) /\ e = "none")
<1>1. PICK l \in Nat, n \in Nat : l = Len(queue) /\ n = Len(gone) OBVIOUS
<1> DEFINE all == queue \o DestroyTicks(gone)
<1>2. DestroyTicks(gone) \in Seq(TickRecords) /\ Len(DestroyTicks(gone)) = n
  BY <1>1, DestroyTicksType DEF DestroyTicks
<1>3. \A i \in 1..n : /\ n - i + 1 \in 1..n /\ gone[n - i + 1] \in Tunnels
                      /\ DestroyTicks(gone)[i] = DestroyTick(gone[n - i + 1], "none")
  BY <1>1 DEF DestroyTicks, Reverse
<1>4. /\ all \in Seq(TickRecords) /\ DOMAIN all = 1..(l + n) /\ DOMAIN queue = 1..l
      /\ \A i \in 1..l : i \in 1..(l + n) /\ all[i] = queue[i]
  BY <1>1, <1>2
<1>5. \A i \in 1..n : l + i \in 1..(l + n) /\ all[l + i] = DestroyTick(gone[n - i + 1], "none")
  BY <1>1, <1>2, <1>3
<1>6. \A i \in 1..(l + n) : i \in 1..l \/ (i - l \in 1..n /\ i = l + (i - l)) OBVIOUS
<1>7. "none" \in CloseReasons BY DEF CloseReasons
<1>8. DOMAIN gone = 1..n /\ \A i \in 1..n : gone[i] \in ToSet(gone) BY <1>1 DEF ToSet
<1> HIDE DEF all
<1>9. ASSUME NEW t \in Tunnels, NEW e \in CloseReasons, NEW i \in 1..(l + n), all[i] = DestroyTick(t, e)
      PROVE  \/ i \in 1..l /\ queue[i] = DestroyTick(t, e)
             \/ /\ i - l \in 1..n /\ n - (i - l) + 1 \in 1..n
                /\ gone[n - (i - l) + 1] = t /\ t \in ToSet(gone) /\ e = "none"
  <2>1. CASE i \in 1..l BY <1>4, <1>9, <2>1
  <2>2. CASE i - l \in 1..n
    <3>1. PICK k \in 1..n : k = i - l /\ i = l + k BY <1>6, <2>2
    <3>2. all[i] = DestroyTick(gone[n - k + 1], "none") /\ n - k + 1 \in 1..n BY <1>3, <1>5, <3>1
    <3>3. gone[n - k + 1] = t /\ e = "none"
      <4>1. DestroyTick(gone[n - k + 1], "none") = DestroyTick(t, e) BY <1>9, <3>2
      <4> QED BY <4>1, TickFacts
    <3> QED BY <1>8, <2>2, <3>1, <3>2, <3>3
  <2> QED BY <1>6, <2>1, <2>2
<1>10. ASSUME NEW t \in Tunnels, NEW e \in CloseReasons, Reported(all, t, e)
       PROVE  Reported(queue, t, e) \/ (t \in ToSet(gone) /\ e = "none")
  <2>1. PICK i \in 1..(l + n) : all[i] = DestroyTick(t, e) BY <1>4, <1>10 DEF Reported
  <2> QED BY <1>4, <1>9, <2>1 DEF Reported
<1>11. ASSUME NEW t \in Tunnels, NEW e \in CloseReasons, Reported(queue, t, e)
       PROVE  Reported(all, t, e)
  BY <1>4, <1>11 DEF Reported
<1>12. ASSUME NEW t \in ToSet(gone) PROVE Reported(all, t, "none")
  <2>1. PICK k \in 1..n : gone[k] = t BY <1>8 DEF ToSet
  <2>2. PICK i \in 1..n : i = n - k + 1 /\ n - i + 1 = k BY <1>3
  <2>3. all[l + i] = DestroyTick(t, "none") /\ l + i \in 1..(l + n) BY <1>5, <2>1, <2>2
  <2> QED BY <1>4, <2>3 DEF Reported
<1>13. OnceEach(all)
  <2> SUFFICES ASSUME NEW t \in Tunnels, NEW e \in CloseReasons, NEW f \in CloseReasons,
                      NEW i \in 1..(l + n), NEW j \in 1..(l + n),
                      all[i] = DestroyTick(t, e), all[j] = DestroyTick(t, f)
               PROVE  i = j
    BY <1>4 DEF OnceEach
  <2>1. CASE i \in 1..l /\ j \in 1..l BY <1>4, <2>1 DEF OnceEach
  <2>2. CASE i \in 1..l /\ j \notin 1..l
    <3>1. t \in ToSet(gone) BY <1>9, <2>2
    <3>2. Reported(queue, t, e) BY <1>4, <2>2 DEF Reported
    <3> QED BY <3>1, <3>2
  <2>3. CASE i \notin 1..l /\ j \in 1..l
    <3>1. t \in ToSet(gone) BY <1>9, <2>3
    <3>2. Reported(queue, t, f) BY <1>4, <2>3 DEF Reported
    <3> QED BY <3>1, <3>2
  <2>4. CASE i \notin 1..l /\ j \notin 1..l
    <3>1. /\ n - (i - l) + 1 \in 1..n /\ gone[n - (i - l) + 1] = t
          /\ n - (j - l) + 1 \in 1..n /\ gone[n - (j - l) + 1] = t
      BY <1>9, <2>4
    <3>2. n - (i - l) + 1 = n - (j - l) + 1 BY <1>8, <3>1 DEF IsInjective
    <3> QED BY <3>2
  <2> QED BY <2>1, <2>2, <2>3, <2>4
<1>14. all \in Seq(TickRecords) BY <1>4
<1> QED BY <1>7, <1>10, <1>11, <1>12, <1>13, <1>14 DEF all

\* Removing a tunnel from a list that has it once: it is gone, the others stay.
LEMMA RemoveFacts ==
  ASSUME NEW s \in Seq(Tunnels), IsInjective(s), NEW e
  PROVE  /\ IsInjective(RemoveFromArray(s, e))
         /\ ToSet(RemoveFromArray(s, e)) \subseteq ToSet(s) \ {e}
<1>1. CASE e \notin ToSet(s) BY <1>1 DEF RemoveFromArray
<1>2. CASE e \in ToSet(s)
  <2> DEFINE i == CHOOSE ix \in DOMAIN s : s[ix] = e
  <2>1. \E ix \in DOMAIN s : s[ix] = e BY <1>2 DEF ToSet
  <2>2. i \in 1..Len(s) /\ s[i] = e BY <2>1
  <2>3. RemoveFromArray(s, e) = SubSeq(s, 1, i - 1) \o SubSeq(s, i + 1, Len(s))
    BY <1>2 DEF RemoveFromArray, RemoveAt
  <2> HIDE DEF i
  <2>4. PICK l \in Nat : l = Len(s) OBVIOUS
  <2> DEFINE left == RemoveFromArray(s, e)
  <2>5. /\ DOMAIN left = 1..(l - 1) /\ DOMAIN s = 1..l
        /\ \A k \in 1..(l - 1) : left[k] = IF k < i THEN s[k] ELSE s[k + 1]
    <3>1. /\ SubSeq(s, 1, i - 1) \in Seq(Tunnels) /\ SubSeq(s, i + 1, Len(s)) \in Seq(Tunnels)
          /\ Len(SubSeq(s, 1, i - 1)) = i - 1 /\ Len(SubSeq(s, i + 1, Len(s))) = l - i
          /\ \A k \in 1..(i - 1) : SubSeq(s, 1, i - 1)[k] = s[k]
          /\ \A k \in 1..(l - i) : SubSeq(s, i + 1, Len(s))[k] = s[i + k]
      BY <2>2, <2>4
    <3> DEFINE a == SubSeq(s, 1, i - 1)  b == SubSeq(s, i + 1, Len(s))
    <3>2. left = a \o b BY <2>3
    <3> HIDE DEF a, b, left
    <3>3. a \in Seq(Tunnels) /\ b \in Seq(Tunnels) /\ Len(a) = i - 1 /\ Len(b) = l - i
      BY <3>1 DEF a, b
    <3>4. DOMAIN left = 1..(l - 1) BY <2>2, <2>4, <3>2, <3>3
    <3>5. ASSUME NEW k \in 1..(l - 1) PROVE left[k] = IF k < i THEN s[k] ELSE s[k + 1]
      <4>1. CASE k < i
        <5>1. left[k] = a[k] BY <2>2, <2>4, <3>2, <3>3, <4>1
        <5> QED BY <2>2, <3>1, <4>1, <5>1 DEF a
      <4>2. CASE ~(k < i)
        <5>1. PICK m \in 1..(l - i) : m = k - (i - 1) /\ i + m = k + 1 BY <2>2, <2>4, <4>2
        <5>2. left[k] = b[m] BY <2>2, <2>4, <3>2, <3>3, <4>2, <5>1
        <5>3. b[m] = s[i + m] BY <3>1 DEF b
        <5> QED BY <4>2, <5>1, <5>2, <5>3
      <4> QED BY <4>1, <4>2
    <3> QED BY <2>4, <3>4, <3>5
  <2> HIDE DEF left
  <2> DEFINE back(k) == IF k < i THEN k ELSE k + 1
  <2>6. \A k \in 1..(l - 1) : back(k) \in 1..l /\ back(k) # i /\ left[k] = s[back(k)]
    BY <2>2, <2>4, <2>5
  <2>7. IsInjective(left)
    <3> SUFFICES ASSUME NEW j \in 1..(l - 1), NEW k \in 1..(l - 1), left[j] = left[k] PROVE j = k
      BY <2>5 DEF IsInjective
    <3>1. back(j) = back(k)
      <4> HIDE DEF back
      <4> QED BY <2>5, <2>6 DEF IsInjective
    <3> QED BY <2>2, <3>1
  <2>8. ASSUME NEW k \in 1..(l - 1) PROVE left[k] \in ToSet(s) /\ left[k] # e
    <3> HIDE DEF back
    <3>1. back(k) \in DOMAIN s /\ left[k] = s[back(k)] /\ back(k) # i BY <2>5, <2>6
    <3>2. left[k] # e BY <2>2, <2>4, <2>5, <3>1 DEF IsInjective
    <3> QED BY <3>1, <3>2 DEF ToSet
  <2>9. ToSet(left) \subseteq ToSet(s) \ {e} BY <2>5, <2>8 DEF ToSet
  <2> QED BY <2>7, <2>9 DEF left
<1> QED BY <1>1, <1>2

\* The first tunnel of a list that has each once is not among the others.
LEMMA HeadTailFacts ==
  ASSUME NEW s \in Seq(Tunnels), IsInjective(s), s # <<>>
  PROVE  IsInjective(Tail(s)) /\ Head(s) \notin ToSet(Tail(s))
<1>1. PICK l \in Nat \ {0} : l = Len(s) OBVIOUS
<1>2. /\ DOMAIN s = 1..l /\ DOMAIN Tail(s) = 1..(l - 1) /\ Head(s) = s[1] /\ 1 \in 1..l
      /\ \A i \in 1..(l - 1) : i + 1 \in 1..l /\ Tail(s)[i] = s[i + 1] /\ i + 1 # 1
  BY <1>1
<1>3. ASSUME NEW i \in 1..(l - 1), NEW j \in 1..(l - 1), Tail(s)[i] = Tail(s)[j] PROVE i = j
  <2>1. i + 1 = j + 1 BY <1>2, <1>3 DEF IsInjective
  <2> QED BY <2>1
<1>4. \A i \in 1..(l - 1) : Tail(s)[i] # Head(s) BY <1>2 DEF IsInjective
<1> QED BY <1>2, <1>3, <1>4 DEF IsInjective, ToSet

\* Appending tunnels that are not listed.
LEMMA ConcatInjective ==
  ASSUME NEW s \in Seq(Tunnels), NEW u \in Seq(Tunnels), IsInjective(s), IsInjective(u),
         ToSet(s) \cap ToSet(u) = {}
  PROVE  IsInjective(s \o u)
<1>1. PICK l \in Nat, n \in Nat : l = Len(s) /\ n = Len(u) OBVIOUS
<1>2. /\ DOMAIN (s \o u) = 1..(l + n) /\ DOMAIN s = 1..l /\ DOMAIN u = 1..n
      /\ \A i \in 1..(l + n) : \/ i \in 1..l /\ (s \o u)[i] = s[i]
                               \/ i > l /\ i - l \in 1..n /\ (s \o u)[i] = u[i - l]
  BY <1>1
<1>3. \A i \in 1..l, j \in 1..n : s[i] # u[j] BY <1>2 DEF ToSet
<1> SUFFICES ASSUME NEW i \in 1..(l + n), NEW j \in 1..(l + n), (s \o u)[i] = (s \o u)[j] PROVE i = j
  BY <1>2 DEF IsInjective
<1>4. CASE i \in 1..l /\ j \in 1..l
  <2>1. (s \o u)[i] = s[i] /\ (s \o u)[j] = s[j] BY <1>2, <1>4
  <2> QED BY <1>2, <1>4, <2>1 DEF IsInjective
<1>5. CASE i > l /\ j > l
  <2>1. /\ i - l \in 1..n /\ j - l \in 1..n
        /\ (s \o u)[i] = u[i - l] /\ (s \o u)[j] = u[j - l] BY <1>2, <1>5
  <2>2. i - l = j - l BY <1>2, <2>1 DEF IsInjective
  <2> QED BY <2>2
<1>6. CASE i \in 1..l /\ j > l
  <2>1. (s \o u)[i] = s[i] /\ j - l \in 1..n /\ (s \o u)[j] = u[j - l] BY <1>2, <1>6
  <2> QED BY <1>3, <1>6, <2>1
<1>7. CASE i > l /\ j \in 1..l
  <2>1. (s \o u)[j] = s[j] /\ i - l \in 1..n /\ (s \o u)[i] = u[i - l] BY <1>2, <1>7
  <2> QED BY <1>3, <1>7, <2>1
<1> QED BY <1>2, <1>4, <1>5, <1>6, <1>7

\* A list of distinct tunnels is as long as its set is large.
LEMMA InjectiveCardinality ==
  ASSUME NEW s \in Seq(Tunnels), IsInjective(s)
  PROVE  IsFiniteSet(ToSet(s)) /\ Cardinality(ToSet(s)) = Len(s)
<1>1. PICK l \in Nat : l = Len(s) OBVIOUS
<1>2. DOMAIN s = 1..l /\ s \in [1..l -> ToSet(s)] BY <1>1 DEF ToSet
<1>3. s \in Injection(1..l, ToSet(s)) BY <1>2 DEF Injection
<1>4. s \in Surjection(1..l, ToSet(s)) BY <1>2 DEF Surjection, ToSet
<1>5. IsFiniteSet(1..l) /\ Cardinality(1..l) = l BY FS_Interval, 1 \in Int, l \in Int
<1>6. ExistsBijection(1..l, ToSet(s)) BY <1>3, <1>4 DEF ExistsBijection, Bijection
<1> QED BY <1>1, <1>5, <1>6, FS_Bijection

-----------------------------------------------------------------------------
\* A tunnel that is listed and not destroyed is live.
LEMMA ListedLive ==
  ASSUME LInv, NEW t \in Listed
  PROVE  /\ t \in Tunnels
         /\ phase[t] # "destroyed" => phase[t] \in {"connecting", "connected"}
<1>1. t \in Tunnels BY DEF LInv, IInv, TypeOK, Listed, ToSet
<1>2. phase[t] \in Phases /\ phase[t] # "free"
  BY <1>1 DEF LInv, IInv, TypeOK, Tracked, ListedNotFree
<1> QED BY <1>1, <1>2 DEF Phases

\* When the event loop is idle no tunnel waits for its report.
LEMMA IdleFacts ==
  ASSUME LInv, LoopIdle
  PROVE  /\ ticks = <<>>
         /\ \A t \in Tunnels : phase[t] # "destroyed"
         /\ \A t \in Tunnels, e \in CloseReasons : ~Reported(ticks, t, e)
         /\ \A t \in Listed : phase[t] \in {"connecting", "connected"}
<1>1. ticks = <<>> BY DEF LoopIdle
<1>2. \A t, e : ~Reported(ticks, t, e) BY <1>1 DEF Reported
<1>3. \A t \in Tunnels : phase[t] # "destroyed" BY <1>2 DEF LInv, Tracked, DestroyedReported
<1>4. \A t \in Listed : t \in Tunnels BY ListedLive
<1> QED BY <1>1, <1>2, <1>3, <1>4, ListedLive

\* Popping live tunnels from the list, whatever the handler: the ones popped
\* are reported, the others are left alone.
LEMMA PopStep ==
  ASSUME NEW queue \in Seq(TickRecords), OnceEach(queue),
         NEW kept \in Seq(Tunnels), NEW gone \in Seq(Tunnels), NEW ph \in [Tunnels -> Phases],
         IsInjective(kept), IsInjective(gone), ToSet(kept) \cap ToSet(gone) = {},
         \A t \in ToSet(kept) \cup ToSet(gone) : ph[t] \in {"connecting", "connected"},
         \A t \in Tunnels : ph[t] = "destroyed" <=> \E e \in CloseReasons : Reported(queue, t, e),
         PopTunnels(kept, gone, ph, queue)
  PROVE  /\ Tracked'
         /\ \A t \in ToSet(gone) : phase'[t] = "destroyed" /\ Reported(ticks', t, "none")
         /\ \A t \in Tunnels \ ToSet(gone) :
              /\ phase'[t] = ph[t]
              /\ \A e \in CloseReasons : Reported(queue, t, e) => Reported(ticks', t, e)
<1>1. /\ tunnels' = kept
      /\ \A t \in Tunnels : phase'[t] = IF t \in ToSet(gone) THEN "destroyed" ELSE ph[t]
      /\ ticks' = queue \o DestroyTicks(gone)
  BY DEF PopTunnels
<1>2. ToSet(gone) \subseteq Tunnels /\ ToSet(kept) \subseteq Tunnels BY DEF ToSet
<1>3. \A t \in ToSet(gone), e \in CloseReasons : ~Reported(queue, t, e) BY <1>2
<1>4. /\ OnceEach(ticks')
      /\ \A t \in Tunnels, e \in CloseReasons :
           Reported(ticks', t, e) <=> Reported(queue, t, e) \/ (t \in ToSet(gone) /\ e = "none")
  BY <1>1, <1>3, DestroyTicksReports
<1>5. "none" \in CloseReasons BY DEF CloseReasons
<1>6. DestroyedReported'
  <2> SUFFICES ASSUME NEW t \in Tunnels
               PROVE  phase'[t] = "destroyed" <=> \E e \in CloseReasons : Reported(ticks', t, e)
    BY DEF DestroyedReported
  <2>1. CASE t \in ToSet(gone) BY <1>1, <1>4, <1>5, <2>1
  <2>2. CASE t \notin ToSet(gone) BY <1>1, <1>4, <2>2
  <2> QED BY <2>1, <2>2
<1>7. \A t \in Listed' : phase'[t] \in {"connecting", "connected"} BY <1>1, <1>2 DEF Listed
<1>8. ListedReportedFirst' /\ ListedNotFree' BY <1>7 DEF ListedReportedFirst, ListedNotFree
<1>9. Tracked' BY <1>1, <1>4, <1>6, <1>8 DEF Tracked
<1> QED BY <1>1, <1>2, <1>4, <1>5, <1>9

\* destroy() of a cluster that lists ts, called by a handler that has left no
\* listed tunnel destroyed.
LEMMA DestroyMoves ==
  ASSUME NEW queue \in Seq(TickRecords), OnceEach(queue),
         NEW ts \in Seq(Tunnels), NEW ph \in [Tunnels -> Phases], IsInjective(ts),
         \A t \in ToSet(ts) : ph[t] \in {"connecting", "connected"},
         \A t \in Tunnels : ph[t] = "destroyed" <=> \E e \in CloseReasons : Reported(queue, t, e),
         DestroyCluster(ts, ph, queue)
  PROVE  /\ Tracked'
         /\ \A t \in ToSet(ts) : phase'[t] = "destroyed" /\ Reported(ticks', t, "none")
         /\ \A t \in Tunnels \ ToSet(ts) :
              /\ phase'[t] = ph[t]
              /\ \A e \in CloseReasons : Reported(queue, t, e) => Reported(ticks', t, e)
<1>1. PopTunnels(<<>>, ts, ph, queue) BY DEF DestroyCluster
<1>2. <<>> \in Seq(Tunnels) /\ IsInjective(<<>>) /\ ToSet(<<>>) = {} BY DEF IsInjective, ToSet
<1>3. /\ ToSet(<<>>) \cap ToSet(ts) = {}
      /\ \A t \in ToSet(<<>>) \cup ToSet(ts) : ph[t] \in {"connecting", "connected"}
  BY <1>2
<1> QED BY <1>1, <1>2, <1>3, PopStep

\* The same of the list as it is.
LEMMA DestroyListed ==
  ASSUME LInv, NEW queue \in Seq(TickRecords), OnceEach(queue),
         \A t \in Tunnels, e \in CloseReasons : Reported(ticks, t, e) <=> Reported(queue, t, e),
         \A t \in Listed : phase[t] # "destroyed",
         DestroyCluster(tunnels, phase, queue)
  PROVE  Tracked' /\ AllMoved
<1>1. \A t \in ToSet(tunnels) : phase[t] \in {"connecting", "connected"} BY ListedLive DEF Listed
<1>2. /\ tunnels \in Seq(Tunnels) /\ phase \in [Tunnels -> Phases] /\ IsInjective(tunnels)
      /\ \A t \in Tunnels : phase[t] = "destroyed" <=> \E e \in CloseReasons : Reported(queue, t, e)
  BY DEF LInv, IInv, TypeOK, Tracked, DestroyedReported
<1>3. /\ Tracked'
      /\ \A t \in ToSet(tunnels) : phase'[t] = "destroyed" /\ Reported(ticks', t, "none")
      /\ \A t \in Tunnels \ ToSet(tunnels) :
           /\ phase'[t] = phase[t]
           /\ \A e \in CloseReasons : Reported(queue, t, e) => Reported(ticks', t, e)
  BY <1>1, <1>2, DestroyMoves
<1> QED BY <1>1, <1>3 DEF AllMoved, Moved

\* A step that changes no tunnel, and whose queue reports the same.
LEMMA UntouchedTunnels ==
  ASSUME LInv, UNCHANGED <<tunnels, phase>>, OnceEach(ticks'),
         \A t \in Tunnels, e \in CloseReasons : Reported(ticks', t, e) <=> Reported(ticks, t, e),
         \A t \in Listed : phase[t] # "destroyed"
  PROVE  Tracked' /\ AllMoved
<1>1. DestroyedReported' BY DEF LInv, Tracked, DestroyedReported
<1>2. ListedReportedFirst' /\ ListedNotFree'
  BY DEF LInv, Tracked, ListedReportedFirst, ListedNotFree, Listed
<1>3. AllMoved BY DEF AllMoved, Moved
<1> QED BY <1>1, <1>2, <1>3 DEF LInv, Tracked

-----------------------------------------------------------------------------
\* The constructor.
LEMMA InitTracked == Init => Tracked
<1> SUFFICES ASSUME Init PROVE Tracked OBVIOUS
<1>1. tunnels = <<>> /\ ticks = <<FillTick>> /\ phase = [t \in Tunnels |-> "free"] BY DEF Init
<1>2. \A t \in Tunnels, e \in CloseReasons : ~Reported(ticks, t, e) /\ ticks[1] # DestroyTick(t, e)
  BY <1>1, TickFacts DEF Reported
<1>3. OnceEach(ticks) BY <1>1, <1>2 DEF OnceEach
<1>4. DestroyedReported BY <1>1, <1>2 DEF DestroyedReported
<1>5. Listed = {} BY <1>1 DEF Listed, ToSet
<1> QED BY <1>1, <1>3, <1>4, <1>5 DEF Tracked, IsInjective, ListedReportedFirst, ListedNotFree

\* A tunnel that connects opens, and the others stay as they are, unless a listener
\* destroys the cluster: then every live one closes.
LEMMA ConnectedMoves ==
  ASSUME LInv, NEW t \in Tunnels, TunnelConnected(t)
  PROVE  Tracked' /\ AllMoved
<1>1. /\ LoopIdle /\ phase[t] = "connecting" /\ Fill(ticks) /\ tunnels' = tunnels
      /\ phase' = [phase EXCEPT ![t] = "connected"]
  BY DEF TunnelConnected
<1>2. /\ ticks \in Seq(TickRecords) /\ OnceEach(ticks) /\ IsInjective(tunnels)
      /\ phase \in [Tunnels -> Phases]
  BY DEF LInv, IInv, TypeOK, Tracked
<1>3. /\ OnceEach(ticks')
      /\ \A u \in Tunnels, e \in CloseReasons : ~Reported(ticks', u, e)
  BY <1>1, <1>2, FillReports, IdleFacts
<1>4. \A u \in Tunnels : phase'[u] = IF u = t THEN "connected" ELSE phase[u] BY <1>1, <1>2
<1>5. DestroyedReported' BY <1>1, <1>3, <1>4, IdleFacts DEF DestroyedReported
<1>6. ListedReportedFirst' /\ ListedNotFree'
  <2>1. \A u \in Listed : u \in Tunnels /\ phase[u] \in {"connecting", "connected"}
    BY <1>1, ListedLive, IdleFacts
  <2> QED BY <1>1, <1>4, <2>1 DEF ListedReportedFirst, ListedNotFree, Listed
<1>7. AllMoved BY <1>1, <1>4, IdleFacts DEF AllMoved, Moved
<1> QED BY <1>1, <1>2, <1>3, <1>5, <1>6, <1>7 DEF Tracked

\* A tunnel whose socket closes is reported once, and the others stay as they are.
LEMMA ClosesMoves ==
  ASSUME LInv, NEW t \in Tunnels, NEW err \in CloseReasons, TunnelCloses(t, err)
  PROVE  Tracked' /\ AllMoved
<1>1. /\ LoopIdle /\ t \in Live /\ err \in CloseErrors(t) /\ tunnels' = tunnels
      /\ phase' = [phase EXCEPT ![t] = "destroyed"]
      /\ ticks' = Append(ticks, DestroyTick(t, err))
  BY DEF TunnelCloses
<1>2. IsInjective(tunnels) /\ phase \in [Tunnels -> Phases] BY DEF LInv, IInv, TypeOK, Tracked
<1>3. ticks' = <<DestroyTick(t, err)>> BY <1>1, IdleFacts
<1>4. \A u \in Tunnels, e \in CloseReasons : Reported(ticks', u, e) <=> u = t /\ e = err
  BY <1>3, TickFacts DEF Reported
<1>5. OnceEach(ticks') BY <1>3 DEF OnceEach
<1>6. \A u \in Tunnels : phase'[u] = IF u = t THEN "destroyed" ELSE phase[u] BY <1>1, <1>2
<1>7. DestroyedReported' BY <1>1, <1>4, <1>6, IdleFacts DEF DestroyedReported
<1>8. ListedReportedFirst' /\ ListedNotFree'
  <2>1. \A u \in Listed : u \in Tunnels /\ phase[u] \in {"connecting", "connected"}
    BY <1>1, ListedLive, IdleFacts
  <2> QED BY <1>1, <1>3, <1>6, <2>1 DEF ListedReportedFirst, ListedNotFree, Listed
<1>9. AllMoved
  <2>1. phase[t] \in {"connecting", "connected"} BY <1>1 DEF Live
  <2>2. err \in {"none", "network"} \cup IF phase[t] = "connecting" THEN {"forbidden"} ELSE {}
    BY <1>1 DEF CloseErrors
  <2>3. Moved(t) BY <1>4, <1>6, <2>1, <2>2 DEF Moved
  <2>4. \A u \in Tunnels \ {t} : Moved(u) BY <1>1, <1>6, IdleFacts DEF Moved
  <2> QED BY <2>3, <2>4 DEF AllMoved
<1> QED BY <1>1, <1>2, <1>5, <1>7, <1>8, <1>9 DEF Tracked

\* A fill lists tunnels that were free, and so were not listed.
LEMMA TickFillMoves ==
  ASSUME LInv, TickFill
  PROVE  Tracked' /\ AllMoved
<1> DEFINE missing == Limit[state] - Len(tunnels)
<1>1. /\ tunnels \in Seq(Tunnels) /\ ticks \in Seq(TickRecords) /\ phase \in [Tunnels -> Phases]
      /\ OnceEach(ticks) /\ IsInjective(tunnels) /\ ticks # <<>> /\ Head(ticks) = FillTick
  BY DEF TickFill, LInv, IInv, TypeOK, Tracked
<1>2. /\ Tail(ticks) \in Seq(TickRecords) /\ OnceEach(Tail(ticks))
      /\ \A t \in Tunnels, e \in CloseReasons : Reported(Tail(ticks), t, e) <=> Reported(ticks, t, e)
  BY <1>1, TailReports, TickFacts
<1>3. \A t \in Listed : phase[t] # "destroyed"
  <2> SUFFICES ASSUME NEW t \in Listed, phase[t] = "destroyed" PROVE FALSE OBVIOUS
  <2>1. PICK e \in CloseReasons : ticks = <<DestroyTick(t, e)>>
    BY DEF LInv, Tracked, ListedReportedFirst
  <2>2. t \in Tunnels BY ListedLive
  <2> QED BY <1>1, <2>1, <2>2, TickFacts
<1>4. CASE ticks' = Tail(ticks) /\ UNCHANGED <<tunnels, phase>>
  BY <1>2, <1>3, <1>4, UntouchedTunnels
<1>5. CASE DestroyCluster(tunnels, phase, Tail(ticks))
  BY <1>2, <1>3, <1>5, DestroyListed
<1>6. CASE /\ missing > 0
           /\ \E new \in [1..missing -> {t \in Tunnels : phase[t] = "free"}] :
                /\ IsInjective(new)
                /\ tunnels' = tunnels \o new
                /\ phase' = [t \in Tunnels |-> IF t \in ToSet(new) THEN "connecting" ELSE phase[t]]
           /\ ticks' = Tail(ticks)
  <2>1. PICK new \in [1..missing -> {t \in Tunnels : phase[t] = "free"}] :
          /\ IsInjective(new)
          /\ tunnels' = tunnels \o new
          /\ phase' = [t \in Tunnels |-> IF t \in ToSet(new) THEN "connecting" ELSE phase[t]]
    BY <1>6
  <2>2. PICK m \in Nat : m = missing
    <3>1. state \in Modes /\ Len(tunnels) \in Nat BY <1>1 DEF LInv, IInv, TypeOK
    <3>2. Limit[state] \in Nat BY <3>1, MaxConnectionsAssumption DEF Limit, Modes
    <3> QED BY <1>6, <3>1, <3>2
  <2> HIDE DEF missing
  <2>3. /\ new \in [1..m -> Tunnels] /\ new \in Seq(Tunnels)
        /\ \A t \in ToSet(new) : t \in Tunnels /\ phase[t] = "free"
    <3>1. /\ DOMAIN new = 1..m /\ new \in [1..m -> Tunnels]
          /\ \A i \in 1..m : new[i] \in Tunnels /\ phase[new[i]] = "free"
      BY <2>1, <2>2
    <3>2. new \in Seq(Tunnels) BY <3>1
    <3> QED BY <3>1, <3>2 DEF ToSet
  <2>4. ToSet(tunnels) \cap ToSet(new) = {} BY <2>3 DEF LInv, Tracked, ListedNotFree, Listed
  <2>5. IsInjective(tunnels') /\ ToSet(tunnels') = ToSet(tunnels) \cup ToSet(new)
    BY <1>1, <2>1, <2>3, <2>4, ConcatInjective, ToSetConcat
  <2>6. DestroyedReported' BY <1>2, <1>6, <2>1, <2>3 DEF LInv, Tracked, DestroyedReported
  <2>7. \A t \in Listed' : phase'[t] \in {"connecting", "connected"}
    <3>1. \A t \in Listed : t \in Tunnels /\ phase[t] \in {"connecting", "connected"}
      BY <1>3, ListedLive
    <3> QED BY <2>1, <2>3, <2>5, <3>1 DEF Listed
  <2>8. ListedReportedFirst' /\ ListedNotFree' BY <2>7 DEF ListedReportedFirst, ListedNotFree
  <2>9. AllMoved BY <1>2, <1>6, <2>1, <2>3 DEF AllMoved, Moved
  <2> QED BY <1>2, <1>6, <2>5, <2>6, <2>8, <2>9 DEF Tracked
<1> QED BY <1>4, <1>5, <1>6 DEF TickFill

\* The tunnel that is reported leaves the list, so no listed tunnel is
\* destroyed any more.
LEMMA TickDestroyMoves ==
  ASSUME LInv, TickDestroy
  PROVE  Tracked' /\ AllMoved
<1> DEFINE t == Head(ticks).tunnel
           err == Head(ticks).err
           left == RemoveFromArray(tunnels, t)
           freed == [phase EXCEPT ![t] = "free"]
<1>1. /\ tunnels \in Seq(Tunnels) /\ ticks \in Seq(TickRecords) /\ phase \in [Tunnels -> Phases]
      /\ OnceEach(ticks) /\ IsInjective(tunnels) /\ ticks # <<>> /\ Head(ticks) \in TickRecords
      /\ Head(ticks) # FillTick
  BY DEF TickDestroy, LInv, IInv, TypeOK, Tracked, FillTick
<1>2. t \in Tunnels /\ err \in CloseReasons /\ Head(ticks) = DestroyTick(t, err)
  <2>1. PICK u \in Tunnels, e \in CloseReasons : Head(ticks) = DestroyTick(u, e) BY <1>1, TickFacts
  <2>2. DestroyTick(u, e).tunnel = u /\ DestroyTick(u, e).err = e BY DEF DestroyTick
  <2> QED BY <2>1, <2>2
<1>3. /\ \/ Fill(Tail(ticks)) /\ tunnels' = left /\ phase' = freed
         \/ ticks' = Tail(ticks) /\ tunnels' = left /\ phase' = freed
         \/ DestroyCluster(left, freed, Tail(ticks))
  BY DEF TickDestroy
<1>4. /\ left \in Seq(Tunnels) /\ IsInjective(left) /\ ToSet(left) \subseteq Listed \ {t}
  BY <1>1, <1>2, RemoveFromArrayFact, RemoveFacts DEF Listed
<1>5. phase[t] = "destroyed"
  <2>1. ticks[1] = DestroyTick(t, err) /\ 1 \in DOMAIN ticks BY <1>1, <1>2
  <2> QED BY <1>2, <2>1 DEF LInv, Tracked, DestroyedReported, Reported
<1>6. \A u \in Tunnels : freed[u] = IF u = t THEN "free" ELSE phase[u] BY <1>1, <1>2
<1> HIDE DEF t, err, left, freed
<1>7. /\ Tail(ticks) \in Seq(TickRecords) /\ OnceEach(Tail(ticks))
      /\ \A u \in Tunnels, e \in CloseReasons : Reported(Tail(ticks), u, e) <=> Reported(ticks, u, e) /\ u # t
  <2>1. \A u \in Tunnels : (\A f \in CloseReasons : Head(ticks) # DestroyTick(u, f)) <=> u # t
    BY <1>2, TickFacts
  <2> QED BY <1>1, <2>1, TailReports
<1>8. \A u \in Tunnels : freed[u] = "destroyed" <=> \E e \in CloseReasons : Reported(Tail(ticks), u, e)
  BY <1>6, <1>7 DEF LInv, Tracked, DestroyedReported
<1>9. \A u \in ToSet(left) : u \in Tunnels /\ freed[u] \in {"connecting", "connected"}
  <2> SUFFICES ASSUME NEW u \in ToSet(left) PROVE u \in Tunnels /\ freed[u] \in {"connecting", "connected"}
    OBVIOUS
  <2>1. u \in Listed /\ u # t /\ u \in Tunnels BY <1>4, ListedLive
  <2>2. ASSUME phase[u] = "destroyed" PROVE FALSE
    <3>1. PICK e \in CloseReasons : ticks = <<DestroyTick(u, e)>>
      BY <2>1, <2>2 DEF LInv, Tracked, ListedReportedFirst
    <3>2. DestroyTick(u, e) = DestroyTick(t, err) BY <1>2, <3>1
    <3> QED BY <2>1, <3>2, TickFacts
  <2> QED BY <1>6, <2>1, <2>2, ListedLive
<1>10. ASSUME tunnels' = left, phase' = freed, OnceEach(ticks'),
              \A u \in Tunnels, e \in CloseReasons : Reported(ticks', u, e) <=> Reported(Tail(ticks), u, e)
       PROVE  Tracked' /\ AllMoved
  <2>1. DestroyedReported' BY <1>8, <1>10 DEF DestroyedReported
  <2>2. ListedReportedFirst' /\ ListedNotFree'
    BY <1>9, <1>10 DEF ListedReportedFirst, ListedNotFree, Listed
  <2>3. AllMoved BY <1>2, <1>5, <1>6, <1>7, <1>10 DEF AllMoved, Moved
  <2> QED BY <1>4, <1>10, <2>1, <2>2, <2>3 DEF Tracked
<1>11. CASE Fill(Tail(ticks)) /\ tunnels' = left /\ phase' = freed
  BY <1>7, <1>10, <1>11, FillReports
<1>12. CASE ticks' = Tail(ticks) /\ tunnels' = left /\ phase' = freed
  BY <1>7, <1>10, <1>12
<1>13. CASE DestroyCluster(left, freed, Tail(ticks))
  <2>1. freed \in [Tunnels -> Phases] BY <1>1 DEF freed, Phases
  <2>2. /\ Tracked'
        /\ \A u \in ToSet(left) : phase'[u] = "destroyed" /\ Reported(ticks', u, "none")
        /\ \A u \in Tunnels \ ToSet(left) :
             /\ phase'[u] = freed[u]
             /\ \A e \in CloseReasons : Reported(Tail(ticks), u, e) => Reported(ticks', u, e)
    BY <1>4, <1>7, <1>8, <1>9, <1>13, <2>1, DestroyMoves
  <2>3. ASSUME NEW u \in Tunnels PROVE Moved(u)
    <3>1. CASE u = t
      <4>1. u \notin ToSet(left) BY <1>4, <3>1
      <4> QED BY <1>5, <1>6, <2>2, <3>1, <4>1 DEF Moved
    <3>2. CASE u # t /\ u \in ToSet(left) BY <1>6, <1>9, <2>2, <3>2 DEF Moved
    <3>3. CASE u # t /\ u \notin ToSet(left) BY <1>6, <1>7, <2>2, <3>3 DEF Moved
    <3> QED BY <3>1, <3>2, <3>3
  <2> QED BY <2>2, <2>3 DEF AllMoved
<1> QED BY <1>3, <1>11, <1>12, <1>13

\* The idle shrink closes the tunnels it pops, reports each once, and leaves the rest.
LEMMA IdleTimerMoves ==
  ASSUME LInv, IdleTimerFires
  PROVE  Tracked' /\ AllMoved
<1>1. /\ LoopIdle
      /\ \/ UNCHANGED <<tunnels, phase, ticks>>
         \/ tunnels # <<>> /\ PopTunnels(<<Head(tunnels)>>, Tail(tunnels), phase, ticks)
  BY DEF IdleTimerFires
<1>2. /\ tunnels \in Seq(Tunnels) /\ ticks \in Seq(TickRecords) /\ phase \in [Tunnels -> Phases]
      /\ OnceEach(ticks) /\ IsInjective(tunnels)
      /\ \A t \in Tunnels : phase[t] = "destroyed" <=> \E e \in CloseReasons : Reported(ticks, t, e)
  BY DEF LInv, IInv, TypeOK, Tracked, DestroyedReported
<1>3. \A t \in Listed : phase[t] \in {"connecting", "connected"} BY <1>1, IdleFacts
<1>4. CASE UNCHANGED <<tunnels, phase, ticks>>
  BY <1>2, <1>3, <1>4, UntouchedTunnels
<1>5. CASE tunnels # <<>> /\ PopTunnels(<<Head(tunnels)>>, Tail(tunnels), phase, ticks)
  <2>1. /\ Head(tunnels) \in Tunnels /\ Tail(tunnels) \in Seq(Tunnels)
        /\ Listed = {Head(tunnels)} \cup ToSet(Tail(tunnels))
        /\ IsInjective(Tail(tunnels)) /\ Head(tunnels) \notin ToSet(Tail(tunnels))
    BY <1>2, <1>5, ToSetHeadTail, HeadTailFacts DEF Listed
  <2> DEFINE kept == <<Head(tunnels)>>
  <2>2. kept \in Seq(Tunnels) /\ IsInjective(kept) /\ ToSet(kept) = {Head(tunnels)}
    BY <2>1 DEF IsInjective, ToSet
  <2> HIDE DEF kept
  <2>3. /\ ToSet(kept) \cap ToSet(Tail(tunnels)) = {}
        /\ \A t \in ToSet(kept) \cup ToSet(Tail(tunnels)) : phase[t] \in {"connecting", "connected"}
    BY <1>3, <2>1, <2>2
  <2>4. PopTunnels(kept, Tail(tunnels), phase, ticks) BY <1>5 DEF kept
  <2>5. /\ Tracked'
        /\ \A t \in ToSet(Tail(tunnels)) : phase'[t] = "destroyed" /\ Reported(ticks', t, "none")
        /\ \A t \in Tunnels \ ToSet(Tail(tunnels)) :
             /\ phase'[t] = phase[t]
             /\ \A e \in CloseReasons : Reported(ticks, t, e) => Reported(ticks', t, e)
    BY <1>2, <2>1, <2>2, <2>3, <2>4, PopStep
  <2>6. ASSUME NEW t \in Tunnels PROVE Moved(t)
    <3>1. CASE t \in ToSet(Tail(tunnels))
      <4>1. phase[t] \in {"connecting", "connected"} BY <2>3, <3>1
      <4> QED BY <2>5, <3>1, <4>1 DEF Moved
    <3>2. CASE t \notin ToSet(Tail(tunnels)) BY <2>5, <3>2 DEF Moved
    <3> QED BY <3>1, <3>2
  <2> QED BY <2>5, <2>6 DEF AllMoved
<1> QED BY <1>1, <1>4, <1>5

\* What the application and the timers do to the tunnels, if anything, is fill()
\* or destroy().
LEMMA OtherMoves ==
  ASSUME LInv,
         \/ \E t \in Tunnels : ConnectThenDestroys(t) \/ TunnelActivity(t)
         \/ ReconnectTimerFires \/ RetryThenDestroys \/ UserDestroy \/ UserFill
  PROVE  Tracked' /\ AllMoved
<1>1. \A t \in Listed : phase[t] # "destroyed"
  <2>1. LoopIdle => \A t \in Listed : phase[t] # "destroyed"
    <3> SUFFICES ASSUME LoopIdle, NEW t \in Listed PROVE phase[t] # "destroyed" OBVIOUS
    <3>1. phase[t] \in {"connecting", "connected"} BY IdleFacts
    <3> QED BY <3>1
  <2>2. UserRuns => \A t \in Listed : phase[t] # "destroyed" BY DEF UserRuns, Listed, ToSet
  <2> QED
    BY <2>1, <2>2
    DEF ConnectThenDestroys, TunnelActivity, ReconnectTimerFires, RetryThenDestroys, UserDestroy, UserFill
<1>2. /\ ticks \in Seq(TickRecords) /\ OnceEach(ticks)
      /\ \A t \in Tunnels, e \in CloseReasons : Reported(ticks, t, e) <=> Reported(ticks, t, e)
  BY DEF LInv, IInv, TypeOK, Tracked
<1>3. \/ DestroyCluster(tunnels, phase, ticks)
      \/ Fill(ticks) /\ UNCHANGED <<tunnels, phase>>
      \/ UNCHANGED <<tunnels, phase, ticks>>
  BY DEF ConnectThenDestroys, TunnelActivity, ReconnectTimerFires, RetryThenDestroys, UserDestroy,
         UserFill
<1>4. CASE DestroyCluster(tunnels, phase, ticks) BY <1>1, <1>2, <1>4, DestroyListed
<1>5. CASE Fill(ticks) /\ UNCHANGED <<tunnels, phase>>
  BY <1>1, <1>2, <1>5, FillReports, UntouchedTunnels
<1>6. CASE UNCHANGED <<tunnels, phase, ticks>> BY <1>1, <1>2, <1>6, UntouchedTunnels
<1> QED BY <1>3, <1>4, <1>5, <1>6

\* A step that changes nothing moves no tunnel.
LEMMA StutterTracked ==
  ASSUME LInv, UNCHANGED vars
  PROVE  Tracked' /\ AllMoved
<1>1. UNCHANGED <<tunnels, phase, ticks>> BY DEF vars
<1> QED
  BY <1>1 DEF LInv, Tracked, OnceEach, DestroyedReported, Reported, ListedReportedFirst,
     ListedNotFree, Listed, AllMoved, Moved

\* Every step preserves the invariant and does to each tunnel what it may.
THEOREM NextLInv == LInv /\ [Next]_vars => LInv' /\ AllMoved
<1> SUFFICES ASSUME LInv, [Next]_vars PROVE LInv' /\ AllMoved OBVIOUS
<1>1. IInv' BY NextIInv DEF LInv
<1>2. Tracked' /\ AllMoved
  <2>1. CASE TickFill BY <2>1, TickFillMoves
  <2>2. CASE TickDestroy BY <2>2, TickDestroyMoves
  <2>3. CASE IdleTimerFires BY <2>3, IdleTimerMoves
  <2>4. CASE ReconnectTimerFires \/ RetryThenDestroys \/ UserDestroy \/ UserFill
    BY <2>4, OtherMoves
  <2>5. ASSUME NEW t \in Tunnels, Resolves(t) \/ TunnelActivity(t) PROVE Tracked' /\ AllMoved
    BY <2>5, ConnectedMoves, ClosesMoves, OtherMoves DEF Resolves
  <2>6. CASE Stopped \/ UNCHANGED vars BY <2>6, StutterTracked DEF Stopped
  <2> QED BY <2>1, <2>2, <2>3, <2>4, <2>5, <2>6 DEF Next, Tick, Timer
<1> QED BY <1>1, <1>2 DEF LInv

\* What the cluster knows of its tunnels stays true in every behaviour: each is listed
\* once, and the end of each is reported once.
THEOREM LifeInvariance == Spec => []LInv
<1>1. Init => LInv BY InitIInv, InitTracked DEF LInv
<1> QED BY <1>1, NextLInv, PTL DEF Spec

-----------------------------------------------------------------------------
\* The one tick that reports a tunnel, and its error.
ReportsIn(queue, t) == {i \in DOMAIN queue : queue[i].op = "destroy" /\ queue[i].tunnel = t}
ReasonIn(queue, t) ==
  IF ReportsIn(queue, t) = {} THEN "none" ELSE queue[CHOOSE i \in ReportsIn(queue, t) : TRUE].err

\* In a queue with at most one report of each tunnel, a tunnel's report is found with
\* the reason it was queued with.
LEMMA ReportsFacts ==
  ASSUME NEW queue \in Seq(TickRecords), OnceEach(queue), NEW t \in Tunnels
  PROVE  /\ \A e \in CloseReasons : Reported(queue, t, e) =>
              (\E i : ReportsIn(queue, t) = {i}) /\ ReasonIn(queue, t) = e
         /\ (\A e \in CloseReasons : ~Reported(queue, t, e)) =>
              ReportsIn(queue, t) = {} /\ ReasonIn(queue, t) = "none"
<1>1. ASSUME NEW i \in DOMAIN queue
      PROVE  /\ i \in ReportsIn(queue, t) <=> \E e \in CloseReasons : queue[i] = DestroyTick(t, e)
             /\ \A e : queue[i] = DestroyTick(t, e) => queue[i].err = e
  <2>1. queue[i] \in TickRecords OBVIOUS
  <2>2. \A u, e : DestroyTick(u, e).op = "destroy" /\ DestroyTick(u, e).tunnel = u /\ DestroyTick(u, e).err = e
    BY DEF DestroyTick
  <2>3. FillTick.op # "destroy" BY DEF FillTick
  <2>4. queue[i] = FillTick \/ \E u \in Tunnels, e \in CloseReasons : queue[i] = DestroyTick(u, e)
    BY <2>1, TickFacts
  <2> QED BY <2>2, <2>3, <2>4 DEF ReportsIn
<1>2. ReportsIn(queue, t) \subseteq DOMAIN queue BY DEF ReportsIn
<1>3. ASSUME NEW e \in CloseReasons, Reported(queue, t, e)
      PROVE  (\E i : ReportsIn(queue, t) = {i}) /\ ReasonIn(queue, t) = e
  <2>1. PICK i \in DOMAIN queue : queue[i] = DestroyTick(t, e) BY <1>3 DEF Reported
  <2>2. \A j \in ReportsIn(queue, t) : j = i BY <1>1, <1>2, <2>1 DEF OnceEach
  <2>3. i \in ReportsIn(queue, t) BY <1>1, <2>1
  <2>4. (CHOOSE j \in ReportsIn(queue, t) : TRUE) = i BY <2>2, <2>3
  <2>5. ReasonIn(queue, t) = e BY <1>1, <2>1, <2>3, <2>4 DEF ReasonIn
  <2> QED BY <2>2, <2>3, <2>5
<1>4. ASSUME \A e \in CloseReasons : ~Reported(queue, t, e) PROVE ReportsIn(queue, t) = {}
  BY <1>1, <1>2, <1>4 DEF Reported
<1> QED BY <1>3, <1>4 DEF ReasonIn

\* Each live tunnel is in the list exactly once, and one that was destroyed is
\* reported to _onTunnelDestroy exactly once: no socket escapes the cluster.
THEOREM NothingLeaks == Spec => []NoLeak
<1>1. LInv => NoLeak
  <2> SUFFICES ASSUME LInv PROVE NoLeak OBVIOUS
  <2>1. ticks \in Seq(TickRecords) /\ OnceEach(ticks) BY DEF LInv, IInv, TypeOK, Tracked
  <2>2. ASSUME NEW t \in Tunnels
        PROVE  Cardinality(Reports(t)) = IF phase[t] = "destroyed" THEN 1 ELSE 0
    <3>1. CASE phase[t] = "destroyed"
      <4>1. PICK e \in CloseReasons : Reported(ticks, t, e)
        BY <3>1 DEF LInv, Tracked, DestroyedReported
      <4>2. PICK i : Reports(t) = {i} BY <2>1, <4>1, ReportsFacts DEF Reports, ReportsIn
      <4> QED BY <3>1, <4>2, FS_Singleton
    <3>2. CASE phase[t] # "destroyed"
      <4>1. Reports(t) = {}
        BY <2>1, <3>2, ReportsFacts DEF LInv, Tracked, DestroyedReported, Reports, ReportsIn
      <4> QED BY <3>2, <4>1, FS_EmptySet
    <3> QED BY <3>1, <3>2
  <2> QED BY <2>2 DEF NoLeak, LInv, IInv, LiveAreListed, Tracked, ListedNotFree
<1> QED BY <1>1, LifeInvariance, PTL

\* The cluster treats each tunnel as a TunnelLife: it uses none again before it
\* was reported, and closes none twice.
THEOREM TunnelsLive == Spec => LifeSpec
<1> DEFINE AllLive == \A t \in Tunnels : [Life(t)!Next]_(Life(t)!vars)
<1>1. Init => \A t \in Tunnels : Life(t)!Init
  <2> SUFFICES ASSUME Init, NEW t \in Tunnels PROVE Life(t)!Init OBVIOUS
  <2>1. phase[t] = "free" BY DEF Init
  <2>2. Reports(t) = {} BY DEF Init, Reports, FillTick
  <2> QED BY <2>1, <2>2 DEF Life!Init
<1>2. ASSUME LInv, [Next]_vars PROVE AllLive
  <2> SUFFICES ASSUME NEW t \in Tunnels PROVE [Life(t)!Next]_(Life(t)!vars) OBVIOUS
  <2>1. LInv' /\ Moved(t) BY <1>2, NextLInv DEF AllMoved
  <2>2. PICK old, new : old = ReasonIn(ticks, t) /\ new = ReasonIn(ticks', t) OBVIOUS
  <2>3. /\ old = IF Reports(t) = {} THEN "none" ELSE ticks[CHOOSE i \in Reports(t) : TRUE].err
        /\ new = (IF Reports(t) = {} THEN "none" ELSE ticks[CHOOSE i \in Reports(t) : TRUE].err)'
    BY <2>2 DEF ReasonIn, ReportsIn, Reports
  <2>4. /\ ticks \in Seq(TickRecords) /\ OnceEach(ticks)
        /\ phase[t] = "destroyed" <=> \E e \in CloseReasons : Reported(ticks, t, e)
    BY <1>2 DEF LInv, IInv, TypeOK, Tracked, DestroyedReported
  <2>5. /\ ticks' \in Seq(TickRecords) /\ OnceEach(ticks')
        /\ phase'[t] = "destroyed" <=> \E e \in CloseReasons : Reported(ticks', t, e)
    BY <2>1 DEF LInv, IInv, TypeOK, Tracked, DestroyedReported
  <2>6. /\ \A e \in CloseReasons : Reported(ticks, t, e) => old = e
        /\ phase[t] # "destroyed" => old = "none"
    BY <2>2, <2>4, ReportsFacts
  <2>7. /\ \A e \in CloseReasons : Reported(ticks', t, e) => new = e
        /\ phase'[t] # "destroyed" => new = "none"
    BY <2>2, <2>5, ReportsFacts
  <2>8. CASE /\ phase'[t] = phase[t]
             /\ \A e \in CloseReasons : Reported(ticks, t, e) => Reported(ticks', t, e)
    <3>1. new = old BY <2>4, <2>6, <2>7, <2>8
    <3> QED BY <2>3, <2>8, <3>1 DEF Life!vars
  <2>9. CASE phase[t] = "free" /\ phase'[t] = "connecting"
    BY <2>3, <2>6, <2>7, <2>9 DEF Life!Next, Life!Create
  <2>10. CASE phase[t] = "connecting" /\ phase'[t] = "connected"
    BY <2>3, <2>6, <2>7, <2>10 DEF Life!Next, Life!Connect
  <2>11. CASE /\ phase[t] \in {"connecting", "connected"} /\ phase'[t] = "destroyed"
              /\ \E e \in {"none", "network"} \cup IF phase[t] = "connecting" THEN {"forbidden"} ELSE {} :
                   Reported(ticks', t, e)
    <3>1. PICK e \in {"none", "network"} \cup IF phase[t] = "connecting" THEN {"forbidden"} ELSE {} :
            Reported(ticks', t, e)
      BY <2>11
    <3>2. new = e BY <2>7, <3>1 DEF CloseReasons
    <3>3. Life(t)!Close BY <2>3, <2>11, <3>1, <3>2 DEF Life!Close
    <3> QED BY <3>3 DEF Life!Next
  <2>12. CASE phase[t] = "destroyed" /\ phase'[t] = "free"
    BY <2>3, <2>7, <2>12 DEF Life!Next, Life!Report
  <2> QED BY <2>1, <2>8, <2>9, <2>10, <2>11, <2>12 DEF Moved
<1>3. LInv /\ [Next]_vars => [AllLive]_vars BY <1>2
<1> QED BY <1>1, <1>3, LifeInvariance, PTL DEF Spec, LifeSpec
-----------------------------------------------------------------------------
\* A step of the pool of open tunnels, or none.
PoolStep == [Pool!Next]_<<state, Live>>

\* A handler that destroys the cluster ends the pool: the tunnels it lists are
\* all there are.
LEMMA DestroyPools ==
  ASSUME NEW ts \in Seq(Tunnels), NEW ph, NEW queue,
         \A t \in Tunnels : ph[t] \in {"connecting", "connected"} => t \in ToSet(ts),
         DestroyCluster(ts, ph, queue)
  PROVE  PoolStep
<1>1. /\ phase' = [t \in Tunnels |-> IF t \in ToSet(ts) THEN "destroyed" ELSE ph[t]]
      /\ state' = "destroyed"
  BY DEF DestroyCluster, PopTunnels
<1>2. Live' = {} BY <1>1 DEF Live
<1> QED BY <1>1, <1>2 DEF PoolStep, Pool!Next, Pool!Destroy

\* The same when the list and the tunnels are as they were.
LEMMA DestroyListedPools ==
  ASSUME LInv, NEW queue, DestroyCluster(tunnels, phase, queue)
  PROVE  PoolStep
<1>1. tunnels \in Seq(Tunnels) /\ Live \subseteq ToSet(tunnels)
  BY DEF LInv, IInv, TypeOK, LiveAreListed, Listed
<1> QED BY <1>1, DestroyPools DEF Live

\* A step that leaves the state and the sockets alone.
LEMMA UntouchedPool ==
  ASSUME UNCHANGED <<state, phase>>
  PROVE  PoolStep
BY DEF PoolStep, Live

\* _doFill opens what is missing and nothing more: no listed tunnel is still to
\* be reported, so the list is as long as the pool is large.
LEMMA TickFillPools ==
  ASSUME LInv, TickFill
  PROVE  PoolStep
<1> DEFINE missing == Limit[state] - Len(tunnels)
<1>1. /\ tunnels \in Seq(Tunnels) /\ ticks # <<>> /\ Head(ticks) = FillTick /\ state \in Modes
  BY DEF TickFill, LInv, IInv, TypeOK
<1>2. \A t \in Listed : t \in Tunnels /\ phase[t] \in {"connecting", "connected"}
  <2> SUFFICES ASSUME NEW t \in Listed PROVE t \in Tunnels /\ phase[t] # "destroyed" BY ListedLive
  <2>1. t \in Tunnels BY ListedLive
  <2>2. ASSUME phase[t] = "destroyed" PROVE FALSE
    <3>1. PICK e \in CloseReasons : ticks = <<DestroyTick(t, e)>>
      BY <2>2 DEF LInv, Tracked, ListedReportedFirst
    <3> QED BY <1>1, <2>1, <3>1, TickFacts
  <2> QED BY <2>1, <2>2
<1>3. CASE UNCHANGED <<state, tunnels, phase>> BY <1>3, UntouchedPool
<1>4. CASE DestroyCluster(tunnels, phase, Tail(ticks)) BY <1>4, DestroyListedPools
<1>5. CASE /\ missing > 0
           /\ \E new \in [1..missing -> {t \in Tunnels : phase[t] = "free"}] :
                /\ IsInjective(new)
                /\ tunnels' = tunnels \o new
                /\ phase' = [t \in Tunnels |-> IF t \in ToSet(new) THEN "connecting" ELSE phase[t]]
           /\ UNCHANGED state
  <2>1. PICK new \in [1..missing -> {t \in Tunnels : phase[t] = "free"}] :
          /\ IsInjective(new)
          /\ tunnels' = tunnels \o new
          /\ phase' = [t \in Tunnels |-> IF t \in ToSet(new) THEN "connecting" ELSE phase[t]]
    BY <1>5
  <2>2. Limit[state] \in Nat /\ Pool!Limit[state] = Limit[state]
    BY <1>1, MaxConnectionsAssumption DEF Limit, Pool!Limit, Modes
  <2>3. PICK m \in Nat : m = missing
    <3>1. Len(tunnels) \in Nat BY <1>1
    <3> QED BY <1>5, <2>2, <3>1
  <2>4. m = Limit[state] - Len(tunnels) BY <2>3
  <2> HIDE DEF missing
  <2>5. /\ new \in Seq(Tunnels) /\ Len(new) = m
        /\ \A t \in ToSet(new) : t \in Tunnels /\ phase[t] = "free"
    <3>1. /\ DOMAIN new = 1..m /\ new \in [1..m -> Tunnels]
          /\ \A i \in 1..m : new[i] \in Tunnels /\ phase[new[i]] = "free"
      BY <2>1, <2>3
    <3>2. new \in Seq(Tunnels) /\ Len(new) = m BY <3>1
    <3> QED BY <3>1, <3>2 DEF ToSet
  <2>6. ToSet(tunnels) \cap ToSet(new) = {} BY <2>5 DEF LInv, Tracked, ListedNotFree, Listed
  <2>7. /\ tunnels' \in Seq(Tunnels) /\ IsInjective(tunnels')
        /\ ToSet(tunnels') = ToSet(tunnels) \cup ToSet(new)
        /\ Len(tunnels') = Limit[state]
    <3>1. IsInjective(tunnels) BY DEF LInv, Tracked
    <3>2. IsInjective(tunnels \o new) /\ ToSet(tunnels \o new) = ToSet(tunnels) \cup ToSet(new)
      BY <1>1, <2>1, <2>5, <2>6, <3>1, ConcatInjective, ToSetConcat
    <3>3. tunnels \o new \in Seq(Tunnels) /\ Len(tunnels \o new) = Len(tunnels) + Len(new)
      BY <1>1, <2>5
    <3>4. Len(tunnels \o new) = Limit[state] BY <1>1, <2>2, <2>4, <2>5, <3>3
    <3> QED BY <2>1, <3>2, <3>3, <3>4
  <2>8. Live' = ToSet(tunnels')
    <3>1. Live = Listed BY <1>2 DEF Live, LInv, IInv, LiveAreListed
    <3>2. Live' = Live \cup ToSet(new) BY <2>1, <2>5 DEF Live
    <3> QED BY <2>7, <3>1, <3>2 DEF Listed
  <2>9. Live \subseteq Live' /\ Live' \subseteq Tunnels
    BY <2>1, <2>5 DEF Live
  <2>10. Cardinality(Live') = Limit[state] BY <2>7, <2>8, InjectiveCardinality
  <2>11. Pool!Open
    <3>1. PICK S \in SUBSET Tunnels : S = Live' BY <2>9
    <3>2. Live \subseteq S /\ Cardinality(S) = Pool!Limit[state] BY <2>2, <2>9, <2>10, <3>1
    <3>3. S \in {T \in SUBSET Tunnels : Live \subseteq T /\ Pool!Cardinality(T) = Pool!Limit[state]}
      <4>1. Pool!Cardinality(S) = Cardinality(S) BY DEF Pool!Cardinality, Cardinality
      <4> QED BY <3>2, <4>1
    <3> QED BY <1>5, <3>1, <3>3 DEF Pool!Open
  <2> QED BY <2>11 DEF PoolStep, Pool!Next
<1> QED BY <1>3, <1>4, <1>5 DEF TickFill

\* The report of a tunnel finds its socket closed already, and may end the pool.
LEMMA TickDestroyPools ==
  ASSUME LInv, TickDestroy
  PROVE  PoolStep
<1> DEFINE t == Head(ticks).tunnel
           err == Head(ticks).err
           left == RemoveFromArray(tunnels, t)
           freed == [phase EXCEPT ![t] = "free"]
<1>1. /\ tunnels \in Seq(Tunnels) /\ ticks \in Seq(TickRecords) /\ phase \in [Tunnels -> Phases]
      /\ ticks # <<>> /\ Head(ticks).op = "destroy" /\ Head(ticks) \in TickRecords
      /\ Head(ticks) # FillTick /\ Live \subseteq ToSet(tunnels)
  BY DEF TickDestroy, LInv, IInv, TypeOK, FillTick, LiveAreListed, Listed
<1>2. t \in Tunnels /\ err \in CloseReasons /\ Head(ticks) = DestroyTick(t, err)
  <2>1. PICK u \in Tunnels, e \in CloseReasons : Head(ticks) = DestroyTick(u, e) BY <1>1, TickFacts
  <2>2. DestroyTick(u, e).tunnel = u /\ DestroyTick(u, e).err = e BY DEF DestroyTick
  <2> QED BY <2>1, <2>2
<1>3. \/ UNCHANGED state /\ phase' = freed
      \/ DestroyCluster(left, freed, Tail(ticks))
  BY DEF TickDestroy
<1>4. left \in Seq(Tunnels) /\ ToSet(tunnels) \ {t} \subseteq ToSet(left)
  BY <1>1, RemoveFromArrayFact
<1>5. phase[t] = "destroyed"
  <2>1. ticks[1] = DestroyTick(t, err) /\ 1 \in DOMAIN ticks BY <1>1, <1>2
  <2> QED BY <1>2, <2>1 DEF LInv, Tracked, DestroyedReported, Reported
<1>6. \A u \in Tunnels : freed[u] = IF u = t THEN "free" ELSE phase[u] BY <1>1, <1>2
<1> HIDE DEF t, err, left, freed
<1>7. CASE UNCHANGED state /\ phase' = freed
  <2>1. Live' = Live BY <1>5, <1>6, <1>7 DEF Live
  <2> QED BY <1>7, <2>1 DEF PoolStep
<1>8. CASE DestroyCluster(left, freed, Tail(ticks))
  <2>1. \A u \in Tunnels : freed[u] \in {"connecting", "connected"} => u \in ToSet(left)
    BY <1>1, <1>4, <1>6 DEF Live
  <2> QED BY <1>4, <1>8, <2>1, DestroyPools
<1> QED BY <1>3, <1>7, <1>8

\* The idle timer keeps the oldest tunnel, which is live, and closes the others.
LEMMA IdleTimerPools ==
  ASSUME LInv, IdleTimerFires
  PROVE  PoolStep
<1>1. CASE UNCHANGED <<state, tunnels, phase>> BY <1>1, UntouchedPool
<1>2. CASE /\ state = "active" /\ state' = "idle"
           /\ tunnels = <<>> /\ UNCHANGED phase
  <2>1. Live = {} /\ Live' = {}
    BY <1>2 DEF LInv, IInv, LiveAreListed, Listed, Live, ToSet
  <2>2. Pool!Shrink BY <1>2, <2>1 DEF Pool!Shrink
  <2> QED BY <2>2 DEF PoolStep, Pool!Next
<1>3. CASE /\ state = "active" /\ state' = "idle"
           /\ tunnels # <<>> /\ PopTunnels(<<Head(tunnels)>>, Tail(tunnels), phase, ticks)
  <2>1. LoopIdle /\ tunnels \in Seq(Tunnels) /\ IsInjective(tunnels)
    BY DEF IdleTimerFires, LInv, IInv, TypeOK, Tracked
  <2>2. PICK h \in Tunnels : h = Head(tunnels) BY <1>3, <2>1
  <2>3. /\ Listed = {h} \cup ToSet(Tail(tunnels))
        /\ h \notin ToSet(Tail(tunnels))
    BY <1>3, <2>1, <2>2, ToSetHeadTail, HeadTailFacts DEF Listed
  <2>4. h \in Listed /\ phase[h] \in {"connecting", "connected"} BY <2>1, <2>3, IdleFacts
  <2>5. phase' = [t \in Tunnels |-> IF t \in ToSet(Tail(tunnels)) THEN "destroyed" ELSE phase[t]]
    BY <1>3 DEF PopTunnels
  <2>6. Live \subseteq Listed BY DEF LInv, IInv, LiveAreListed
  <2>7. h \in Live /\ Live' = {h} BY <2>3, <2>4, <2>5, <2>6 DEF Live
  <2>8. Pool!Shrink BY <1>3, <2>7 DEF Pool!Shrink
  <2> QED BY <2>8 DEF PoolStep, Pool!Next
<1> QED BY <1>1, <1>2, <1>3 DEF IdleTimerFires

\* The retry timer finds no tunnel: an active pool shrinks, an idle one stays.
LEMMA ReconnectTimerPools ==
  ASSUME LInv, ReconnectTimerFires
  PROVE  PoolStep
<1>1. CASE UNCHANGED <<state, phase>> BY <1>1, UntouchedPool
<1>2. CASE DestroyCluster(tunnels, phase, ticks) BY <1>2, DestroyListedPools
<1>3. CASE reconnectTimer = "armed" /\ tunnels = <<>> /\ state' = "idle" /\ UNCHANGED phase
  <2>1. state \in {"idle", "active"}
    BY <1>3 DEF LInv, IInv, TypeOK, Modes, OwnNothing, Alive
  <2>2. Live = {} /\ Live' = {}
    BY <1>3 DEF LInv, IInv, LiveAreListed, Listed, Live, ToSet
  <2>3. CASE state = "idle" BY <1>3, <2>3, UntouchedPool
  <2>4. CASE state = "active"
    <3>1. Pool!Shrink BY <1>3, <2>2, <2>4 DEF Pool!Shrink
    <3> QED BY <3>1 DEF PoolStep, Pool!Next
  <2> QED BY <2>1, <2>3, <2>4
<1> QED BY <1>1, <1>2, <1>3 DEF ReconnectTimerFires

\* Traffic needs a tunnel that is established, so the pool is not empty.
LEMMA ActivityPools ==
  ASSUME LInv, NEW t \in Tunnels, TunnelActivity(t)
  PROVE  PoolStep
<1>1. t \in Live /\ state' = "active" /\ UNCHANGED phase BY DEF TunnelActivity, Live
<1>2. Alive BY <1>1, LiveMeansAlive DEF LInv
<1>3. Live' = Live BY <1>1 DEF Live
<1>4. Pool!Activate BY <1>1, <1>2, <1>3 DEF Pool!Activate, Alive
<1> QED BY <1>4 DEF PoolStep, Pool!Next

\* A tunnel that is answered stays open; one that closes leaves the pool.
LEMMA ResolvesPools ==
  ASSUME LInv, NEW t \in Tunnels, Resolves(t)
  PROVE  PoolStep
<1>1. phase \in [Tunnels -> Phases] BY DEF LInv, IInv, TypeOK
<1>2. CASE TunnelConnected(t)
  <2>1. phase[t] = "connecting" /\ phase' = [phase EXCEPT ![t] = "connected"] /\ state' = state
    BY <1>2 DEF TunnelConnected
  <2>2. \A u \in Tunnels : phase'[u] = IF u = t THEN "connected" ELSE phase[u] BY <1>1, <2>1
  <2>3. Live' = Live BY <2>1, <2>2 DEF Live
  <2> QED BY <2>1, <2>3 DEF PoolStep
<1>3. CASE ConnectThenDestroys(t) BY <1>3, DestroyListedPools DEF ConnectThenDestroys
<1>4. ASSUME NEW err \in CloseReasons, TunnelCloses(t, err) PROVE PoolStep
  <2>1. t \in Live /\ phase' = [phase EXCEPT ![t] = "destroyed"] /\ state' = state
    BY <1>4 DEF TunnelCloses
  <2>2. \A u \in Tunnels : phase'[u] = IF u = t THEN "destroyed" ELSE phase[u] BY <1>1, <2>1
  <2>3. Live' = Live \ {t} BY <2>2 DEF Live
  <2>4. Pool!Close BY <2>1, <2>3 DEF Pool!Close
  <2> QED BY <2>4 DEF PoolStep, Pool!Next
<1> QED BY <1>2, <1>3, <1>4 DEF Resolves

\* Every step is a step of the pool or none.
LEMMA NextPools == LInv /\ [Next]_vars => PoolStep
<1> SUFFICES ASSUME LInv, [Next]_vars PROVE PoolStep OBVIOUS
<1>1. CASE TickFill BY <1>1, TickFillPools
<1>2. CASE TickDestroy BY <1>2, TickDestroyPools
<1>3. CASE IdleTimerFires BY <1>3, IdleTimerPools
<1>4. CASE ReconnectTimerFires BY <1>4, ReconnectTimerPools
<1>5. CASE RetryThenDestroys BY <1>5, DestroyListedPools DEF RetryThenDestroys
<1>6. CASE UserDestroy BY <1>6, DestroyListedPools DEF UserDestroy
<1>7. CASE UserFill BY <1>7, UntouchedPool DEF UserFill
<1>8. CASE Stopped \/ UNCHANGED vars BY <1>8, UntouchedPool DEF Stopped, vars
<1>9. ASSUME NEW t \in Tunnels, Resolves(t) \/ TunnelActivity(t) PROVE PoolStep
  BY <1>9, ResolvesPools, ActivityPools
<1> QED BY <1>1, <1>2, <1>3, <1>4, <1>5, <1>6, <1>7, <1>8, <1>9 DEF Next, Tick, Timer

\* The cluster is a bounded pool of tunnels: it opens exactly what is missing,
\* grows only while a tunnel is open, shrinks to one that was open, and opens
\* nothing once it is destroyed.
THEOREM ClusterIsPool == Spec => PoolSpec
<1>1. Init => Pool!Init
  <2> SUFFICES ASSUME Init PROVE Pool!Init OBVIOUS
  <2>1. state = "idle" /\ phase = [t \in Tunnels |-> "free"] BY DEF Init
  <2>2. Live = {} BY <2>1 DEF Live
  <2> QED BY <2>1, <2>2 DEF Pool!Init
<1>2. LInv /\ [Next]_vars => [Pool!Next]_<<state, Live>> BY NextPools DEF PoolStep
<1> QED BY <1>1, <1>2, LifeInvariance, PTL DEF Spec, PoolSpec, Pool!Spec
=============================================================================
