------------------------------ MODULE Cluster ------------------------------
(***************************************************************************)
(* The reverse-tunnel cluster of lib/tunnel-cluster.js with the resumable  *)
(* timers of lib/utils.js.                                                 *)
(*                                                                         *)
(* A JavaScript callback runs to completion, so one action is one callback *)
(* with everything it calls synchronously.  The callbacks queued by        *)
(* process.nextTick (the variable ticks) run before the event loop takes   *)
(* the next socket event or timer, which is what the guard LoopIdle says.  *)
(* A tunnel is the Tunnel object of lib/tunnel.js reduced to its life      *)
(* cycle; Tunnel.tla has its inside.                                       *)
(***************************************************************************)
EXTENDS Integers, Sequences, FiniteSets, SequencesExt

CONSTANTS
  Tunnels,          \* identities of tunnels; one is reused once it was closed and reported
  MaxConnections,   \* options.maxConnections
  RetryCount,       \* options.retryCount
  MaxErrors,        \* size of the error log (100 in the code)
  CleanCloses,      \* can the server close a tunnel it never established without an error?
  ListenerDestroys, \* events whose user listener calls destroy() in the middle of a handler
  UserCalls         \* methods the application calls: a subset of {"fill", "destroy"}

ASSUME MaxConnectionsAssumption == MaxConnections \in Nat \ {0}
ASSUME TunnelsAssumption == IsFiniteSet(Tunnels) /\ Cardinality(Tunnels) > MaxConnections
ASSUME RetryCountAssumption == RetryCount \in Nat
ASSUME MaxErrorsAssumption == MaxErrors \in Nat
ASSUME CleanClosesAssumption == CleanCloses \in BOOLEAN
ASSUME ListenersAssumption == ListenerDestroys \subseteq {"connect", "state"}
ASSUME UserCallsAssumption == UserCalls \subseteq {"fill", "destroy"}

VARIABLES
  state,          \* _state
  tunnels,        \* tunnels, in order of creation
  phase,          \* what each Tunnel object is doing
  ticks,          \* the queue of process.nextTick
  fillQueued,     \* _fillQueued
  idleTimer,      \* _idleTimer
  reconnectTimer, \* _reconnectTimer
  attempts,       \* _reconnectAttempts
  errors,         \* length of errors
  connector,      \* livestyleConnector
  hasUrl,         \* is options.connectUrl given?
  callback,       \* is the constructor's 'connect' callback still registered?
  crashed         \* did a handler throw?  An uncaught exception ends the process

timers == <<idleTimer, reconnectTimer>>
vars == <<state, tunnels, phase, ticks, fillQueued, timers, attempts, errors,
          connector, hasUrl, callback, crashed>>

-----------------------------------------------------------------------------
Modes == {"idle", "active", "destroyed"}
Phases == {"free", "connecting", "connected", "destroyed"}
\* "fired": the timer ran, but ResumableTimer still holds its _timerId.
\* "null": the property holding the timer was set to null.
TimerStates == {"off", "armed", "fired", "null"}
CloseReasons == {"none", "forbidden", "network"}

FillTick == [op |-> "fill"]
DestroyTick(t, err) == [op |-> "destroy", tunnel |-> t, err |-> err]
TickRecords == {FillTick} \cup {DestroyTick(t, err) : t \in Tunnels, err \in CloseReasons}

TypeOK ==
  /\ state \in Modes
  /\ tunnels \in Seq(Tunnels)
  /\ phase \in [Tunnels -> Phases]
  /\ ticks \in Seq(TickRecords)
  /\ fillQueued \in BOOLEAN
  /\ idleTimer \in TimerStates
  /\ reconnectTimer \in TimerStates
  /\ attempts \in 0..RetryCount
  /\ errors \in 0..MaxErrors
  /\ connector \in {"running", "null"}
  /\ hasUrl \in BOOLEAN
  /\ callback \in BOOLEAN
  /\ crashed \in BOOLEAN

-----------------------------------------------------------------------------
\* ResumableTimer.  start() does nothing while _timerId is set, and _timerId
\* survives the firing of the timer; stop() clears it.
Start(timer) == IF timer = "off" THEN "armed" ELSE timer
\* Slips: stop() keeps the _timerId of a timer that has fired; restart() does
\* not call stop().
StopsArmedOnly(timer) == IF timer = "fired" THEN "fired" ELSE "off"
Stop(timer) == "off"
StartsOnly(timer) == Start(timer)
Restart(timer) == Start(Stop(timer))

\* The number of tunnels _doFill fills up to.
Limit == [idle |-> 1, active |-> MaxConnections, destroyed |-> 0]

Alive == state # "destroyed"
Listed == ToSet(tunnels)
Connected == {t \in Tunnels : phase[t] = "connected"}
Live == {t \in Tunnels : phase[t] \in {"connecting", "connected"}}

\* The event loop takes a socket event or a timer when no tick is waiting.
LoopIdle == ticks = <<>> /\ ~crashed

\* fill() called when the rest of the handler leaves the tick queue as queue.
Fill(queue) ==
  /\ fillQueued' = TRUE
  /\ ticks' = IF fillQueued THEN queue ELSE Append(queue, FillTick)

\* The ticks of Tunnel.destroy() called on the tunnels of ts, last one first.
DestroyTicks(ts) == [i \in 1..Len(ts) |-> DestroyTick(Reverse(ts)[i], "none")]

\* A slip: the tunnels that are popped are not destroyed, just forgotten.
PopAndForget(kept, gone, ph, queue) ==
  /\ tunnels' = kept
  /\ phase' = [t \in Tunnels |-> IF t \in ToSet(gone) THEN "free" ELSE ph[t]]
  /\ ticks' = queue

\* while (tunnels.length > ...) tunnels.pop().destroy()
PopTunnels(kept, gone, ph, queue) ==
  /\ tunnels' = kept
  /\ phase' = [t \in Tunnels |-> IF t \in ToSet(gone) THEN "destroyed" ELSE ph[t]]
  /\ ticks' = queue \o DestroyTicks(gone)

\* A slip: the LiveStyle connector outlives the cluster.
DestroyKeepsConnector(ts, ph, queue) ==
  /\ PopTunnels(<<>>, ts, ph, queue)
  /\ state' = "destroyed"
  /\ idleTimer' = "null"
  /\ reconnectTimer' = "null"
  /\ UNCHANGED connector

\* destroy() of a cluster that lists ts; on a destroyed cluster ts is empty
\* and nothing changes.
DestroyCluster(ts, ph, queue) ==
  /\ PopTunnels(<<>>, ts, ph, queue)
  /\ state' = "destroyed"
  /\ idleTimer' = "null"
  /\ reconnectTimer' = "null"
  /\ connector' = "null"

-----------------------------------------------------------------------------
\* The constructor: it arms the idle timer and queues the first fill.  A
\* LiveStyleConnector needs a URL to parse.
Init ==
  /\ state = "idle"
  /\ tunnels = <<>>
  /\ phase = [t \in Tunnels |-> "free"]
  /\ ticks = <<FillTick>>
  /\ fillQueued = TRUE
  /\ idleTimer = "armed"
  /\ reconnectTimer = "off"
  /\ attempts = 0
  /\ errors = 0
  /\ hasUrl \in BOOLEAN
  /\ connector \in IF hasUrl THEN {"running", "null"} ELSE {"null"}
  /\ callback = TRUE
  /\ crashed = FALSE

\* A slip: the retries that were used up stay used up.
ConnectedKeepsAttempts(t) ==
  /\ LoopIdle
  /\ phase[t] = "connecting"
  /\ phase' = [phase EXCEPT ![t] = "connected"]
  /\ reconnectTimer' = Stop(reconnectTimer)
  /\ Fill(ticks)
  /\ callback' = FALSE
  /\ UNCHANGED <<state, tunnels, idleTimer, attempts, errors, connector, hasUrl, crashed>>

\* The tunnel's handshake succeeded: _onTunnelConnect, _onClusterConnect.
TunnelConnected(t) ==
  /\ LoopIdle
  /\ phase[t] = "connecting"
  /\ phase' = [phase EXCEPT ![t] = "connected"]
  /\ reconnectTimer' = Stop(reconnectTimer)
  /\ attempts' = 0
  /\ Fill(ticks)
  /\ callback' = FALSE
  /\ UNCHANGED <<state, tunnels, idleTimer, errors, connector, hasUrl, crashed>>

\* The callback given to the constructor, the first 'connect' listener and
\* registered with once(), calls destroy().  The emitter goes on to _onClusterConnect, which
\* dereferences the _reconnectTimer that destroy() has set to null.
ConnectThenDestroys(t) ==
  /\ LoopIdle
  /\ phase[t] = "connecting"
  /\ "connect" \in ListenerDestroys
  /\ callback
  /\ DestroyCluster(tunnels, phase, ticks)
  /\ callback' = FALSE
  /\ crashed' = TRUE
  /\ UNCHANGED <<fillQueued, attempts, errors, hasUrl>>

\* The local server answered: _onTunnelActivity, _onClusterActivity.
TunnelActivity(t) ==
  /\ LoopIdle
  /\ phase[t] = "connected"
  /\ idleTimer' = Restart(idleTimer)
  /\ state' = "active"
  /\ Fill(ticks)
  /\ UNCHANGED <<tunnels, phase, reconnectTimer, attempts, errors, connector, hasUrl, callback, crashed>>

\* The ways a socket closes on its own.  The server refuses only a tunnel it
\* has not established.
CloseErrors(t) ==
  IF phase[t] = "connecting"
  THEN {"forbidden", "network"} \cup IF CleanCloses THEN {"none"} ELSE {}
  ELSE {"none", "network"}

\* The tunnel's socket failed or closed: Tunnel.destroy(err).
TunnelCloses(t, err) ==
  /\ LoopIdle
  /\ t \in Live
  /\ err \in CloseErrors(t)
  /\ phase' = [phase EXCEPT ![t] = "destroyed"]
  /\ ticks' = Append(ticks, DestroyTick(t, err))
  /\ UNCHANGED <<state, tunnels, fillQueued, timers, attempts, errors, connector, hasUrl, callback, crashed>>

\* A slip: an item that is not there takes the last one with it.
RemoveFromEnd(arr, item) ==
  IF item \in ToSet(arr) THEN RemoveAt(arr, CHOOSE ix \in DOMAIN arr : arr[ix] = item)
  ELSE SubSeq(arr, 1, Len(arr) - 1)

\* utils.removeFromArray: drop item, which is in arr at most once (NoLeak).
RemoveFromArray(arr, item) ==
  IF item \in ToSet(arr)
  THEN RemoveAt(arr, CHOOSE ix \in DOMAIN arr : arr[ix] = item)
  ELSE arr

\* _fill, _doFill, createTunnel: the tunnels that are missing.  The first one
\* that has no URL to connect to destroys the cluster.
TickFill ==
  /\ ~crashed
  /\ ticks # <<>>
  /\ Head(ticks) = FillTick
  /\ fillQueued' = FALSE
  /\ LET missing == Limit[state] - Len(tunnels) IN
       \/ /\ missing <= 0
          /\ ticks' = Tail(ticks)
          /\ UNCHANGED <<state, tunnels, phase, timers, connector>>
       \/ /\ missing > 0
          /\ hasUrl
          /\ \E new \in [1..missing -> {t \in Tunnels : phase[t] = "free"}] :
               /\ IsInjective(new)
               /\ tunnels' = tunnels \o new
               /\ phase' = [t \in Tunnels |-> IF t \in ToSet(new) THEN "connecting" ELSE phase[t]]
          /\ ticks' = Tail(ticks)
          /\ UNCHANGED <<state, timers, connector>>
       \/ /\ missing > 0
          /\ ~hasUrl
          /\ DestroyCluster(tunnels, phase, Tail(ticks))
  /\ UNCHANGED <<attempts, errors, hasUrl, callback, crashed>>

\* A tunnel's 'destroy' event, after which nothing refers to the tunnel:
\* _onTunnelDestroy, and for an error writeError, _onClusterTunnerError and,
\* if the server refused the session, _onClusterError.
TickDestroy ==
  /\ ~crashed
  /\ ticks # <<>>
  /\ Head(ticks).op = "destroy"
  /\ LET t == Head(ticks).tunnel
         err == Head(ticks).err
         left == RemoveFromArray(tunnels, t)
         freed == [phase EXCEPT ![t] = "free"]
     IN
       \/ /\ err = "none"
          /\ tunnels' = left
          /\ phase' = freed
          /\ Fill(Tail(ticks))
          /\ UNCHANGED <<state, timers, errors, connector>>
       \/ /\ err # "none"
          /\ errors' = IF errors < MaxErrors THEN errors + 1 ELSE errors
          /\ UNCHANGED fillQueued
          /\ \/ /\ err = "forbidden"
                /\ DestroyCluster(left, freed, Tail(ticks))
             \/ /\ err = "network"
                /\ tunnels' = left
                /\ phase' = freed
                /\ ticks' = Tail(ticks)
                /\ reconnectTimer' = IF Alive THEN Restart(reconnectTimer) ELSE reconnectTimer
                /\ UNCHANGED <<state, idleTimer, connector>>
  /\ UNCHANGED <<attempts, hasUrl, callback, crashed>>

\* Slips: going idle keeps all the tunnels, or none.
IdleKeepsAll ==
  /\ LoopIdle
  /\ idleTimer = "armed"
  /\ idleTimer' = "fired"
  /\ state' = IF state = "active" THEN "idle" ELSE state
  /\ UNCHANGED <<tunnels, phase, ticks, fillQueued, reconnectTimer, attempts, errors, connector, hasUrl, callback, crashed>>
IdleKeepsNone ==
  /\ LoopIdle
  /\ idleTimer = "armed"
  /\ idleTimer' = "fired"
  /\ state = "active"
  /\ state' = "idle"
  /\ PopTunnels(<<>>, tunnels, phase, ticks)
  /\ UNCHANGED <<fillQueued, reconnectTimer, attempts, errors, connector, hasUrl, callback, crashed>>

\* createClusterIdleTimer: back to one tunnel, the oldest one.
IdleTimerFires ==
  /\ LoopIdle
  /\ idleTimer = "armed"
  /\ idleTimer' = "fired"
  /\ \/ /\ state = "active"
        /\ state' = "idle"
        /\ IF tunnels = <<>> THEN UNCHANGED <<tunnels, phase, ticks>>
           ELSE PopTunnels(<<Head(tunnels)>>, Tail(tunnels), phase, ticks)
     \/ /\ state # "active"
        /\ UNCHANGED <<state, tunnels, phase, ticks>>
  /\ UNCHANGED <<fillQueued, reconnectTimer, attempts, errors, connector, hasUrl, callback, crashed>>

\* Slips: one retry too many; and retries that are not counted.
RetryAfter(limit, used) ==
  /\ LoopIdle
  /\ reconnectTimer = "armed"
  /\ tunnels = <<>>
  /\ attempts <= limit
  /\ reconnectTimer' = "fired"
  /\ attempts' = used
  /\ state' = "idle"
  /\ idleTimer' = Restart(idleTimer)
  /\ Fill(ticks)
  /\ UNCHANGED <<tunnels, phase, connector, errors, hasUrl, callback, crashed>>
RetryOnceMore == RetryAfter(RetryCount, attempts + 1)
RetryUncounted == RetryAfter(RetryCount, attempts)

\* createClusterReconnectTimer: a tunnel is there again, or the retries are
\* used up, or it is time for one more.
ReconnectTimerFires ==
  /\ LoopIdle
  /\ reconnectTimer = "armed"
  /\ \/ /\ tunnels # <<>>
        /\ reconnectTimer' = "fired"
        /\ UNCHANGED <<state, tunnels, phase, ticks, fillQueued, idleTimer, attempts, connector>>
     \/ /\ tunnels = <<>>
        /\ attempts >= RetryCount
        /\ DestroyCluster(tunnels, phase, ticks)
        /\ UNCHANGED <<fillQueued, attempts>>
     \/ /\ tunnels = <<>>
        /\ attempts < RetryCount
        /\ reconnectTimer' = "fired"
        /\ attempts' = attempts + 1
        /\ state' = "idle"
        /\ idleTimer' = Restart(idleTimer)
        /\ Fill(ticks)
        /\ UNCHANGED <<tunnels, phase, connector>>
  /\ UNCHANGED <<errors, hasUrl, callback, crashed>>

\* A 'state' listener calls destroy() when the retry takes an active cluster
\* back to idle; the handler goes on to restart an _idleTimer that is null.
RetryThenDestroys ==
  /\ LoopIdle
  /\ "state" \in ListenerDestroys
  /\ reconnectTimer = "armed"
  /\ tunnels = <<>>
  /\ attempts < RetryCount
  /\ state = "active"
  /\ DestroyCluster(tunnels, phase, ticks)
  /\ attempts' = attempts + 1
  /\ crashed' = TRUE
  /\ UNCHANGED <<fillQueued, errors, hasUrl, callback>>

\* The application's own calls, from a callback of its own or from a listener
\* that a handler runs last: no listed tunnel is then waiting to be reported.
UserRuns == ~crashed /\ \A i \in DOMAIN tunnels : phase[tunnels[i]] # "destroyed"

UserDestroy ==
  /\ UserRuns
  /\ "destroy" \in UserCalls
  /\ Alive
  /\ DestroyCluster(tunnels, phase, ticks)
  /\ UNCHANGED <<fillQueued, attempts, errors, hasUrl, callback, crashed>>

UserFill ==
  /\ UserRuns
  /\ "fill" \in UserCalls
  /\ Fill(ticks)
  /\ UNCHANGED <<state, tunnels, phase, timers, attempts, errors, connector, hasUrl, callback, crashed>>

\* The process has crashed or the cluster is gone and everything was reported.
Stopped ==
  /\ crashed \/ (~Alive /\ ticks = <<>>)
  /\ UNCHANGED vars

Tick == TickFill \/ TickDestroy
Timer == IdleTimerFires \/ ReconnectTimerFires \/ RetryThenDestroys
Resolves(t) == TunnelConnected(t) \/ ConnectThenDestroys(t) \/ \E err \in CloseReasons : TunnelCloses(t, err)

Next ==
  \/ Tick
  \/ Timer
  \/ \E t \in Tunnels : Resolves(t) \/ TunnelActivity(t)
  \/ UserDestroy
  \/ UserFill
  \/ Stopped

\* The tick queue is drained before anything else runs.  A timer that stays
\* armed fires, unless it is restarted over and over again.  That a tunnel
\* being established is answered, refused or lost is an assumption on the
\* network: the code sets no timeout of its own on it.
RestartsIdle == (\E t \in Tunnels : TunnelActivity(t)) \/ (ReconnectTimerFires /\ tunnels = <<>>)
RestartsReconnect == TickDestroy /\ Head(ticks).err = "network"

Fairness ==
  /\ WF_vars(Tick)
  /\ <>[](idleTimer = "armed") => []<><<RestartsIdle>>_vars
  /\ <>[](reconnectTimer = "armed") => []<><<RestartsReconnect>>_vars
  /\ \A t \in Tunnels : SF_vars(phase[t] = "connecting" /\ Resolves(t))

Spec == Init /\ [][Next]_vars
FairSpec == Spec /\ Fairness

-----------------------------------------------------------------------------
\* The ticks that will report tunnel t.
Reports(t) == {i \in DOMAIN ticks : ticks[i].op = "destroy" /\ ticks[i].tunnel = t}

\* No socket escapes the cluster: each live tunnel is in the list exactly
\* once, and a tunnel that was destroyed, by itself, by the idle shrink or by
\* destroy(), is reported to _onTunnelDestroy exactly once.
NoLeak ==
  /\ IsInjective(tunnels)
  /\ Live \subseteq Listed
  /\ \A t \in Tunnels : Cardinality(Reports(t)) = IF phase[t] = "destroyed" THEN 1 ELSE 0
  /\ \A t \in Listed : phase[t] # "free"

\* However fills, shrinks, retries and closing tunnels interleave, the list
\* never exceeds what the state of the cluster allows, nor does it hold
\* anything once the cluster is destroyed.
Capacity == Len(tunnels) <= Limit[state]

\* A cluster that waits for its next event is never without a tunnel for
\* good: with no tunnel left, the retry timer is running.
NoStall == LoopIdle /\ Alive /\ tunnels = <<>> => reconnectTimer = "armed"

\* An active cluster always has a pending idle timer to return it to idle,
\* also when that timer has fired before.
ActiveHasIdleTimer == state = "active" => idleTimer = "armed"

\* The retries used up by one outage are not charged to the next one: while a
\* tunnel is established the budget of retries is whole.
EstablishedMeansFullBudget == Connected # {} => attempts = 0

\* destroy() releases everything it owns whatever the handler it interrupts:
\* sockets, timers and the LiveStyle connector.
DestroyedReleasesAll ==
  ~Alive => /\ Live = {}
            /\ tunnels = <<>>
            /\ timers = <<"null", "null">>
            /\ connector = "null"

\* No handler dereferences what a listener it has called set to null.
NoCrash == ~crashed

\* The cluster implements the bounded pool of TunnelPool: what the pool calls
\* open are the tunnels that hold a socket.
Pool == INSTANCE TunnelPool WITH mode <- state, open <- Live
PoolSpec == Pool!Spec

\* The cluster treats each tunnel as TunnelLife says a tunnel behaves: it never
\* uses one again before its 'destroy' event was delivered, and closes it once.
Life(t) ==
  INSTANCE TunnelLife WITH
    phase <- phase[t],
    reason <- IF Reports(t) = {} THEN "none" ELSE ticks[CHOOSE i \in Reports(t) : TRUE].err
LifeSpec ==
  /\ \A t \in Tunnels : Life(t)!Init
  /\ [][\A t \in Tunnels : [Life(t)!Next]_(Life(t)!vars)]_vars

\* A cluster whose local server stays silent does not stay active for ever.
IdleShrinks ==
  []<><<\E t \in Tunnels : TunnelActivity(t)>>_vars \/ <>[](state # "active" /\ Len(tunnels) <= 1)

\* An outage ends: a tunnel is established again, or the cluster gives up.
OutageResolves == tunnels = <<>> ~> (Connected # {} \/ ~Alive)

\* It does, unless what calls for tunnels without counting a retry comes over
\* and over: a clean close of a tunnel that was not established, or fill().
OutageEnds ==
  \/ []<><<\E t \in Tunnels : phase[t] = "connecting" /\ TunnelCloses(t, "none")>>_vars
  \/ []<><<UserFill>>_vars
  \/ OutageResolves
=============================================================================
