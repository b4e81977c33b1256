-------------------------- MODULE ConnectorProofs --------------------------
(***************************************************************************)
(* Safety of Connector for any number of connections and whatever the      *)
(* servers and the listeners of the application do, and that it treats     *)
(* each connection as a ChannelLife.                                       *)
(***************************************************************************)
EXTENDS Connector, FiniteSetTheorems, TLAPS

\* The inductive invariant, in named parts.
OneEffort ==
  \A s \in Sides :
    /\ retries[s] \in 0..1
    /\ \A i, j \in InFlight(s) : i = j
    /\ InFlight(s) # {} => retries[s] = 0
ClientHolds ==
  \A s \in Sides : client[s] # null =>
    /\ phase[<<s, client[s]>>] \in {"open", "closing", "dead"}
    /\ ~destroyed => retries[s] = 0 /\ InFlight(s) \subseteq {client[s]}
HeardIsClient == \A i \in heard : i = client["local"]
DestroyedIsDead ==
  destroyed => \A s \in Sides : client[s] # null => phase[<<s, client[s]>>] = "dead"
ListensUntilDestroy == listening = ~destroyed
ToldOfBoth ==
  /\ (\A s \in Sides : client[s] # null) => told = "connect"
  /\ (\A s \in Sides : client[s] = null) => told # "connect"
AnnouncedFits ==
  \A s \in Sides :
    /\ \A i \in InFlight(s) : announced[s] = "Connect" <=> phase[<<s, i>>] \in Alive
    /\ retries[s] > 0 => announced[s] # "Connect"

IInv ==
  /\ TypeOK
  /\ OneEffort
  /\ ClientHolds
  /\ HeardIsClient
  /\ DestroyedIsDead
  /\ ListensUntilDestroy
  /\ ToldOfBoth
  /\ AnnouncedFits

USE SlotsAssumption, ListenerCallsAssumption

-----------------------------------------------------------------------------
\* The first request of each side runs, and no other connection exists.
LEMMA InitIInv == Init => IInv
<1> SUFFICES ASSUME Init PROVE IInv OBVIOUS
<1>1. PICK i \in Slots : phase = [c \in Connections |-> IF c[2] = i THEN "connecting" ELSE "free"]
  BY DEF Init
<1>2. \A s \in Sides : InFlight(s) = {i}
  BY <1>1 DEF InFlight, Alive, Connections
<1>3. TypeOK
  <2>1. phase \in [Connections -> Phases] BY <1>1 DEF Phases
  <2>2. {listening, destroyed, crashed} \subseteq BOOLEAN BY DEF Init
  <2>3. client \in [Sides -> Slots \cup {null}] /\ retries \in [Sides -> 0..2] BY DEF Init
  <2> QED BY <2>1, <2>2, <2>3 DEF Init, TypeOK
<1>4. OneEffort BY <1>2 DEF Init, OneEffort
<1>5. ToldOfBoth BY DEF Init, ToldOfBoth, Sides
<1>6. AnnouncedFits BY <1>1, <1>2 DEF Init, AnnouncedFits, Alive, Connections
<1> QED
  BY <1>3, <1>4, <1>5, <1>6
  DEF Init, IInv, ClientHolds, HeardIsClient, DestroyedIsDead, ListensUntilDestroy

\* A request that fails ends its connection and starts the one retry of its side.
LEMMA HandshakeFailsStep ==
  ASSUME IInv, NEW s \in Sides, NEW i \in Slots, HandshakeFails(s, i), crashed' = crashed
  PROVE  IInv'
<1>1. /\ phase[<<s, i>>] = "connecting" /\ phase' = [phase EXCEPT ![<<s, i>>] = "free"]
      /\ leftover' \subseteq Sides \X {"response", "upgrade"}
      /\ retries' = IF destroyed THEN retries ELSE [retries EXCEPT ![s] = @ + 1]
      /\ UNCHANGED <<watched, heard, client, listening, destroyed, told, announced, crashed>>
  BY DEF HandshakeFails, IInv, TypeOK, Answers, Reconnect
<1>2. i \in InFlight(s) /\ <<s, i>> \in Connections BY <1>1 DEF InFlight, Connections
<1>3. (retries[s] = 0 /\ client[s] = null) \/ destroyed
  BY <1>1, <1>2 DEF IInv, OneEffort, ClientHolds
<1>4. InFlight(s)' = {} /\ \A r \in Sides \ {s} : InFlight(r)' = InFlight(r)
  BY <1>1, <1>2 DEF IInv, TypeOK, OneEffort, InFlight, Alive, Connections
<1>5. TypeOK'
  BY <1>1, <1>2 DEF IInv, TypeOK, OneEffort, Phases
<1>6. OneEffort' BY <1>1, <1>2, <1>4 DEF IInv, TypeOK, OneEffort
<1>7. ClientHolds' BY <1>1, <1>2, <1>3, <1>4 DEF IInv, TypeOK, ClientHolds, Connections
<1>8. DestroyedIsDead' BY <1>1, <1>2 DEF IInv, TypeOK, DestroyedIsDead, Connections
<1>9. AnnouncedFits'
  <2>1. announced[s] # "Connect" BY <1>1, <1>2 DEF IInv, AnnouncedFits, Alive
  <2>2. \A r \in Sides \ {s} : retries'[r] = retries[r] BY <1>1 DEF IInv, TypeOK
  <2>3. \A r \in Sides \ {s} : \A j \in InFlight(r) : phase'[<<r, j>>] = phase[<<r, j>>]
    BY <1>1, <1>2 DEF IInv, TypeOK, InFlight, Connections
  <2> QED BY <1>1, <1>4, <2>1, <2>2, <2>3 DEF IInv, AnnouncedFits
<1> QED
  BY <1>1, <1>5, <1>6, <1>7, <1>8, <1>9 DEF IInv, HeardIsClient, ListensUntilDestroy, ToldOfBoth

\* onLocalConnect and onRemoteConnect keep what concerns the pointers.
LEMMA OnConnectFacts ==
  ASSUME IInv, ~destroyed, NEW s \in Sides, NEW i \in Slots, phase[<<s, i>>] = "connecting"
  PROVE  /\ client[s] = null /\ retries[s] = 0 /\ InFlight(s) = {i}
         /\ Joined(s, i) \in [Sides -> Slots \cup {null}]
         /\ Joined(s, i)[s] = i /\ \A r \in Sides \ {s} : Joined(s, i)[r] = client[r]
         /\ Listened(s, i) \subseteq Slots
         /\ \A j \in Listened(s, i) : j = Joined(s, i)["local"]
         /\ ToldJoined(s) \in {"none", "connect", "disconnect"}
         /\ (\A r \in Sides : Joined(s, i)[r] # null) => ToldJoined(s) = "connect"
         /\ ~\A r \in Sides : Joined(s, i)[r] = null
<1>1. i \in InFlight(s) BY DEF InFlight
<1>2. client[s] = null /\ retries[s] = 0 /\ InFlight(s) = {i}
  <2>1. retries[s] = 0 /\ InFlight(s) = {i} BY <1>1 DEF IInv, OneEffort
  <2>2. ASSUME client[s] # null PROVE FALSE
    <3>1. i \in {client[s]} BY <1>1, <2>2 DEF IInv, ClientHolds
    <3> QED BY <2>2, <3>1 DEF IInv, ClientHolds
  <2> QED BY <2>1, <2>2
<1>3. /\ Joined(s, i) \in [Sides -> Slots \cup {null}]
      /\ Joined(s, i)[s] = i /\ \A r \in Sides \ {s} : Joined(s, i)[r] = client[r]
  BY DEF Joined, IInv, TypeOK
<1>4. Listened(s, i) \subseteq Slots /\ \A j \in Listened(s, i) : j = Joined(s, i)["local"]
  BY <1>2, <1>3 DEF Listened, IInv, TypeOK, HeardIsClient, Sides
<1>5. /\ ToldJoined(s) \in {"none", "connect", "disconnect"}
      /\ (\A r \in Sides : Joined(s, i)[r] # null) => ToldJoined(s) = "connect"
  BY <1>3 DEF ToldJoined, Other, IInv, TypeOK, Sides
<1>6. ~\A r \in Sides : Joined(s, i)[r] = null BY <1>3
<1> QED BY <1>2, <1>3, <1>4, <1>5, <1>6

\* A connection that is accepted becomes its side's channel, and with the other side
\* there too the application hears of it.
LEMMA HandshakeSucceedsStep ==
  ASSUME IInv, NEW s \in Sides, NEW i \in Slots, HandshakeSucceeds(s, i), crashed' = crashed
  PROVE  IInv'
<1>1. /\ phase[<<s, i>>] = "connecting" /\ phase' = [phase EXCEPT ![<<s, i>>] = "open"]
      /\ watched' = watched \cup {<<s, i>>} /\ announced' = [announced EXCEPT ![s] = "Connect"]
      /\ UNCHANGED <<leftover, retries, listening, destroyed, crashed>>
  BY DEF HandshakeSucceeds, Announced
<1>2. <<s, i>> \in Connections BY DEF Connections
<1>3. \A r \in Sides : InFlight(r)' = InFlight(r)
  BY <1>1, <1>2 DEF IInv, TypeOK, InFlight, Alive, Connections
<1>4. OneEffort' BY <1>1, <1>3 DEF IInv, OneEffort
<1>7. AnnouncedFits'
  <2>1. InFlight(s) = {i} /\ retries[s] = 0 BY <1>1 DEF InFlight, IInv, OneEffort
  <2>2. \A r \in Sides \ {s} : \A j \in InFlight(r) : phase'[<<r, j>>] = phase[<<r, j>>]
    BY <1>1, <1>2 DEF IInv, TypeOK, InFlight, Connections
  <2>3. announced'[s] = "Connect" /\ \A r \in Sides \ {s} : announced'[r] = announced[r]
    BY <1>1 DEF IInv, TypeOK
  <2>4. phase'[<<s, i>>] = "open" BY <1>1, <1>2 DEF IInv, TypeOK
  <2> QED BY <1>1, <1>3, <2>1, <2>2, <2>3, <2>4 DEF IInv, AnnouncedFits, Alive
<1>5. CASE destroyed
  <2>1. UNCHANGED <<client, heard, told>>
    BY <1>5 DEF HandshakeSucceeds, IInv, ListensUntilDestroy
  <2>2. TypeOK' BY <1>1, <1>2, <2>1 DEF IInv, TypeOK, Phases
  <2>3. ClientHolds' BY <1>1, <1>2, <1>5, <2>1 DEF IInv, TypeOK, ClientHolds, Connections
  <2>4. DestroyedIsDead' BY <1>1, <1>2, <2>1 DEF IInv, TypeOK, DestroyedIsDead, Connections
  <2> QED
    BY <1>1, <1>4, <1>7, <2>1, <2>2, <2>3, <2>4 DEF IInv, HeardIsClient, ListensUntilDestroy, ToldOfBoth
<1>6. CASE ~destroyed
  <2>1. client' = Joined(s, i) /\ heard' = Listened(s, i) /\ told' = ToldJoined(s)
    BY <1>6 DEF HandshakeSucceeds, OnConnect, IInv, ListensUntilDestroy
  <2>2. /\ retries[s] = 0 /\ InFlight(s) = {i}
        /\ client' \in [Sides -> Slots \cup {null}]
        /\ client'[s] = i /\ \A r \in Sides \ {s} : client'[r] = client[r]
        /\ heard' \subseteq Slots /\ \A j \in heard' : j = client'["local"]
        /\ told' \in {"none", "connect", "disconnect"}
        /\ (\A r \in Sides : client'[r] # null) => told' = "connect"
        /\ ~\A r \in Sides : client'[r] = null
    BY <1>1, <1>6, <2>1, OnConnectFacts
  <2>3. TypeOK' BY <1>1, <1>2, <2>2 DEF IInv, TypeOK, Phases
  <2>4. ClientHolds'
    BY <1>1, <1>2, <1>3, <2>2 DEF IInv, TypeOK, ClientHolds, Connections
  <2>5. HeardIsClient' /\ ToldOfBoth' BY <2>2 DEF HeardIsClient, ToldOfBoth
  <2> QED
    BY <1>1, <1>4, <1>6, <1>7, <2>3, <2>4, <2>5 DEF IInv, ListensUntilDestroy, DestroyedIsDead
<1> QED BY <1>5, <1>6

\* A listener that drops the new connection leaves a dead client, and no retry.
LEMMA ListenerDropsStep ==
  ASSUME IInv, NEW s \in Sides, NEW i \in Slots, ListenerDrops(s, i), crashed' = crashed
  PROVE  IInv'
<1>1. /\ phase[<<s, i>>] = "connecting" /\ phase' = [phase EXCEPT ![<<s, i>>] = "dead"]
      /\ watched' = watched \cup {<<s, i>>} /\ announced' = [announced EXCEPT ![s] = "Connect"]
      /\ UNCHANGED <<leftover, retries, listening, destroyed, crashed>>
  BY DEF ListenerDrops, Announced
<1>2. <<s, i>> \in Connections BY DEF Connections
<1>3. InFlight(s) = {i} /\ retries[s] = 0 BY <1>1 DEF InFlight, IInv, OneEffort
<1>4. InFlight(s)' = {} /\ \A r \in Sides \ {s} : InFlight(r)' = InFlight(r)
  BY <1>1, <1>2, <1>3 DEF IInv, TypeOK, InFlight, Alive, Connections
<1>5. OneEffort' BY <1>1, <1>4 DEF IInv, OneEffort
<1>6. AnnouncedFits'
  <2>1. \A r \in Sides \ {s} : \A j \in InFlight(r) : phase'[<<r, j>>] = phase[<<r, j>>]
    BY <1>1, <1>2 DEF IInv, TypeOK, InFlight, Connections
  <2>2. \A r \in Sides \ {s} : announced'[r] = announced[r] BY <1>1 DEF IInv, TypeOK
  <2> QED BY <1>1, <1>3, <1>4, <2>1, <2>2 DEF IInv, AnnouncedFits
<1>7. CASE destroyed
  <2>1. UNCHANGED <<client, heard, told>>
    BY <1>7 DEF ListenerDrops, IInv, ListensUntilDestroy
  <2>2. TypeOK' BY <1>1, <1>2, <2>1 DEF IInv, TypeOK, Phases
  <2>3. ClientHolds' BY <1>1, <1>2, <1>7, <2>1 DEF IInv, TypeOK, ClientHolds, Connections
  <2>4. DestroyedIsDead' BY <1>1, <1>2, <2>1 DEF IInv, TypeOK, DestroyedIsDead, Connections
  <2> QED
    BY <1>1, <1>5, <1>6, <2>1, <2>2, <2>3, <2>4 DEF IInv, HeardIsClient, ListensUntilDestroy, ToldOfBoth
<1>8. CASE ~destroyed
  <2>1. client' = Joined(s, i) /\ heard' = Listened(s, i) /\ told' = ToldJoined(s)
    BY <1>8 DEF ListenerDrops, OnConnect, IInv, ListensUntilDestroy
  <2>2. /\ client' \in [Sides -> Slots \cup {null}]
        /\ client'[s] = i /\ \A r \in Sides \ {s} : client'[r] = client[r]
        /\ heard' \subseteq Slots /\ \A j \in heard' : j = client'["local"]
        /\ told' \in {"none", "connect", "disconnect"}
        /\ (\A r \in Sides : client'[r] # null) => told' = "connect"
        /\ ~\A r \in Sides : client'[r] = null
    BY <1>1, <1>8, <2>1, OnConnectFacts
  <2>3. TypeOK' BY <1>1, <1>2, <2>2 DEF IInv, TypeOK, Phases
  <2>4. ClientHolds'
    BY <1>1, <1>2, <1>3, <1>4, <2>2 DEF IInv, TypeOK, ClientHolds, Connections
  <2>5. HeardIsClient' /\ ToldOfBoth' BY <2>2 DEF HeardIsClient, ToldOfBoth
  <2> QED
    BY <1>1, <1>5, <1>6, <1>8, <2>3, <2>4, <2>5 DEF IInv, ListensUntilDestroy, DestroyedIsDead
<1> QED BY <1>7, <1>8

\* destroy() and onDestroy, with the pointers as they are by then.
LEMMA OnDestroyStep ==
  ASSUME IInv, NEW cl \in [Sides -> Slots \cup {null}], NEW hd \in SUBSET Slots,
         NEW tl \in {"none", "connect", "disconnect"},
         NEW an \in [Sides -> {"none", "Connect", "Disconnect"}], OnDestroy(cl, hd, tl, an),
         \A j \in hd : j = cl["local"],
         (\A r \in Sides : cl[r] # null) => tl = "connect",
         (\A r \in Sides : cl[r] = null) => tl # "connect",
         \A r \in Sides : an[r] = announced[r] \/ InFlight(r) = {cl[r]},
         \A r \in Sides : retries[r] > 0 => an[r] # "Connect",
         watched' \subseteq Connections, UNCHANGED <<leftover, retries, crashed>>
  PROVE  IInv'
<1> DEFINE noticed(s) == cl[s] # null /\ <<s, cl[s]>> \in watched /\ phase[<<s, cl[s]>>] \in Alive
<1>1. /\ destroyed' = TRUE /\ listening' = FALSE
      /\ phase' = [c \in Connections |-> IF cl[c[1]] = c[2] THEN "dead" ELSE phase[c]]
      /\ client' = [s \in Sides |-> IF noticed(s) THEN null ELSE cl[s]]
      /\ heard' = IF noticed("local") THEN hd \ {cl["local"]} ELSE hd
      /\ told' = IF \/ noticed("local") /\ cl["remote"] = null
                    \/ noticed("remote") /\ client'["local"] = null
                 THEN "disconnect" ELSE tl
      /\ announced' = [s \in Sides |-> IF noticed(s) THEN "Disconnect" ELSE an[s]]
  BY DEF OnDestroy
<1>2. \A s \in Sides : noticed(s) => cl[s] # null /\ cl[s] \in InFlight(s) BY DEF InFlight
<1> HIDE DEF noticed
<1>3. \A s \in Sides : client'[s] = IF noticed(s) THEN null ELSE cl[s] BY <1>1
<1>4. \A s \in Sides : InFlight(s)' \subseteq InFlight(s)
  BY <1>1 DEF InFlight, Alive, Connections
<1>5. TypeOK'
  <2>1. phase' \in [Connections -> Phases] BY <1>1 DEF IInv, TypeOK, Phases
  <2>2. client' \in [Sides -> Slots \cup {null}] BY <1>1
  <2> QED BY <1>1, <2>1, <2>2 DEF IInv, TypeOK
<1>6. OneEffort' BY <1>4 DEF IInv, OneEffort
<1>7. ASSUME NEW s \in Sides, client'[s] # null PROVE phase'[<<s, client'[s]>>] = "dead"
  <2>1. client'[s] = cl[s] /\ cl[s] \in Slots BY <1>3, <1>7
  <2> QED BY <1>1, <2>1 DEF Connections
<1>8. HeardIsClient' BY <1>1, <1>3 DEF HeardIsClient, Sides
<1>9. ToldOfBoth'
  <2>1. ASSUME \A s \in Sides : client'[s] # null PROVE told' = "connect"
    <3>1. ~noticed("local") /\ ~noticed("remote") BY <1>3, <2>1 DEF Sides
    <3>2. \A s \in Sides : cl[s] # null BY <1>3, <2>1, <3>1 DEF Sides
    <3> QED BY <1>1, <3>1, <3>2
  <2>2. ASSUME \A s \in Sides : client'[s] = null PROVE told' # "connect"
    <3>1. CASE noticed("remote") BY <1>1, <2>2, <3>1 DEF Sides
    <3>2. CASE ~noticed("remote")
      <4>1. cl["remote"] = null BY <1>3, <2>2, <3>2 DEF Sides
      <4>2. noticed("local") \/ cl["local"] = null BY <1>3, <2>2 DEF Sides
      <4> QED BY <1>1, <3>2, <4>1, <4>2 DEF Sides
    <3> QED BY <3>1, <3>2
  <2> QED BY <2>1, <2>2 DEF ToldOfBoth
<1>10. ClientHolds' /\ DestroyedIsDead' /\ ListensUntilDestroy'
  BY <1>1, <1>7 DEF ClientHolds, DestroyedIsDead, ListensUntilDestroy
<1>11. AnnouncedFits'
  <2> SUFFICES ASSUME NEW s \in Sides
               PROVE  /\ \A i \in InFlight(s)' : announced'[s] = "Connect" <=> phase'[<<s, i>>] \in Alive
                      /\ retries'[s] > 0 => announced'[s] # "Connect"
    BY DEF AnnouncedFits
  <2>1. \A i \in InFlight(s)' : i # cl[s] /\ phase'[<<s, i>>] = phase[<<s, i>>] /\ i \in InFlight(s)
    BY <1>1 DEF InFlight, Alive, Connections
  <2>2. InFlight(s) = {cl[s]} => InFlight(s)' = {} BY <2>1
  <2>3. CASE noticed(s)
    <3>1. InFlight(s) = {cl[s]} BY <1>2, <2>3 DEF IInv, OneEffort
    <3> QED BY <1>1, <2>2, <2>3, <3>1
  <2>4. CASE ~noticed(s)
    <3>1. announced'[s] = an[s] BY <1>1, <2>4
    <3> QED BY <2>1, <2>2, <3>1 DEF IInv, AnnouncedFits
  <2> QED BY <2>3, <2>4
<1> QED BY <1>5, <1>6, <1>8, <1>9, <1>10, <1>11 DEF IInv

\* A listener that destroys the connector empties both sides in the middle of a handler.
LEMMA ListenerDestroysStep ==
  ASSUME IInv, NEW s \in Sides, NEW i \in Slots, ListenerDestroys(s, i), crashed' = crashed
  PROVE  IInv'
<1>1. ~destroyed /\ phase[<<s, i>>] = "connecting"
  BY DEF ListenerDestroys, IInv, ListensUntilDestroy
<1>2. watched' \subseteq Connections BY DEF ListenerDestroys, IInv, TypeOK, Connections
<1> DEFINE an == Announced(s, "Connect")
<1>3. /\ an \in [Sides -> {"none", "Connect", "Disconnect"}]
      /\ \A r \in Sides \ {s} : an[r] = announced[r]
  BY DEF IInv, TypeOK, Announced
<1>4. /\ OnDestroy(Joined(s, i), Listened(s, i), ToldJoined(s), an)
      /\ UNCHANGED <<leftover, retries, crashed>>
  BY DEF ListenerDestroys
<1> HIDE DEF an
<1>5. /\ InFlight(s) = {i} /\ Joined(s, i)[s] = i /\ retries[s] = 0
      /\ Joined(s, i) \in [Sides -> Slots \cup {null}]
      /\ Listened(s, i) \in SUBSET Slots /\ \A j \in Listened(s, i) : j = Joined(s, i)["local"]
      /\ ToldJoined(s) \in {"none", "connect", "disconnect"}
      /\ (\A r \in Sides : Joined(s, i)[r] # null) => ToldJoined(s) = "connect"
      /\ ~\A r \in Sides : Joined(s, i)[r] = null
  BY <1>1, OnConnectFacts
<1>6. /\ \A r \in Sides : an[r] = announced[r] \/ InFlight(r) = {Joined(s, i)[r]}
      /\ \A r \in Sides : retries[r] > 0 => an[r] # "Connect"
  BY <1>3, <1>5 DEF IInv, AnnouncedFits
<1> QED BY <1>2, <1>3, <1>4, <1>5, <1>6, OnDestroyStep

\* destroy() empties both sides and goes on with nothing.
LEMMA DestroyStep ==
  ASSUME IInv, Destroy, crashed' = crashed
  PROVE  IInv'
<1>1. OnDestroy(client, heard, told, announced) /\ UNCHANGED <<leftover, watched, retries, crashed>>
  BY DEF Destroy
<1>2. /\ client \in [Sides -> Slots \cup {null}] /\ heard \in SUBSET Slots
      /\ told \in {"none", "connect", "disconnect"}
      /\ announced \in [Sides -> {"none", "Connect", "Disconnect"}]
      /\ watched' \subseteq Connections
  BY <1>1 DEF IInv, TypeOK
<1>3. /\ \A j \in heard : j = client["local"]
      /\ (\A r \in Sides : client[r] # null) => told = "connect"
      /\ (\A r \in Sides : client[r] = null) => told # "connect"
      /\ \A r \in Sides : retries[r] > 0 => announced[r] # "Connect"
  BY DEF IInv, HeardIsClient, ToldOfBoth, AnnouncedFits
<1> QED BY <1>1, <1>2, <1>3, OnDestroyStep

\* A connection that goes down stays the client until its 'close' is heard.
LEMMA GoesDownStep ==
  ASSUME IInv, NEW s \in Sides, NEW i \in Slots, GoesDown(s, i), crashed' = crashed
  PROVE  IInv'
<1>1. /\ phase[<<s, i>>] = "open" /\ phase' = [phase EXCEPT ![<<s, i>>] = "closing"]
      /\ UNCHANGED <<leftover, watched, heard, client, retries, listening, destroyed, told, announced, crashed>>
  BY DEF GoesDown
<1>2. <<s, i>> \in Connections BY DEF Connections
<1>3. \A r \in Sides : InFlight(r)' = InFlight(r)
  BY <1>1, <1>2 DEF IInv, TypeOK, InFlight, Alive, Connections
<1>4. TypeOK' BY <1>1, <1>2 DEF IInv, TypeOK, Phases
<1>5. OneEffort' BY <1>1, <1>3 DEF IInv, OneEffort
<1>6. ClientHolds' BY <1>1, <1>2, <1>3 DEF IInv, TypeOK, ClientHolds, Connections
<1>7. DestroyedIsDead' BY <1>1, <1>2 DEF IInv, TypeOK, DestroyedIsDead, Connections
<1>8. AnnouncedFits'
  <2>1. \A r \in Sides : \A j \in InFlight(r) :
          phase'[<<r, j>>] = phase[<<r, j>>] \/ (phase[<<r, j>>] = "open" /\ phase'[<<r, j>>] = "closing")
    BY <1>1, <1>2 DEF IInv, TypeOK, InFlight, Alive, Connections
  <2> QED BY <1>1, <1>3, <2>1 DEF IInv, AnnouncedFits, Alive
<1> QED
  BY <1>1, <1>4, <1>5, <1>6, <1>7, <1>8 DEF IInv, HeardIsClient, ListensUntilDestroy, ToldOfBoth

\* 'close' clears the pointer, is told if both are gone, and starts the one retry.
LEMMA ClosesStep ==
  ASSUME IInv, NEW s \in Sides, NEW i \in Slots, Closes(s, i), crashed' = crashed
  PROVE  IInv'
<1>1. /\ phase[<<s, i>>] \in Alive /\ phase' = [phase EXCEPT ![<<s, i>>] = "dead"]
      /\ retries' = IF destroyed THEN retries ELSE [retries EXCEPT ![s] = @ + 1]
      /\ announced' = [announced EXCEPT ![s] = "Disconnect"]
      /\ UNCHANGED <<leftover, watched, listening, destroyed, crashed>>
  BY DEF Closes, Reconnect, Announced
<1>2. <<s, i>> \in Connections /\ i \in InFlight(s) BY <1>1 DEF Connections, InFlight
<1>3. InFlight(s)' = {} /\ \A r \in Sides \ {s} : InFlight(r)' = InFlight(r)
  BY <1>1, <1>2 DEF IInv, TypeOK, OneEffort, InFlight, Alive, Connections
<1>4. OneEffort' BY <1>1, <1>2, <1>3 DEF IInv, TypeOK, OneEffort
<1>7. AnnouncedFits'
  <2>1. \A r \in Sides \ {s} : \A j \in InFlight(r) : phase'[<<r, j>>] = phase[<<r, j>>]
    BY <1>1, <1>2 DEF IInv, TypeOK, InFlight, Connections
  <2>2. announced'[s] = "Disconnect" /\ \A r \in Sides \ {s} : announced'[r] = announced[r]
    BY <1>1 DEF IInv, TypeOK
  <2>3. \A r \in Sides \ {s} : retries'[r] = retries[r] BY <1>1 DEF IInv, TypeOK
  <2> QED BY <1>3, <2>1, <2>2, <2>3 DEF IInv, AnnouncedFits
<1>5. CASE destroyed
  <2>1. UNCHANGED <<client, heard, told>> BY <1>5 DEF Closes, IInv, ListensUntilDestroy
  <2>2. TypeOK' BY <1>1, <1>2, <1>5, <2>1 DEF IInv, TypeOK, Phases
  <2>3. ClientHolds' BY <1>1, <1>2, <1>5, <2>1 DEF IInv, TypeOK, ClientHolds, Connections
  <2>4. DestroyedIsDead' BY <1>1, <1>2, <2>1 DEF IInv, TypeOK, DestroyedIsDead, Connections
  <2> QED
    BY <1>1, <1>4, <1>7, <2>1, <2>2, <2>3, <2>4 DEF IInv, HeardIsClient, ListensUntilDestroy, ToldOfBoth
<1>6. CASE ~destroyed
  <2>1. /\ client' = [client EXCEPT ![s] = null]
        /\ heard' = IF s = "local" THEN heard \ {i} ELSE heard
        /\ told' = IF client[Other(s)] = null THEN "disconnect" ELSE told
    BY <1>6 DEF Closes, OnDisconnect, IInv, ListensUntilDestroy
  <2>2. client' \in [Sides -> Slots \cup {null}] /\ client'[s] = null
        /\ \A r \in Sides \ {s} : client'[r] = client[r]
    BY <2>1 DEF IInv, TypeOK
  <2>3. TypeOK' BY <1>1, <1>2, <1>4, <2>1, <2>2 DEF IInv, TypeOK, Phases, OneEffort
  <2>4. ClientHolds'
    BY <1>1, <1>2, <1>3, <2>2 DEF IInv, TypeOK, ClientHolds, Connections
  <2>5. client[s] \in {null, i} BY <1>2, <1>6 DEF IInv, ClientHolds
  <2>6. HeardIsClient' BY <2>1, <2>2, <2>5 DEF IInv, TypeOK, HeardIsClient, Sides
  <2>7. ToldOfBoth' BY <2>1, <2>2 DEF IInv, ToldOfBoth, Other, Sides
  <2> QED
    BY <1>1, <1>4, <1>6, <1>7, <2>3, <2>4, <2>6, <2>7 DEF IInv, ListensUntilDestroy, DestroyedIsDead
<1> QED BY <1>5, <1>6

\* A connection of which nothing is heard any more frees its identity.
LEMMA IsForgottenStep ==
  ASSUME IInv, NEW s \in Sides, NEW i \in Slots, IsForgotten(s, i), crashed' = crashed
  PROVE  IInv'
<1>1. /\ phase[<<s, i>>] = "dead" /\ client[s] # i /\ phase' = [phase EXCEPT ![<<s, i>>] = "free"]
      /\ watched' = watched \ {<<s, i>>}
      /\ UNCHANGED <<leftover, heard, client, retries, listening, destroyed, told, announced, crashed>>
  BY DEF IsForgotten
<1>2. <<s, i>> \in Connections BY DEF Connections
<1>3. \A r \in Sides : InFlight(r)' = InFlight(r)
  BY <1>1, <1>2 DEF IInv, TypeOK, InFlight, Alive, Connections
<1>4. TypeOK' BY <1>1, <1>2 DEF IInv, TypeOK, Phases
<1>5. OneEffort' BY <1>1, <1>3 DEF IInv, OneEffort
<1>6. ClientHolds' BY <1>1, <1>2, <1>3 DEF IInv, TypeOK, ClientHolds, Connections
<1>7. DestroyedIsDead' BY <1>1, <1>2 DEF IInv, TypeOK, DestroyedIsDead, Connections
<1>8. AnnouncedFits'
  <2>1. \A r \in Sides : \A j \in InFlight(r) :
          phase'[<<r, j>>] = phase[<<r, j>>] \/ (phase[<<r, j>>] = "open" /\ phase'[<<r, j>>] = "closing")
    BY <1>1, <1>2 DEF IInv, TypeOK, InFlight, Alive, Connections
  <2> QED BY <1>1, <1>3, <2>1 DEF IInv, AnnouncedFits, Alive
<1> QED
  BY <1>1, <1>4, <1>5, <1>6, <1>7, <1>8 DEF IInv, HeardIsClient, ListensUntilDestroy, ToldOfBoth

\* A retry that fires starts the one request of its side, or nothing after destroy().
LEMMA RetryFiresStep ==
  ASSUME IInv, NEW s \in Sides, RetryFires(s), crashed' = crashed
  PROVE  IInv'
<1>1. /\ retries[s] = 1 /\ retries' = [retries EXCEPT ![s] = 0]
      /\ UNCHANGED <<leftover, watched, heard, client, listening, destroyed, told, announced, crashed>>
  <2>1. retries[s] = 1 BY DEF RetryFires, IInv, OneEffort
  <2>2. retries' = [retries EXCEPT ![s] = retries[s] - 1] BY DEF RetryFires
  <2> QED BY <2>1, <2>2 DEF RetryFires
<1>2. InFlight(s) = {} BY <1>1 DEF IInv, OneEffort
<1>3. CASE destroyed /\ phase' = phase
  <2>1. \A r \in Sides : InFlight(r)' = InFlight(r) BY <1>3 DEF InFlight
  <2> QED
    BY <1>1, <1>2, <1>3, <2>1
    DEF IInv, TypeOK, OneEffort, ClientHolds, HeardIsClient, DestroyedIsDead, ListensUntilDestroy,
        ToldOfBoth, AnnouncedFits
<1>4. ASSUME ~destroyed, NEW i \in Slots, phase[<<s, i>>] = "free",
             phase' = [phase EXCEPT ![<<s, i>>] = "connecting"]
      PROVE  IInv'
  <2>1. <<s, i>> \in Connections BY DEF Connections
  <2>2. InFlight(s)' = {i} /\ \A r \in Sides \ {s} : InFlight(r)' = InFlight(r)
    BY <1>2, <1>4, <2>1 DEF IInv, TypeOK, InFlight, Alive, Connections
  <2>3. client[s] = null
    <3> SUFFICES ASSUME client[s] # null PROVE FALSE OBVIOUS
    <3>1. retries[s] = 0 BY <1>4 DEF IInv, ClientHolds
    <3> QED BY <1>1, <3>1
  <2>4. TypeOK' BY <1>1, <1>4, <2>1 DEF IInv, TypeOK, Phases
  <2>5. OneEffort' BY <1>1, <2>2 DEF IInv, TypeOK, OneEffort
  <2>6. ClientHolds' BY <1>1, <1>4, <2>1, <2>2, <2>3 DEF IInv, TypeOK, ClientHolds, Connections
  <2>7. AnnouncedFits'
    <3>1. announced[s] # "Connect" BY <1>1 DEF IInv, AnnouncedFits
    <3>2. phase'[<<s, i>>] = "connecting" BY <1>4, <2>1 DEF IInv, TypeOK
    <3>3. \A r \in Sides \ {s} : \A j \in InFlight(r) : phase'[<<r, j>>] = phase[<<r, j>>]
      BY <1>4, <2>1 DEF IInv, TypeOK, InFlight, Connections
    <3>4. retries'[s] = 0 /\ \A r \in Sides \ {s} : retries'[r] = retries[r]
      BY <1>1 DEF IInv, TypeOK
    <3> QED BY <1>1, <2>2, <3>1, <3>2, <3>3, <3>4 DEF IInv, AnnouncedFits, Alive
  <2> QED
    BY <1>1, <1>4, <2>4, <2>5, <2>6, <2>7
    DEF IInv, HeardIsClient, ListensUntilDestroy, ToldOfBoth, DestroyedIsDead
<1> QED BY <1>3, <1>4 DEF RetryFires

\* A step that leaves the connections, the pointers and the timers alone.
LEMMA QuietStep ==
  ASSUME IInv, UNCHANGED <<phase, watched, heard, client, retries, listening, destroyed, told, announced>>,
         leftover' \subseteq leftover, crashed' \in BOOLEAN
  PROVE  IInv'
<1>1. TypeOK' BY DEF IInv, TypeOK
<1>2. \A s \in Sides : InFlight(s)' = InFlight(s) BY DEF InFlight
<1>3. OneEffort' /\ ClientHolds' BY <1>2 DEF IInv, OneEffort, ClientHolds
<1> QED BY <1>1, <1>2, <1>3 DEF IInv, HeardIsClient, DestroyedIsDead, ListensUntilDestroy, ToldOfBoth, AnnouncedFits

\* Every step keeps the invariant.
THEOREM NextIInv == IInv /\ [Next]_vars => IInv'
<1> SUFFICES ASSUME IInv, [Next]_vars PROVE IInv' OBVIOUS
<1>1. CASE Running(Step)
  <2>1. ASSUME NEW s \in Sides, HandshakeEnds(s), crashed' = crashed PROVE IInv'
    BY <2>1, HandshakeFailsStep, HandshakeSucceedsStep, ListenerDropsStep, ListenerDestroysStep
    DEF HandshakeEnds
  <2>2. ASSUME NEW s \in Sides, RetryFires(s), crashed' = crashed PROVE IInv'
    BY <2>2, RetryFiresStep
  <2>3. ASSUME NEW s \in Sides, LeftoverEnds(s), crashed' = crashed PROVE IInv'
    BY <2>3, QuietStep DEF LeftoverEnds, IInv, TypeOK
  <2>4. ASSUME NEW s \in Sides, NEW i \in Slots, GoesDown(s, i) \/ Closes(s, i) \/ IsForgotten(s, i),
               crashed' = crashed
        PROVE  IInv'
    BY <2>4, GoesDownStep, ClosesStep, IsForgottenStep
  <2>5. ASSUME Destroy, crashed' = crashed PROVE IInv' BY <2>5, DestroyStep
  <2> QED BY <1>1, <2>1, <2>2, <2>3, <2>4, <2>5 DEF Running, Step
<1>2. CASE MessageThrows BY <1>2, QuietStep DEF MessageThrows
<1>3. ASSUME NEW s \in Sides, LeftoverFails(s) PROVE IInv'
  BY <1>3, QuietStep DEF LeftoverFails, LeftoverError
<1>4. CASE UNCHANGED vars \/ Stopped BY <1>4, QuietStep DEF Stopped, vars, IInv, TypeOK
<1> QED BY <1>1, <1>2, <1>3, <1>4 DEF Next

\* The invariant holds in every state of every run, for all constants.
THEOREM Invariance == Spec => []IInv
BY InitIInv, NextIInv, PTL DEF Spec

\* Every variable keeps to its type: no listener brings a pointer to what is
\* not a connection, and the timers of a side are never more than two.
THEOREM TypeCorrect == Spec => []TypeOK
<1>1. IInv => TypeOK BY DEF IInv
<1> QED BY <1>1, Invariance, PTL

\* Each side has at most one channel or one attempt at it, however failures,
\* closes and retries meet.
THEOREM OneChannelHolds == Spec => []OneChannel
<1>1. ASSUME IInv, NEW s \in Sides PROVE Efforts(s) <= 1
  <2>1. Efforts(s) = retries[s] + Cardinality(InFlight(s)) BY DEF Efforts
  <2>2. retries[s] \in 0..1 /\ (InFlight(s) # {} => retries[s] = 0) BY <1>1 DEF IInv, OneEffort
  <2>3. CASE InFlight(s) = {} BY <2>1, <2>2, <2>3, FS_EmptySet
  <2>4. CASE InFlight(s) # {}
    <3>1. PICK i \in InFlight(s) : TRUE BY <2>4
    <3>2. InFlight(s) = {i} BY <1>1, <3>1 DEF IInv, OneEffort
    <3>3. Cardinality(InFlight(s)) = 1 BY <3>2, FS_Singleton
    <3> QED BY <2>1, <2>2, <2>4, <3>3
  <2> QED BY <2>3, <2>4
<1>2. IInv => OneChannel BY <1>1 DEF OneChannel
<1> QED BY <1>2, Invariance, PTL

\* 'connect' was the last word while both sides are there, and is not while
\* both are gone, also when destroy() is called in the middle of a handshake.
THEOREM ToldRightly == Spec => []ToldRight
<1>1. IInv => ToldRight BY DEF IInv, ToldOfBoth, AnnouncedFits, ToldRight
<1> QED BY <1>1, Invariance, PTL

\* Messages are forwarded from the present local connection only, and after
\* destroy() none reaches the remote server.
THEOREM OnlyPresentForwarded == Spec => []ForwardsPresent
<1>1. IInv => ForwardsPresent
  BY DEF IInv, ForwardsPresent, HeardIsClient, DestroyedIsDead, Sides
<1> QED BY <1>1, Invariance, PTL

\* After destroy() no attempt starts, 'connect' and 'disconnect' are not
\* emitted, and a side's own events only while something of it is in flight.
THEOREM SilenceKept == Spec => SilentAfterDestroy
<1> DEFINE Ends(s) == /\ InFlight(s)' \subseteq InFlight(s)
                      /\ announced'[s] # announced[s] => InFlight(s) # {}
           Silence == destroyed =>
             /\ told' = told
             /\ client' = client
             /\ \A s \in Sides : /\ InFlight(s)' \subseteq InFlight(s)
                                 /\ announced'[s] # announced[s] => InFlight(s) # {}
<1>1. ASSUME IInv, [Next]_vars, destroyed PROVE Silence
  <2>1. ~listening BY <1>1 DEF IInv, ListensUntilDestroy
  <2>2. ASSUME NEW s \in Sides, NEW i \in Slots, i \in InFlight(s) \/ UNCHANGED announced,
               NEW to \in Phases, phase' = [phase EXCEPT ![<<s, i>>] = to],
               to = "connecting" \/ to \in Alive => i \in InFlight(s),
               announced' = announced \/ \E event : announced' = [announced EXCEPT ![s] = event]
        PROVE  \A r \in Sides : Ends(r)
    BY <1>1, <2>2 DEF InFlight, IInv, TypeOK, Connections
  <2>3. ASSUME NEW s \in Sides, NEW i \in Slots,
               HandshakeFails(s, i) \/ HandshakeSucceeds(s, i) \/ ListenerDrops(s, i)
        PROVE  Silence
    <3>1. i \in InFlight(s) /\ told' = told /\ client' = client
      BY <2>1, <2>3 DEF HandshakeFails, HandshakeSucceeds, ListenerDrops, InFlight
    <3>2. /\ \E to \in Phases : phase' = [phase EXCEPT ![<<s, i>>] = to]
          /\ announced' = announced \/ \E event : announced' = [announced EXCEPT ![s] = event]
      BY <2>3 DEF HandshakeFails, HandshakeSucceeds, ListenerDrops, Announced, Phases
    <3> QED BY <2>2, <3>1, <3>2
  <2>4. ASSUME NEW s \in Sides, NEW i \in Slots, ListenerDestroys(s, i) PROVE Silence
    BY <2>1, <2>4 DEF ListenerDestroys
  <2>5. ASSUME NEW s \in Sides, RetryFires(s) \/ LeftoverEnds(s) \/ LeftoverFails(s) PROVE Silence
    BY <1>1, <2>5 DEF RetryFires, LeftoverEnds, LeftoverFails, InFlight
  <2>6. ASSUME NEW s \in Sides, NEW i \in Slots, GoesDown(s, i) \/ Closes(s, i) PROVE Silence
    <3>1. i \in InFlight(s) /\ told' = told /\ client' = client
      BY <2>1, <2>6 DEF GoesDown, Closes, InFlight, Alive
    <3>2. /\ \E to \in Phases : phase' = [phase EXCEPT ![<<s, i>>] = to]
          /\ announced' = announced \/ \E event : announced' = [announced EXCEPT ![s] = event]
      BY <2>6 DEF GoesDown, Closes, Announced, Phases
    <3> QED BY <2>2, <3>1, <3>2
  <2>7. ASSUME NEW s \in Sides, NEW i \in Slots, IsForgotten(s, i) PROVE Silence
    <3>1. /\ phase' = [phase EXCEPT ![<<s, i>>] = "free"] /\ "free" \in Phases
          /\ UNCHANGED <<told, client, announced>>
      BY <2>7 DEF IsForgotten, Phases
    <3> QED BY <2>2, <3>1 DEF Alive
  <2>8. ~Destroy BY <1>1 DEF Destroy
  <2>9. CASE MessageThrows \/ Stopped \/ UNCHANGED vars
    BY <2>9 DEF MessageThrows, Stopped, vars, InFlight
  <2> HIDE DEF Silence
  <2> QED
    BY <1>1, <2>3, <2>4, <2>5, <2>6, <2>7, <2>8, <2>9 DEF Next, Running, Step, HandshakeEnds
<1>2. IInv /\ [Next]_vars => Silence BY <1>1
<1>3. IInv /\ [Next]_vars => [Silence]_vars BY <1>2
<1> QED BY <1>3, Invariance, PTL DEF Spec, SilentAfterDestroy

-----------------------------------------------------------------------------
\* What one connection may do, as ChannelLife has it: the moves from one phase
\* to another that a step of ChannelLife allows.
Moves ==
  { <<"free", "connecting">>, <<"connecting", "free">>, <<"connecting", "open">>,
    <<"open", "closing">>, <<"connecting", "dead">>, <<"open", "dead">>,
    <<"closing", "dead">>, <<"dead", "free">> }

\* What a connection may do in one move is a step of ChannelLife.
LEMMA MoveIsStep ==
  ASSUME NEW c \in Connections, phase'[c] = phase[c] \/ <<phase[c], phase'[c]>> \in Moves
  PROVE  [Life(c)!Next]_(Life(c)!vars)
<1>1. CASE phase'[c] = phase[c] BY <1>1 DEF Life!vars
<1>2. CASE <<phase[c], phase'[c]>> \in Moves
  <2>1. phase[c] # phase'[c] BY <1>2 DEF Moves
  <2> QED
    BY <1>2 DEF Moves, Life!Next, Life!Connect, Life!Fail, Life!Open, Life!Shut, Life!Close, Life!Forget
<1> QED BY <1>1, <1>2

\* A handler that takes one connection from one phase to another moves no other.
LEMMA OneMoves ==
  ASSUME TypeOK, NEW d \in Connections, NEW to, phase' = [phase EXCEPT ![d] = to],
         <<phase[d], to>> \in Moves
  PROVE  \A c \in Connections : [Life(c)!Next]_(Life(c)!vars)
<1>1. ASSUME NEW c \in Connections PROVE phase'[c] = phase[c] \/ <<phase[c], phase'[c]>> \in Moves
  BY DEF TypeOK
<1> QED BY <1>1, MoveIsStep

\* destroy() drops the connections the pointers name, none of which is free.
LEMMA OnDestroyMoves ==
  ASSUME IInv, NEW cl \in [Sides -> Slots \cup {null}], NEW hd, NEW tl, NEW an, OnDestroy(cl, hd, tl, an),
         \A s \in Sides : cl[s] # null => phase[<<s, cl[s]>>] # "free"
  PROVE  \A c \in Connections : [Life(c)!Next]_(Life(c)!vars)
<1>1. ASSUME NEW c \in Connections PROVE phase'[c] = phase[c] \/ <<phase[c], phase'[c]>> \in Moves
  <2>1. phase'[c] = IF cl[c[1]] = c[2] THEN "dead" ELSE phase[c] BY DEF OnDestroy
  <2>2. PICK s \in Sides, i \in Slots : c = <<s, i>> BY DEF Connections
  <2>3. CASE cl[s] = i
    <3>1. i # null /\ phase[c] # "free" /\ phase[c] \in Phases
      BY <2>2, <2>3 DEF IInv, TypeOK
    <3> QED BY <2>1, <2>2, <2>3, <3>1 DEF Phases, Moves
  <2>4. CASE cl[s] # i BY <2>1, <2>2, <2>4
  <2> QED BY <2>3, <2>4
<1> QED BY <1>1, MoveIsStep

\* The connector uses each connection as ChannelLife says: it is not opened
\* again before it was closed and let go of, in whatever handler a listener
\* drops it or destroys the connector.
THEOREM ConnectionsLive == Spec => ChannelSpec
<1> DEFINE AllLive == \A c \in Connections : [Life(c)!Next]_(Life(c)!vars)
<1>1. Init => \A c \in Connections : Life(c)!Init BY DEF Init, Life!Init, Connections
<1>2. ASSUME IInv, [Next]_vars PROVE AllLive
  <2>1. ASSUME NEW s \in Sides, NEW i \in Slots,
               \/ HandshakeFails(s, i) \/ HandshakeSucceeds(s, i) \/ ListenerDrops(s, i)
               \/ GoesDown(s, i) \/ Closes(s, i) \/ IsForgotten(s, i)
        PROVE  AllLive
    <3>1. <<s, i>> \in Connections BY DEF Connections
    <3>2. PICK to : phase' = [phase EXCEPT ![<<s, i>>] = to] /\ <<phase[<<s, i>>], to>> \in Moves
      BY <2>1 DEF HandshakeFails, HandshakeSucceeds, ListenerDrops, GoesDown, Closes, IsForgotten, Moves, Alive
    <3> QED BY <1>2, <3>1, <3>2, OneMoves DEF IInv
  <2>2. ASSUME NEW s \in Sides, NEW i \in Slots, ListenerDestroys(s, i) PROVE AllLive
    <3>1. ~destroyed /\ phase[<<s, i>>] = "connecting"
      BY <1>2, <2>2 DEF ListenerDestroys, IInv, ListensUntilDestroy
    <3>2. /\ Joined(s, i) \in [Sides -> Slots \cup {null}]
          /\ Joined(s, i)[s] = i /\ \A r \in Sides \ {s} : Joined(s, i)[r] = client[r]
      BY <1>2, <3>1, OnConnectFacts
    <3>3. \A r \in Sides : Joined(s, i)[r] # null => phase[<<r, Joined(s, i)[r]>>] # "free"
      BY <1>2, <3>1, <3>2 DEF IInv, ClientHolds
    <3> QED BY <1>2, <2>2, <3>2, <3>3, OnDestroyMoves DEF ListenerDestroys
  <2>3. ASSUME NEW s \in Sides, RetryFires(s) PROVE AllLive
    <3>1. CASE UNCHANGED phase BY <3>1, MoveIsStep
    <3>2. ASSUME NEW i \in Slots, phase[<<s, i>>] = "free", phase' = [phase EXCEPT ![<<s, i>>] = "connecting"]
          PROVE  AllLive
      <4>1. <<s, i>> \in Connections BY DEF Connections
      <4>2. <<phase[<<s, i>>], "connecting">> \in Moves BY <3>2 DEF Moves
      <4> QED BY <1>2, <3>2, <4>1, <4>2, OneMoves DEF IInv
    <3> QED BY <2>3, <3>1, <3>2 DEF RetryFires
  <2>4. CASE Destroy
    BY <1>2, <2>4, OnDestroyMoves DEF Destroy, IInv, TypeOK, ClientHolds
  <2>5. ASSUME NEW s \in Sides, LeftoverEnds(s) \/ LeftoverFails(s) PROVE AllLive
    BY <2>5, MoveIsStep DEF LeftoverEnds, LeftoverFails
  <2>6. CASE MessageThrows \/ Stopped \/ UNCHANGED vars
    BY <2>6, MoveIsStep DEF MessageThrows, Stopped, vars
  <2> HIDE DEF AllLive
  <2> QED
    BY <1>2, <2>1, <2>2, <2>3, <2>4, <2>5, <2>6 DEF Next, Running, Step, HandshakeEnds
<1>3. IInv /\ [Next]_vars => [AllLive]_vars BY <1>2
<1> QED BY <1>1, <1>3, Invariance, PTL DEF Spec, ChannelSpec
=============================================================================
