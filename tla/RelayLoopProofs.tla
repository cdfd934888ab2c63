--------------------------- MODULE RelayLoopProofs ---------------------------
(***************************************************************************)
(* Proofs about RelayLoop for every number of clients, flows, ids and      *)
(* slab entries: an event reaches the handler it was polled for, no panic  *)
(* of the loop is reached, a flow is open exactly while it is routed, only *)
(* an IPv6 flow whose write failed stays in the slab, and the accept queue *)
(* is never left without an edge.                                          *)
(***************************************************************************)
EXTENDS RelayLoop, TLAPS

\* Where the loop stands: a batch exists from poll to its end, and a handler
\* runs only inside it.
Phases ==
    /\ phase = "wait" => events = {} /\ running = None
    /\ phase = "polled" => running = None

\* The slab and its tokens: an entry is found under its handler's token, a
\* watched socket has an entry that is not marked, and a mark is on an entry.
SlabInv ==
    /\ \A t \in Tokens : handlers[t] # None => token[handlers[t]] = t
    /\ \A h \in watched :
          /\ token[h] \in Tokens \ toRemove
          /\ handlers[token[h]] = h
    /\ \A t \in toRemove : handlers[t] # None

\* A handler enters the slab when it is created: neither a client still
\* outside nor an unborn flow has an entry.
Outside(h) ==
    \/ h \in Clients /\ client[h] \in {"away", "queued"}
    \/ h \in Flows /\ flow[h] = "unborn"

OutsideUnregistered == \A t \in Tokens : ~Outside(handlers[t])

ServedWatched == \A c \in Clients : client[c] = "served" => c \in watched

Inv ==
    /\ TypeOK
    /\ NoPanic
    /\ Phases
    /\ SlabInv
    /\ OutsideUnregistered
    /\ ServedWatched
    /\ EventFindsItsHandler
    /\ OpenMeansRouted
    /\ OnlyIpv6Leaks
    /\ AcceptQueueWatched

-----------------------------------------------------------------------------
\* Selector

LEMMA RegisterKeeps ==
    ASSUME TypeOK, SlabInv, NEW h \in Handlers,
           \A t \in Tokens : handlers[t] # h,
           Register(h)
    PROVE  /\ handlers' \in [Tokens -> Handlers \cup {None}]
           /\ token' \in [Handlers -> Tokens \cup {None}]
           /\ watched' = watched \cup {h}
           /\ toRemove' = toRemove
           /\ \A t \in Tokens : handlers[t] # None => handlers'[t] = handlers[t]
           /\ \A t \in Tokens : handlers'[t] \in {handlers[t], h}
           /\ \A g \in Handlers : g # h => token'[g] = token[g]
           /\ SlabInv'
<1> DEFINE t == CHOOSE v \in Tokens : handlers[v] = None
<1>1. t \in Tokens /\ handlers[t] = None
  BY DEF Register, Vacant
<1>2. /\ handlers' = [handlers EXCEPT ![t] = h]
      /\ token' = [token EXCEPT ![h] = t]
      /\ watched' = watched \cup {h}
      /\ toRemove' = toRemove
  BY DEF Register
<1> HIDE DEF t
<1>3. h # None
  BY HandlersDistinct
<1>4. /\ handlers' \in [Tokens -> Handlers \cup {None}]
      /\ token' \in [Handlers -> Tokens \cup {None}]
      /\ \A s \in Tokens : handlers[s] # None => handlers'[s] = handlers[s]
      /\ \A s \in Tokens : handlers'[s] \in {handlers[s], h}
      /\ \A g \in Handlers : g # h => token'[g] = token[g]
  BY <1>1, <1>2 DEF TypeOK
<1>5. t \notin toRemove
  BY <1>1 DEF SlabInv
<1>6. \A s \in Tokens : handlers'[s] # None => token'[handlers'[s]] = s
  <2> TAKE s \in Tokens
  <2> HAVE handlers'[s] # None
  <2>1. CASE s = t
    BY <2>1, <1>1, <1>2 DEF TypeOK
  <2>2. CASE s # t
    <3>1. handlers'[s] = handlers[s] /\ handlers[s] \in Handlers /\ handlers[s] # h
      BY <2>2, <1>1, <1>2 DEF TypeOK
    <3> QED BY <3>1, <1>4 DEF SlabInv
  <2> QED BY <2>1, <2>2
<1>7. \A g \in watched' :
        token'[g] \in Tokens \ toRemove' /\ handlers'[token'[g]] = g
  <2> TAKE g \in watched'
  <2>1. CASE g = h
    BY <2>1, <1>1, <1>2, <1>5 DEF TypeOK
  <2>2. CASE g # h
    <3>1. g \in watched /\ g \in Handlers /\ token'[g] = token[g]
      BY <2>2, <1>2, <1>4 DEF TypeOK
    <3>2. g # None
      BY <3>1, HandlersDistinct
    <3>3. token[g] \in Tokens \ toRemove /\ handlers[token[g]] = g
      BY <3>1 DEF SlabInv
    <3> QED BY <3>1, <3>2, <3>3, <1>2, <1>4
  <2> QED BY <2>1, <2>2
<1>8. \A s \in toRemove' : handlers'[s] # None
  BY <1>2, <1>4 DEF SlabInv, TypeOK
<1> QED BY <1>2, <1>4, <1>6, <1>7, <1>8 DEF SlabInv

LEMMA DeregisterKeeps ==
    ASSUME TypeOK, SlabInv, NEW hs, hs \subseteq watched,
           Deregister(hs)
    PROVE  /\ handlers' = handlers /\ token' = token
           /\ toRemove' \subseteq Tokens
           /\ toRemove \subseteq toRemove'
           /\ watched' = watched \ hs
           /\ \A h \in hs : token[h] \in toRemove'
           /\ ~RemovedTwice(hs)
           /\ SlabInv'
<1>1. /\ handlers' = handlers /\ token' = token
      /\ toRemove' = toRemove \cup {token[h] : h \in hs}
      /\ watched' = watched \ hs
  BY DEF Deregister
<1>2. \A h \in hs : /\ h \in Handlers /\ h # None
                    /\ token[h] \in Tokens \ toRemove /\ handlers[token[h]] = h
  BY HandlersDistinct DEF SlabInv, TypeOK
<1>3. ~RemovedTwice(hs)
  BY <1>2 DEF RemovedTwice
<1>4. \A g \in watched' :
        token'[g] \in Tokens \ toRemove' /\ handlers'[token'[g]] = g
  <2> TAKE g \in watched'
  <2>1. token[g] \in Tokens \ toRemove /\ handlers[token[g]] = g /\ g \notin hs
    BY <1>1 DEF SlabInv
  <2>2. \A h \in hs : token[h] # token[g]
    BY <2>1, <1>2
  <2> QED BY <1>1, <2>1, <2>2
<1>5. \A t \in toRemove' : handlers'[t] # None
  BY <1>1, <1>2 DEF SlabInv
<1> QED BY <1>1, <1>2, <1>3, <1>4, <1>5 DEF SlabInv, TypeOK

-----------------------------------------------------------------------------
\* The initial state

LEMMA InitInv == Init => Inv
<1> SUFFICES ASSUME Init PROVE Inv
  OBVIOUS
<1> DEFINE t == CHOOSE v \in Tokens : TRUE
<1>1. t \in Tokens
  BY SomeToken
<1>2. /\ handlers = [v \in Tokens |-> IF v = t THEN Listener ELSE None]
      /\ token = [h \in Handlers |-> IF h = Listener THEN t ELSE None]
  BY DEF Init
<1> HIDE DEF t
<1>3. Listener \in Handlers /\ None \notin Handlers
  BY HandlersDistinct DEF Handlers
<1>4. TypeOK
  BY <1>1, <1>2, <1>3 DEF Init, TypeOK
<1>5. SlabInv
  BY <1>1, <1>2, <1>3 DEF Init, SlabInv
<1>6. OutsideUnregistered
  BY <1>2, HandlersDistinct DEF OutsideUnregistered, Outside, Handlers
<1>7. OnlyIpv6Leaks
  BY <1>2, <1>3 DEF OnlyIpv6Leaks, Live
<1>8. OpenMeansRouted
  BY DEF Init, OpenMeansRouted
<1>9. /\ NoPanic /\ Phases /\ ServedWatched /\ EventFindsItsHandler
      /\ AcceptQueueWatched
  BY DEF Init, NoPanic, Phases, ServedWatched, EventFindsItsHandler,
         AcceptQueueWatched, Queued
<1> QED BY <1>4, <1>5, <1>6, <1>7, <1>8, <1>9 DEF Inv

-----------------------------------------------------------------------------
\* One lemma per action.  The parts of the invariant about the accept queue
\* and about the phases are kept apart from those about handlers and flows.

LEMMA ArriveInv == ASSUME Inv, NEW c \in Clients, Arrive(c) PROVE Inv'
<1> USE DEF Inv, Arrive, selectorVars, routeVars, loopVars
<1>1. TypeOK'
  BY DEF TypeOK
<1>2. SlabInv' /\ NoPanic' /\ Phases' /\ EventFindsItsHandler'
  BY DEF SlabInv, NoPanic, Phases, EventFindsItsHandler
<1>3. OutsideUnregistered'
  BY DEF OutsideUnregistered, Outside, TypeOK
<1>4. ServedWatched' /\ OpenMeansRouted' /\ OnlyIpv6Leaks'
  BY DEF ServedWatched, OpenMeansRouted, OnlyIpv6Leaks, Live, Ghost, TypeOK
<1>5. AcceptQueueWatched'
  BY DEF AcceptQueueWatched
<1> QED BY <1>1, <1>2, <1>3, <1>4, <1>5

LEMMA PollInv == ASSUME Inv, NEW hs \in SUBSET watched, Poll(hs) PROVE Inv'
<1> USE DEF Inv, Poll, selectorVars, routeVars
<1>1. \A h \in hs : h \in Handlers /\ token[h] \in Tokens /\ handlers[token[h]] = h
  BY DEF TypeOK, SlabInv
<1>2. TypeOK'
  BY <1>1 DEF TypeOK
<1>3. SlabInv' /\ NoPanic' /\ Phases'
  BY DEF SlabInv, NoPanic, Phases
<1>4. EventFindsItsHandler'
  BY <1>1 DEF EventFindsItsHandler
<1>5. OutsideUnregistered' /\ ServedWatched' /\ OpenMeansRouted' /\ OnlyIpv6Leaks'
  BY DEF OutsideUnregistered, Outside, ServedWatched, OpenMeansRouted,
         OnlyIpv6Leaks, Live, Ghost
<1>6. AcceptQueueWatched'
  <2>1. running # Listener
    BY HandlersDistinct DEF Phases, Handlers
  <2>2. CASE edge /\ Listener \in watched
    <3>1. [token |-> token[Listener], source |-> Listener] \in events'
      BY <2>2
    <3> QED BY <3>1 DEF AcceptQueueWatched
  <2>3. CASE ~(edge /\ Listener \in watched)
    BY <2>1, <2>3 DEF AcceptQueueWatched, Queued, Phases
  <2> QED BY <2>2, <2>3
<1> QED BY <1>2, <1>3, <1>4, <1>5, <1>6

LEMMA TakeEventInv == ASSUME Inv, NEW e \in events, TakeEvent(e) PROVE Inv'
<1> USE DEF Inv, TakeEvent, selectorVars, routeVars, acceptVars
<1>1. e.token \in Tokens /\ e.source \in Handlers /\ handlers[e.token] = e.source
  BY DEF TypeOK, EventFindsItsHandler
<1>2. e.source # None
  BY <1>1, HandlersDistinct
<1>3. TypeOK'
  BY <1>1, <1>2 DEF TypeOK
<1>4. SlabInv' /\ NoPanic' /\ Phases' /\ EventFindsItsHandler'
  BY <1>1, <1>2 DEF SlabInv, NoPanic, Phases, EventFindsItsHandler
<1>5. OutsideUnregistered' /\ ServedWatched' /\ OpenMeansRouted' /\ OnlyIpv6Leaks'
  BY DEF OutsideUnregistered, Outside, ServedWatched, OpenMeansRouted,
         OnlyIpv6Leaks, Live, Ghost
<1>6. AcceptQueueWatched'
  <2>1. running # Listener
    BY HandlersDistinct DEF Handlers
  <2> QED BY <1>1, <2>1 DEF AcceptQueueWatched, Queued
<1> QED BY <1>3, <1>4, <1>5, <1>6

LEMMA EndBatchInv == ASSUME Inv, EndBatch PROVE Inv'
<1> USE DEF Inv, EndBatch, routeVars, acceptVars
<1>1. TypeOK'
  BY DEF TypeOK
<1>2. NoPanic' /\ Phases' /\ EventFindsItsHandler'
  BY DEF SlabInv, NoPanic, Phases, EventFindsItsHandler
<1>3. SlabInv'
  BY DEF SlabInv, TypeOK
<1>4. OutsideUnregistered'
  <2>1. ~Outside(None)'
    BY HandlersDistinct DEF Outside, Handlers
  <2>2. \A t \in Tokens : handlers'[t] = None \/ handlers'[t] = handlers[t]
    BY DEF TypeOK
  <2> QED BY <2>1, <2>2 DEF OutsideUnregistered, Outside
<1>5. ServedWatched'
  BY DEF ServedWatched
<1>6. OpenMeansRouted'
  BY DEF OpenMeansRouted, TypeOK
<1>7. OnlyIpv6Leaks'
  BY DEF OnlyIpv6Leaks, Live, Ghost, TypeOK
<1>8. AcceptQueueWatched'
  BY HandlersDistinct DEF AcceptQueueWatched, Queued, Handlers
<1> QED BY <1>1, <1>2, <1>3, <1>4, <1>5, <1>6, <1>7, <1>8

LEMMA CleanUpInv == ASSUME Inv, NEW fs \in SUBSET Routed, CleanUp(fs) PROVE Inv'
<1> USE DEF Inv, CleanUp, acceptVars
<1>1. \A f \in fs : f \in Flows /\ flow[f] = "open" /\ f \in watched /\ f # None
  BY HandlersDistinct DEF Routed, OpenMeansRouted, Handlers
<1>2. /\ handlers' = handlers /\ token' = token
      /\ toRemove' \subseteq Tokens
      /\ toRemove \subseteq toRemove'
      /\ watched' = watched \ fs
      /\ \A h \in fs : token[h] \in toRemove'
      /\ ~RemovedTwice(fs)
      /\ SlabInv'
  BY <1>1, DeregisterKeeps
<1>3. \A f \in Flows : flow'[f] = IF f \in fs THEN "closed" ELSE flow[f]
  OBVIOUS
<1>4. \A c \in Clients, k \in Keys :
        connections'[c][k] = IF connections[c][k] \in fs THEN None
                                                        ELSE connections[c][k]
  BY DEF Unrouted
<1>5. TypeOK'
  <2>1. connections' \in [Clients -> [Keys -> Flows \cup {None}]]
    BY DEF TypeOK, Unrouted
  <2>2. flow' \in [Flows -> {"unborn", "open", "closed"}]
    <3>1. flow' = [f \in Flows |-> IF f \in fs THEN "closed" ELSE flow[f]]
      OBVIOUS
    <3>2. \A f \in Flows : flow[f] \in {"unborn", "open", "closed"}
      BY DEF TypeOK
    <3> HIDE DEF CleanUp, Inv
    <3> QED BY <3>1, <3>2
  <2>3. watched' \subseteq Handlers /\ panicked' \in BOOLEAN
    BY <1>2 DEF TypeOK, RemovedTwice
  <2>4. /\ handlers' \in [Tokens -> Handlers \cup {None}]
        /\ token' \in [Handlers -> Tokens \cup {None}]
        /\ phase' \in {"wait", "polled", "run"}
    BY <1>2 DEF TypeOK
  <2>5. /\ UNCHANGED <<owner, key, events, running, client, edge, stalled>>
        /\ TypeOK
    OBVIOUS
  <2> HIDE DEF CleanUp, Inv
  <2> QED BY <1>2, <2>1, <2>2, <2>3, <2>4, <2>5 DEF TypeOK
<1>6. NoPanic' /\ Phases' /\ EventFindsItsHandler'
  BY <1>2 DEF NoPanic, Phases, EventFindsItsHandler
<1>7. OutsideUnregistered'
  BY <1>1, <1>2, <1>3 DEF OutsideUnregistered, Outside
<1>8. ServedWatched'
  BY <1>1, <1>2, HandlersDistinct DEF ServedWatched
<1>9. OpenMeansRouted'
  <2>1. \A f \in Flows : flow'[f] = "open" =>
          /\ owner'[f] \in Clients /\ key'[f] \in Keys
          /\ client'[owner'[f]] = "served"
          /\ connections'[owner'[f]][key'[f]] = f
          /\ f \in watched'
          /\ token'[f] \in Tokens \ toRemove'
          /\ handlers'[token'[f]] = f
    BY <1>2, <1>3, <1>4 DEF OpenMeansRouted, SlabInv
  <2>2. \A c \in Clients, k \in Keys :
          connections'[c][k] # None =>
             /\ flow'[connections'[c][k]] = "open"
             /\ owner'[connections'[c][k]] = c /\ key'[connections'[c][k]] = k
    <3> TAKE c \in Clients, k \in Keys
    <3> HAVE connections'[c][k] # None
    <3>1. connections'[c][k] = connections[c][k] /\ connections[c][k] \notin fs
      BY <1>4
    <3>2. connections[c][k] \in Flows
      BY <3>1 DEF TypeOK
    <3> QED BY <3>1, <3>2, <1>3 DEF OpenMeansRouted
  <2> QED BY <2>1, <2>2 DEF OpenMeansRouted
<1>10. OnlyIpv6Leaks'
  <2> SUFFICES ASSUME NEW t \in Tokens, handlers'[t] # None
               PROVE  (Live(handlers[t]) \/ t \in toRemove \/ Ghost(handlers[t]))'
    BY DEF OnlyIpv6Leaks
  <2>1. CASE handlers[t] \in fs
    BY <2>1, <1>2 DEF SlabInv
  <2>2. CASE handlers[t] \notin fs
    BY <2>2, <1>2, <1>3 DEF OnlyIpv6Leaks, Live, Ghost
  <2> QED BY <2>1, <2>2
<1>11. AcceptQueueWatched'
  BY DEF AcceptQueueWatched, Queued
<1> QED BY <1>2, <1>5, <1>6, <1>7, <1>8, <1>9, <1>10, <1>11

LEMMA ReturnInv ==
    ASSUME Inv, NEW h \in Handlers, Return(h), h = Listener => Queued = {}
    PROVE  Inv'
<1> USE DEF Inv, Return, selectorVars, routeVars, acceptVars
<1>1. TypeOK'
  BY DEF TypeOK
<1>2. SlabInv' /\ NoPanic' /\ Phases' /\ EventFindsItsHandler'
  BY DEF SlabInv, NoPanic, Phases, EventFindsItsHandler
<1>3. OutsideUnregistered' /\ ServedWatched' /\ OpenMeansRouted' /\ OnlyIpv6Leaks'
  BY DEF OutsideUnregistered, Outside, ServedWatched, OpenMeansRouted,
         OnlyIpv6Leaks, Live, Ghost
<1>4. AcceptQueueWatched'
  BY DEF AcceptQueueWatched, Queued
<1> QED BY <1>1, <1>2, <1>3, <1>4

LEMMA AcceptInv == ASSUME Inv, NEW c \in Clients, Accept(c) PROVE Inv'
<1> USE DEF Inv, Accept, routeVars, loopVars
<1>1. \A t \in Tokens : handlers[t] # c
  BY DEF OutsideUnregistered, Outside
<1>2. c \in Handlers /\ c # None /\ c \notin Flows
  BY HandlersDistinct DEF Handlers
<1>3. /\ handlers' \in [Tokens -> Handlers \cup {None}]
      /\ token' \in [Handlers -> Tokens \cup {None}]
      /\ watched' = watched \cup {c}
      /\ toRemove' = toRemove
      /\ \A t \in Tokens : handlers[t] # None => handlers'[t] = handlers[t]
      /\ \A t \in Tokens : handlers'[t] \in {handlers[t], c}
      /\ \A g \in Handlers : g # c => token'[g] = token[g]
      /\ SlabInv'
  BY <1>1, <1>2, RegisterKeeps
<1>4. TypeOK'
  BY <1>2, <1>3 DEF TypeOK
<1>5. NoPanic' /\ Phases'
  BY HandlersDistinct DEF NoPanic, Phases, Handlers
<1>6. EventFindsItsHandler'
  BY <1>3, HandlersDistinct DEF EventFindsItsHandler, TypeOK
<1>7. OutsideUnregistered'
  BY <1>2, <1>3 DEF OutsideUnregistered, Outside, TypeOK
<1>8. ServedWatched'
  BY <1>3 DEF ServedWatched, TypeOK
<1>9. OpenMeansRouted'
  <2>1. \A f \in Flows : f \in Handlers /\ f # c /\ f # None
    BY HandlersDistinct DEF Handlers
  <2>2. \A f \in Flows : owner[f] = c => flow[f] # "open"
    BY DEF OpenMeansRouted
  <2> QED BY <1>3, <2>1, <2>2 DEF OpenMeansRouted, TypeOK
<1>10. OnlyIpv6Leaks'
  <2> SUFFICES ASSUME NEW t \in Tokens, handlers'[t] # None
               PROVE  (Live(handlers[t]) \/ t \in toRemove \/ Ghost(handlers[t]))'
    BY DEF OnlyIpv6Leaks
  <2>1. CASE handlers'[t] = c
    BY <2>1 DEF Live, TypeOK
  <2>2. CASE handlers'[t] # c
    <3>1. handlers'[t] = handlers[t]
      BY <2>2, <1>3
    <3> QED BY <2>2, <3>1, <1>3 DEF OnlyIpv6Leaks, Live, Ghost, TypeOK
  <2> QED BY <2>1, <2>2
<1>11. AcceptQueueWatched'
  BY DEF AcceptQueueWatched
<1> QED BY <1>3, <1>4, <1>5, <1>6, <1>7, <1>8, <1>9, <1>10, <1>11

LEMMA AcceptFailsInv ==
    ASSUME Inv, NEW lost \in SUBSET Queued, AcceptFails(lost) PROVE Inv'
<1> USE DEF Inv, AcceptFails, selectorVars, routeVars
<1>1. \A c \in lost : c \in Clients /\ client[c] = "queued"
  BY DEF Queued
<1>2. TypeOK'
  BY DEF TypeOK, Queued
<1>3. SlabInv' /\ NoPanic' /\ Phases' /\ EventFindsItsHandler'
  BY DEF SlabInv, NoPanic, Phases, EventFindsItsHandler
<1>4. OutsideUnregistered'
  BY DEF OutsideUnregistered, Outside
<1>5. ServedWatched' /\ OpenMeansRouted'
  BY <1>1 DEF ServedWatched, OpenMeansRouted
<1>6. OnlyIpv6Leaks'
  BY <1>1 DEF OnlyIpv6Leaks, Live, Ghost
<1>7. AcceptQueueWatched'
  <2>1. Queued' \subseteq Queued \ lost
    BY DEF Queued
  <2> QED BY <2>1 DEF AcceptQueueWatched
<1> QED BY <1>2, <1>3, <1>4, <1>5, <1>6, <1>7

LEMMA CreateFlowInv ==
    ASSUME Inv, NEW c \in Clients, NEW k \in Keys, NEW f \in Flows,
           CreateFlow(c, k, f)
    PROVE  Inv'
<1> USE DEF Inv, CreateFlow, acceptVars, loopVars
<1>1. \A t \in Tokens : handlers[t] # f
  BY DEF OutsideUnregistered, Outside
<1>2. f \in Handlers /\ f # None /\ f \notin Clients /\ f # Listener
  BY HandlersDistinct DEF Handlers
<1>3. /\ handlers' \in [Tokens -> Handlers \cup {None}]
      /\ token' \in [Handlers -> Tokens \cup {None}]
      /\ watched' = watched \cup {f}
      /\ toRemove' = toRemove
      /\ \A t \in Tokens : handlers[t] # None => handlers'[t] = handlers[t]
      /\ \A t \in Tokens : handlers'[t] \in {handlers[t], f}
      /\ \A g \in Handlers : g # f => token'[g] = token[g]
      /\ SlabInv'
  BY <1>1, <1>2, RegisterKeeps
<1>4. TypeOK'
  BY <1>2, <1>3 DEF TypeOK
<1>5. NoPanic' /\ Phases' /\ AcceptQueueWatched'
  BY DEF NoPanic, Phases, AcceptQueueWatched, Queued
<1>6. EventFindsItsHandler'
  BY <1>3, HandlersDistinct DEF EventFindsItsHandler, TypeOK
<1>7. OutsideUnregistered'
  BY <1>2, <1>3 DEF OutsideUnregistered, Outside, TypeOK
<1>8. ServedWatched'
  BY <1>3 DEF ServedWatched
<1>9. OpenMeansRouted'
  <2>1. f \in watched' /\ token'[f] \in Tokens \ toRemove' /\ handlers'[token'[f]] = f
    BY <1>3 DEF SlabInv
  <2>2. /\ flow'[f] = "open" /\ owner'[f] = c /\ key'[f] = k
        /\ connections'[c][k] = f
    BY DEF TypeOK
  <2>3. \A g \in Flows : g # f =>
          flow'[g] = flow[g] /\ owner'[g] = owner[g] /\ key'[g] = key[g]
    BY DEF TypeOK
  <2>4. \A d \in Clients, j \in Keys :
          connections'[d][j] = IF d = c /\ j = k THEN f ELSE connections[d][j]
    BY DEF TypeOK
  <2>5. \A g \in Flows : g # f /\ flow[g] = "open" =>
          ~(owner[g] = c /\ key[g] = k)
    BY HandlersDistinct DEF OpenMeansRouted, Handlers
  <2>6. \A g \in Flows : flow'[g] = "open" =>
          /\ owner'[g] \in Clients /\ key'[g] \in Keys
          /\ client'[owner'[g]] = "served"
          /\ connections'[owner'[g]][key'[g]] = g
          /\ g \in watched'
          /\ token'[g] \in Tokens \ toRemove'
          /\ handlers'[token'[g]] = g
    <3> TAKE g \in Flows
    <3> HAVE flow'[g] = "open"
    <3>1. CASE g = f
      BY <3>1, <2>1, <2>2
    <3>2. CASE g # f
      BY <3>2, <1>3, <2>3, <2>4, <2>5 DEF OpenMeansRouted, SlabInv
    <3> QED BY <3>1, <3>2
  <2>7. \A d \in Clients, j \in Keys :
          connections'[d][j] # None =>
             /\ flow'[connections'[d][j]] = "open"
             /\ owner'[connections'[d][j]] = d /\ key'[connections'[d][j]] = j
    <3> TAKE d \in Clients, j \in Keys
    <3> HAVE connections'[d][j] # None
    <3>1. CASE d = c /\ j = k
      BY <3>1, <2>2, <2>4
    <3>2. CASE ~(d = c /\ j = k)
      <4>1. /\ connections'[d][j] = connections[d][j]
            /\ connections[d][j] \in Flows
            /\ flow[connections[d][j]] = "open"
        BY <3>2, <2>4 DEF OpenMeansRouted, TypeOK
      <4>2. connections[d][j] # f
        BY <4>1
      <4> QED BY <4>1, <4>2, <2>3 DEF OpenMeansRouted
    <3> QED BY <3>1, <3>2
  <2> QED BY <2>6, <2>7 DEF OpenMeansRouted
<1>10. OnlyIpv6Leaks'
  <2> SUFFICES ASSUME NEW t \in Tokens, handlers'[t] # None
               PROVE  (Live(handlers[t]) \/ t \in toRemove \/ Ghost(handlers[t]))'
    BY DEF OnlyIpv6Leaks
  <2>1. CASE handlers'[t] = f
    BY <2>1 DEF Live, TypeOK
  <2>2. CASE handlers'[t] # f
    <3>1. handlers'[t] = handlers[t]
      BY <2>2, <1>3
    <3> QED BY <2>2, <3>1, <1>3 DEF OnlyIpv6Leaks, Live, Ghost, TypeOK
  <2> QED BY <2>1, <2>2
<1> QED BY <1>3, <1>4, <1>5, <1>6, <1>7, <1>8, <1>9, <1>10

\* What is common to the three steps that close flows inside a handler: the
\* flows fs are marked closed and lose their routes, the handlers hs leave
\* epoll and are marked for removal.
LEMMA ClosingKeeps ==
    ASSUME Inv, NEW fs \in SUBSET Flows, NEW hs \in SUBSET watched,
           Deregister(hs),
           \A f \in Flows : flow'[f] = IF f \in fs THEN "closed" ELSE flow[f],
           \A c \in Clients, k \in Keys :
               connections'[c][k] = IF connections[c][k] \in fs
                                      THEN None ELSE connections[c][k],
           \A f \in fs : flow[f] # "unborn",
           \A f \in fs : f \in hs \/ key[f] \in Ipv6Keys,
           \A f \in Flows : f \in hs => f \in fs,
           \A f \in Flows : f \notin fs /\ flow[f] = "open" =>
               client'[owner[f]] = "served",
           \A c \in Clients :
               \/ client'[c] = client[c] /\ c \notin hs
               \/ client'[c] = "closed" /\ c \in hs /\ client[c] = "served",
           Listener \notin hs,
           owner' = owner, key' = key
    PROVE  /\ SlabInv' /\ OutsideUnregistered' /\ ServedWatched'
           /\ OpenMeansRouted' /\ OnlyIpv6Leaks'
           /\ ~RemovedTwice(hs)
           /\ handlers' = handlers /\ token' = token
           /\ toRemove' \subseteq Tokens /\ watched' \subseteq Handlers
<1> USE DEF Inv
<1>1. /\ handlers' = handlers /\ token' = token
      /\ toRemove' \subseteq Tokens
      /\ toRemove \subseteq toRemove'
      /\ watched' = watched \ hs
      /\ \A h \in hs : token[h] \in toRemove'
      /\ ~RemovedTwice(hs)
      /\ SlabInv'
  BY DeregisterKeeps
<1>2. OutsideUnregistered'
  BY <1>1 DEF OutsideUnregistered, Outside
<1>3. ServedWatched'
  BY <1>1 DEF ServedWatched
<1>4. OpenMeansRouted'
  <2>1. \A f \in Flows : flow'[f] = "open" =>
          /\ owner'[f] \in Clients /\ key'[f] \in Keys
          /\ client'[owner'[f]] = "served"
          /\ connections'[owner'[f]][key'[f]] = f
          /\ f \in watched'
          /\ token'[f] \in Tokens \ toRemove'
          /\ handlers'[token'[f]] = f
    <3> TAKE f \in Flows
    <3> HAVE flow'[f] = "open"
    <3>1. f \notin fs /\ flow[f] = "open" /\ f \notin hs
      OBVIOUS
    <3>2. f \in watched'
      BY <1>1, <3>1 DEF OpenMeansRouted
    <3> QED BY <1>1, <3>1, <3>2 DEF OpenMeansRouted, SlabInv
  <2>2. \A c \in Clients, k \in Keys :
          connections'[c][k] # None =>
             /\ flow'[connections'[c][k]] = "open"
             /\ owner'[connections'[c][k]] = c /\ key'[connections'[c][k]] = k
    <3> TAKE c \in Clients, k \in Keys
    <3> HAVE connections'[c][k] # None
    <3>1. connections'[c][k] = connections[c][k] /\ connections[c][k] \notin fs
      OBVIOUS
    <3>2. connections[c][k] \in Flows
      BY <3>1 DEF TypeOK
    <3> QED BY <3>1, <3>2 DEF OpenMeansRouted
  <2> QED BY <2>1, <2>2 DEF OpenMeansRouted
<1>5. OnlyIpv6Leaks'
  <2> SUFFICES ASSUME NEW t \in Tokens, handlers'[t] # None
               PROVE  (Live(handlers[t]) \/ t \in toRemove \/ Ghost(handlers[t]))'
    BY DEF OnlyIpv6Leaks
  <2>1. CASE handlers[t] \in hs
    BY <2>1, <1>1 DEF SlabInv
  <2>2. CASE handlers[t] \in fs \ hs
    BY <2>2, <1>1 DEF Ghost
  <2>3. CASE handlers[t] \notin fs \cup hs
    <3>1. Live(handlers[t]) => Live(handlers[t])'
      BY <2>3, <1>1 DEF Live
    <3>2. Ghost(handlers[t]) => Ghost(handlers[t])'
      BY <2>3, <1>1 DEF Ghost
    <3> QED BY <3>1, <3>2, <1>1 DEF OnlyIpv6Leaks
  <2> QED BY <2>1, <2>2, <2>3
<1> QED BY <1>1, <1>2, <1>3, <1>4, <1>5 DEF TypeOK

LEMMA CloseOnPacketInv ==
    ASSUME Inv, NEW c \in Clients, NEW k \in Keys, CloseOnPacket(c, k)
    PROVE  Inv'
<1> DEFINE f == connections[c][k]
           hs == IF k \in Ipv6Keys THEN {} ELSE {f}
<1> USE DEF Inv
<1>1. /\ f \in Flows /\ flow[f] = "open" /\ owner[f] = c /\ key[f] = k
      /\ f \in watched /\ f \notin Clients /\ f # Listener
  BY HandlersDistinct DEF CloseOnPacket, OpenMeansRouted, TypeOK, Handlers
<1>2. /\ Deregister(hs)
      /\ flow' = [flow EXCEPT ![f] = "closed"]
      /\ connections' = [connections EXCEPT ![c][k] = None]
      /\ panicked' = (k \notin Ipv6Keys /\ RemovedTwice({f}))
      /\ UNCHANGED <<owner, key, client, edge, stalled, events, phase, running>>
  BY DEF CloseOnPacket, acceptVars, loopVars
<1>3. \A g \in Flows : flow'[g] = IF g \in {f} THEN "closed" ELSE flow[g]
  BY <1>1, <1>2 DEF TypeOK
<1>4. \A d \in Clients, j \in Keys :
        connections'[d][j] = IF connections[d][j] \in {f}
                               THEN None ELSE connections[d][j]
  <2> TAKE d \in Clients, j \in Keys
  <2>1. connections[d][j] = f => d = c /\ j = k
    BY <1>1, HandlersDistinct DEF OpenMeansRouted, Handlers
  <2> QED BY <2>1, <1>2 DEF TypeOK
<1> HIDE DEF f
<1>5. hs \in SUBSET watched /\ Listener \notin hs
  BY <1>1
<1>6. /\ \A g \in {f} : flow[g] # "unborn"
      /\ \A g \in {f} : g \in hs \/ key[g] \in Ipv6Keys
      /\ \A g \in Flows : g \in hs => g \in {f}
      /\ {f} \in SUBSET Flows
  BY <1>1
<1>7. \A g \in Flows : g \notin {f} /\ flow[g] = "open" =>
        client'[owner[g]] = "served"
  BY <1>2 DEF OpenMeansRouted
<1>8. \A d \in Clients :
        \/ client'[d] = client[d] /\ d \notin hs
        \/ client'[d] = "closed" /\ d \in hs /\ client[d] = "served"
  BY <1>1, <1>2
<1> HIDE DEF hs
<1>9. /\ SlabInv' /\ OutsideUnregistered' /\ ServedWatched'
      /\ OpenMeansRouted' /\ OnlyIpv6Leaks'
      /\ ~RemovedTwice(hs)
      /\ handlers' = handlers /\ token' = token
      /\ toRemove' \subseteq Tokens /\ watched' \subseteq Handlers
  BY <1>2, <1>3, <1>4, <1>5, <1>6, <1>7, <1>8, ClosingKeeps
<1>10. panicked' = FALSE
  BY <1>2, <1>9 DEF hs
<1>11. TypeOK'
  BY <1>1, <1>2, <1>9, <1>10 DEF TypeOK
<1>12. NoPanic' /\ Phases' /\ EventFindsItsHandler' /\ AcceptQueueWatched'
  BY <1>2, <1>9, <1>10
     DEF NoPanic, Phases, EventFindsItsHandler, AcceptQueueWatched, Queued
<1> QED BY <1>9, <1>11, <1>12

LEMMA CloseFlowInv == ASSUME Inv, NEW f \in Flows, CloseFlow(f) PROVE Inv'
<1> USE DEF Inv
<1>1. /\ flow[f] = "open" /\ owner[f] \in Clients /\ key[f] \in Keys
      /\ client[owner[f]] = "served"
      /\ connections[owner[f]][key[f]] = f
      /\ f \in watched /\ f \notin Clients /\ f # Listener
  BY HandlersDistinct DEF CloseFlow, OpenMeansRouted, TypeOK, Handlers
<1>2. /\ Deregister({f})
      /\ flow' = [flow EXCEPT ![f] = "closed"]
      /\ connections' = [connections EXCEPT ![owner[f]][key[f]] = None]
      /\ panicked' = (RemovedTwice({f}) \/ Dropped(owner[f]))
      /\ running = f /\ running' = None
      /\ UNCHANGED <<owner, key, client, edge, stalled, events, phase>>
  BY DEF CloseFlow, acceptVars
<1>3. \A g \in Flows : flow'[g] = IF g \in {f} THEN "closed" ELSE flow[g]
  BY <1>1, <1>2 DEF TypeOK
<1>4. \A d \in Clients, j \in Keys :
        connections'[d][j] = IF connections[d][j] \in {f}
                               THEN None ELSE connections[d][j]
  <2> TAKE d \in Clients, j \in Keys
  <2>1. connections[d][j] = f => d = owner[f] /\ j = key[f]
    BY <1>1, HandlersDistinct DEF OpenMeansRouted, Handlers
  <2> QED BY <2>1, <1>1, <1>2 DEF TypeOK
<1>5. \A g \in Flows : g \notin {f} /\ flow[g] = "open" =>
        client'[owner[g]] = "served"
  BY <1>2 DEF OpenMeansRouted
<1>6. \A d \in Clients : client'[d] = client[d] /\ d \notin {f}
  BY <1>1, <1>2
<1>7. /\ SlabInv' /\ OutsideUnregistered' /\ ServedWatched'
      /\ OpenMeansRouted' /\ OnlyIpv6Leaks'
      /\ ~RemovedTwice({f})
      /\ handlers' = handlers /\ token' = token
      /\ toRemove' \subseteq Tokens /\ watched' \subseteq Handlers
  <2> DEFINE fs == {f}
  <2>1. fs \in SUBSET Flows /\ fs \in SUBSET watched /\ Listener \notin fs
    BY <1>1
  <2>2. \A g \in fs : flow[g] # "unborn"
    BY <1>1
  <2>3. \A d \in Clients : client'[d] = client[d] /\ d \notin fs
    BY <1>6
  <2> HIDE DEF fs
  <2>4. /\ SlabInv' /\ OutsideUnregistered' /\ ServedWatched'
        /\ OpenMeansRouted' /\ OnlyIpv6Leaks'
        /\ ~RemovedTwice(fs)
        /\ handlers' = handlers /\ token' = token
        /\ toRemove' \subseteq Tokens /\ watched' \subseteq Handlers
    <3>1. /\ Deregister(fs) /\ owner' = owner /\ key' = key
          /\ \A g \in Flows : flow'[g] = IF g \in fs THEN "closed" ELSE flow[g]
          /\ \A d \in Clients, j \in Keys :
               connections'[d][j] = IF connections[d][j] \in fs
                                      THEN None ELSE connections[d][j]
          /\ \A g \in Flows : g \notin fs /\ flow[g] = "open" =>
               client'[owner[g]] = "served"
      BY <1>2, <1>3, <1>4, <1>5 DEF fs
    <3> QED BY <2>1, <2>2, <2>3, <3>1, ClosingKeeps
  <2> QED BY <2>4 DEF fs
<1>8. panicked' = FALSE
  BY <1>1, <1>2, <1>7 DEF Dropped
<1>9. TypeOK'
  BY <1>1, <1>2, <1>7, <1>8 DEF TypeOK
<1>10. NoPanic' /\ Phases' /\ EventFindsItsHandler' /\ AcceptQueueWatched'
  BY <1>1, <1>2, <1>7, <1>8
     DEF NoPanic, Phases, EventFindsItsHandler, AcceptQueueWatched, Queued
<1> QED BY <1>7, <1>9, <1>10

LEMMA CloseClientInv == ASSUME Inv, NEW c \in Clients, CloseClient(c) PROVE Inv'
<1> DEFINE fs == {f \in Flows : \E k \in Keys : connections[c][k] = f}
           hs == {c} \cup fs
<1> USE DEF Inv
<1>1. /\ client[c] = "served" /\ Deregister(hs)
      /\ client' = [client EXCEPT ![c] = "closed"]
      /\ flow' = [f \in Flows |-> IF f \in fs THEN "closed" ELSE flow[f]]
      /\ connections' = [connections EXCEPT ![c] = [k \in Keys |-> None]]
      /\ panicked' = RemovedTwice(hs)
      /\ running = c /\ running' = None
      /\ UNCHANGED <<owner, key, edge, stalled, events, phase>>
  BY DEF CloseClient
<1>2. \A f \in fs : /\ f \in Flows /\ flow[f] = "open" /\ owner[f] = c
                    /\ f \in watched /\ f \notin Clients /\ f # Listener
  BY HandlersDistinct DEF OpenMeansRouted, Handlers
<1>3. \A f \in Flows : f \notin fs /\ flow[f] = "open" => owner[f] # c
  BY DEF OpenMeansRouted
<1>4. \A d \in Clients, j \in Keys :
        connections'[d][j] = IF connections[d][j] \in fs
                               THEN None ELSE connections[d][j]
  <2> TAKE d \in Clients, j \in Keys
  <2>1. CASE d = c
    <3>1. connections[d][j] \in fs \/ connections[d][j] = None
      BY <2>1 DEF TypeOK
    <3> QED BY <2>1, <3>1, <1>1 DEF TypeOK
  <2>2. CASE d # c
    <3>1. connections[d][j] \notin fs
      BY <2>2, <1>2, HandlersDistinct DEF OpenMeansRouted, Handlers
    <3> QED BY <2>2, <3>1, <1>1 DEF TypeOK
  <2> QED BY <2>1, <2>2
<1>5. \A f \in Flows : flow'[f] = IF f \in fs THEN "closed" ELSE flow[f]
  BY <1>1
<1>6. fs \in SUBSET Flows
  OBVIOUS
<1> HIDE DEF fs
<1>7. /\ hs \in SUBSET watched /\ Listener \notin hs
      /\ \A f \in Flows : f \in hs => f \in fs
      /\ \A d \in Clients : d \in hs => d = c
  BY <1>1, <1>2, <1>6, HandlersDistinct DEF ServedWatched
<1>8. \A f \in Flows : f \notin fs /\ flow[f] = "open" =>
        client'[owner[f]] = "served"
  BY <1>1, <1>3 DEF OpenMeansRouted, TypeOK
<1>9. \A d \in Clients :
        \/ client'[d] = client[d] /\ d \notin hs
        \/ client'[d] = "closed" /\ d \in hs /\ client[d] = "served"
  BY <1>1, <1>7 DEF TypeOK
<1>10. /\ SlabInv' /\ OutsideUnregistered' /\ ServedWatched'
       /\ OpenMeansRouted' /\ OnlyIpv6Leaks'
       /\ ~RemovedTwice(hs)
       /\ handlers' = handlers /\ token' = token
       /\ toRemove' \subseteq Tokens /\ watched' \subseteq Handlers
  <2>1. \A f \in fs : flow[f] # "unborn" /\ f \in hs
    BY <1>2
  <2> HIDE DEF hs
  <2> QED BY <1>1, <1>4, <1>5, <1>6, <1>7, <1>8, <1>9, <2>1, ClosingKeeps
<1> HIDE DEF hs
<1>11. TypeOK'
  <2>1. connections' \in [Clients -> [Keys -> Flows \cup {None}]]
    BY <1>1 DEF TypeOK
  <2>2. flow' \in [Flows -> {"unborn", "open", "closed"}]
    BY <1>1 DEF TypeOK
  <2>3. panicked' = FALSE
    BY <1>1, <1>10
  <2> QED BY <1>1, <1>10, <2>1, <2>2, <2>3 DEF TypeOK
<1>12. NoPanic' /\ Phases' /\ EventFindsItsHandler'
  BY <1>1, <1>10 DEF NoPanic, Phases, EventFindsItsHandler
<1>13. AcceptQueueWatched'
  <2>1. Queued' = Queued /\ running # Listener
    BY <1>1, HandlersDistinct DEF Queued, TypeOK
  <2> QED BY <1>1, <2>1 DEF AcceptQueueWatched
<1> QED BY <1>10, <1>11, <1>12, <1>13

-----------------------------------------------------------------------------
\* The invariant and what follows from it

\* Inv is inductive: every step of the loop, and a client's arrival, keeps it.
LEMMA NextInv == Inv /\ [Next]_vars => Inv'
<1> SUFFICES ASSUME Inv, [Next]_vars PROVE Inv'
  OBVIOUS
<1>1. CASE UNCHANGED vars
  BY <1>1 DEF Inv, vars, selectorVars, routeVars, acceptVars, loopVars, TypeOK,
     NoPanic, Phases, SlabInv, OutsideUnregistered, Outside, ServedWatched,
     EventFindsItsHandler, OpenMeansRouted, OnlyIpv6Leaks, Live, Ghost,
     AcceptQueueWatched, Queued
<1>2. ASSUME NEW c \in Clients, Arrive(c) PROVE Inv'
  BY <1>2, ArriveInv
<1>3. ASSUME NEW hs \in SUBSET watched, Poll(hs) PROVE Inv'
  BY <1>3, PollInv
<1>4. ASSUME NEW fs \in SUBSET Routed, CleanUp(fs) PROVE Inv'
  BY <1>4, CleanUpInv
<1>5. ASSUME NEW e \in events, TakeEvent(e) PROVE Inv'
  BY <1>5, TakeEventInv
<1>6. CASE EndBatch
  BY <1>6, EndBatchInv
<1>7. CASE ListenerRuns
  <2>1. ASSUME NEW c \in Clients, Accept(c) PROVE Inv'
    BY <2>1, AcceptInv
  <2>2. CASE AcceptDrained
    BY <2>2, ReturnInv DEF AcceptDrained, Handlers
  <2>3. ASSUME NEW lost \in SUBSET Queued, AcceptFails(lost) PROVE Inv'
    BY <2>3, AcceptFailsInv
  <2> QED BY <1>7, <2>1, <2>2, <2>3 DEF ListenerRuns
<1>8. ASSUME NEW c \in Clients, ClientRuns(c) PROVE Inv'
  <2>1. ASSUME NEW k \in Keys, NEW f \in Flows, CreateFlow(c, k, f) PROVE Inv'
    BY <2>1, CreateFlowInv
  <2>2. ASSUME NEW k \in Keys, CloseOnPacket(c, k) PROVE Inv'
    BY <2>2, CloseOnPacketInv
  <2>3. CASE CloseClient(c)
    BY <2>3, CloseClientInv
  <2>4. CASE Return(c)
    <3>1. c \in Handlers /\ c # Listener
      BY HandlersDistinct DEF Handlers
    <3> QED BY <2>4, <3>1, ReturnInv
  <2> QED BY <1>8, <2>1, <2>2, <2>3, <2>4 DEF ClientRuns
<1>9. ASSUME NEW f \in Flows, FlowRuns(f) PROVE Inv'
  <2>1. CASE CloseFlow(f)
    BY <2>1, CloseFlowInv
  <2>2. CASE Return(f)
    <3>1. f \in Handlers /\ f # Listener
      BY HandlersDistinct DEF Handlers
    <3> QED BY <2>2, <3>1, ReturnInv
  <2> QED BY <1>9, <2>1, <2>2 DEF FlowRuns
<1> QED
  BY <1>1, <1>2, <1>3, <1>4, <1>5, <1>6, <1>7, <1>8, <1>9 DEF Next, LoopStep

LEMMA Invariance == Spec => []Inv
BY InitInv, NextInv, PTL DEF Spec

\* Every variable of the loop keeps its type.
THEOREM TypeCorrect == Spec => []TypeOK
<1>1. Inv => TypeOK
  BY DEF Inv
<1> QED BY <1>1, Invariance, PTL

\* run_handlers, clean_removed_tokens and remove_from_router never panic.
THEOREM PanicFreedom == Spec => []NoPanic
<1>1. Inv => NoPanic
  BY DEF Inv
<1> QED BY <1>1, Invariance, PTL

\* Because tokens leave the slab only at the end of a batch (selector.rs,
\* clean_removed_tokens), an event reaches the handler it was polled for.
THEOREM EventDelivery == Spec => []EventFindsItsHandler
<1>1. Inv => EventFindsItsHandler
  BY DEF Inv
<1> QED BY <1>1, Invariance, PTL

\* A flow is open exactly while its client's router leads to it (router.rs).
THEOREM RoutingDiscipline == Spec => []OpenMeansRouted
<1>1. Inv => OpenMeansRouted
  BY DEF Inv
<1> QED BY <1>1, Invariance, PTL

\* Only an IPv6 flow whose write failed outlives its closing in the slab.
THEOREM SlabDiscipline == Spec => []OnlyIpv6Leaks
<1>1. Inv => OnlyIpv6Leaks
  BY DEF Inv
<1> QED BY <1>1, Invariance, PTL

\* The edge-triggered listener never sleeps over a queued client
\* (tunnel_server.rs, on_ready) unless an accept failed.
THEOREM AcceptDiscipline == Spec => []AcceptQueueWatched
<1>1. Inv => AcceptQueueWatched
  BY DEF Inv
<1> QED BY <1>1, Invariance, PTL

=============================================================================
