------------------------------ MODULE RelayLoop ------------------------------
(***************************************************************************)
(* The single thread of the relay: Relay::poll_loop around the Selector,   *)
(* the TunnelServer that accepts clients, each client's Router and the     *)
(* life of the flows it holds.  Everything runs inside one batch of poll   *)
(* events; what makes it hard is that the batch was computed before its    *)
(* handlers ran.  A handler may close itself, the reaper or another        *)
(* handler may close it, and a flow created meanwhile takes a slab entry   *)
(* and a route of its own, all while events already polled still name      *)
(* tokens of the past.  What a flow does with its bytes is in              *)
(* TcpConnection and UdpFlow; here a handler call keeps or closes it.      *)
(***************************************************************************)
EXTENDS Naturals, FiniteSets

CONSTANTS
    Clients,                     \* connections to the tunnel server
    Flows,                       \* connection objects, each created once
    TcpKeys, UdpKeys, Ipv6Keys,  \* ConnectionId values, by connection type
    Tokens,                      \* slab indices (Slab grows: bounds the runs)
    Listener,                    \* the handler of the server socket
    None

Keys == TcpKeys \cup UdpKeys \cup Ipv6Keys
Handlers == {Listener} \cup Clients \cup Flows

ASSUME HandlersDistinct ==
    /\ Listener \notin Clients \cup Flows
    /\ Clients \cap Flows = {}
    /\ None \notin Handlers \cup Tokens \cup Keys

ASSUME KindsDistinct ==
    /\ TcpKeys \cap UdpKeys = {}
    /\ TcpKeys \cap Ipv6Keys = {}
    /\ UdpKeys \cap Ipv6Keys = {}

ASSUME SomeToken == Tokens # {}

VARIABLES
    handlers,     \* Selector.handlers: the slab, token -> handler or None
    toRemove,     \* Selector.tokens_to_remove
    watched,      \* the handlers whose socket is in the epoll set
    token,        \* the token each handler was registered with
    client,       \* "away", "queued" in the kernel, "served", "closed"
    flow,         \* "unborn", "open", "closed"
    owner, key,   \* the client and the ConnectionId of each flow
    connections,  \* Router.connections of each client
    events,       \* the rest of the batch: token and, as history, its source
    phase,        \* of poll_loop: "wait", "polled", "run"
    running,      \* the handler being run, or None between two events
    edge,         \* the listener has an edge epoll has not reported yet
    stalled,      \* history: clients left queued by a failed accept
    panicked      \* an expect, or Slab::remove, has panicked

selectorVars == <<handlers, toRemove, watched, token>>
routeVars == <<flow, owner, key, connections>>
acceptVars == <<client, edge, stalled>>
loopVars == <<events, phase, running>>
vars == <<selectorVars, routeVars, acceptVars, loopVars, panicked>>

Vacant == {t \in Tokens : handlers[t] = None}

Queued == {c \in Clients : client[c] = "queued"}

Routed == {f \in Flows : \E c \in Clients, k \in Keys : connections[c][k] = f}

-----------------------------------------------------------------------------
\* Selector

\* Selector::register: the slab chooses a vacant key, never one of a handler
\* that is only marked for removal.
Register(h) ==
    LET t == CHOOSE v \in Tokens : handlers[v] = None
    IN  /\ Vacant # {}
        /\ handlers' = [handlers EXCEPT ![t] = h]
        /\ token' = [token EXCEPT ![h] = t]
        /\ watched' = watched \cup {h}
        /\ UNCHANGED toRemove

\* Mutant of Deregister: the slab entry goes at once.
DeregisterAtOnce(hs) ==
    /\ watched' = watched \ hs
    /\ handlers' = [t \in Tokens |->
                      IF \E h \in hs : token[h] = t THEN None ELSE handlers[t]]
    /\ UNCHANGED <<toRemove, token>>

\* Selector::deregister of each handler of hs: out of epoll now, out of the
\* slab at the end of the batch.
Deregister(hs) ==
    /\ watched' = watched \ hs
    /\ toRemove' = toRemove \cup {token[h] : h \in hs}
    /\ UNCHANGED <<handlers, token>>

\* The Rc of a client is dropped: not in TunnelServer.clients, and no slab
\* entry holds its handler.
Dropped(c) == client[c] # "served" /\ \A t \in Tokens : handlers[t] # c

\* A token pushed twice on tokens_to_remove: the second Slab::remove panics.
RemovedTwice(hs) ==
    \/ \E h \in hs : token[h] \in toRemove
    \/ \E g, h \in hs : g # h /\ token[g] = token[h]

\* Relay::run: the server socket is the only handler, its token the first.
Init ==
    LET t == CHOOSE v \in Tokens : TRUE
    IN  /\ handlers = [v \in Tokens |-> IF v = t THEN Listener ELSE None]
        /\ token = [h \in Handlers |-> IF h = Listener THEN t ELSE None]
        /\ toRemove = {}
        /\ watched = {Listener}
        /\ client = [c \in Clients |-> "away"]
        /\ flow = [f \in Flows |-> "unborn"]
        /\ owner = [f \in Flows |-> None]
        /\ key = [f \in Flows |-> None]
        /\ connections = [c \in Clients |-> [k \in Keys |-> None]]
        /\ events = {}
        /\ phase = "wait"
        /\ running = None
        /\ edge = FALSE
        /\ stalled = {}
        /\ panicked = FALSE

\* A native tunnel connects, at any moment, to the listening socket.
Arrive(c) ==
    /\ client[c] = "away"
    /\ client' = [client EXCEPT ![c] = "queued"]
    /\ edge' = TRUE
    /\ UNCHANGED <<selectorVars, routeVars, loopVars, stalled, panicked>>

\* Selector::poll returns with any set of ready sockets, empty on a timeout.
\* The listener is registered edge-triggered: it is reported once per edge.
Poll(hs) ==
    /\ phase = "wait"
    /\ Listener \in hs <=> (edge /\ Listener \in watched)
    /\ events' = {[token |-> token[h], source |-> h] : h \in hs}
    /\ edge' = (edge /\ Listener \notin hs)
    /\ phase' = "polled"
    /\ UNCHANGED <<selectorVars, routeVars, client, stalled, running, panicked>>

-----------------------------------------------------------------------------
\* The reaper, and the end of a batch

Unrouted(fs) ==
    [c \in Clients |-> [k \in Keys |->
        IF connections[c][k] \in fs THEN None ELSE connections[c][k]]]

\* Mutant of CleanUp: expire() marks the flow and does not deregister it.
CleanUpMarks(fs) ==
    /\ phase = "polled"
    /\ fs \subseteq Routed
    /\ connections' = Unrouted(fs)
    /\ flow' = [f \in Flows |-> IF f \in fs THEN "closed" ELSE flow[f]]
    /\ phase' = IF events = {} THEN "wait" ELSE "run"
    /\ UNCHANGED <<selectorVars, owner, key, acceptVars, events, running, panicked>>

\* The part of poll_loop between poll and run_handlers.  When the cleaning
\* deadline has passed, every router removes its expired flows and expires
\* them (fs; empty before the deadline).  A poll without events is then taken
\* for a spurious wakeup: the loop continues without freeing the tokens the
\* reaper has just marked.
CleanUp(fs) ==
    /\ phase = "polled"
    /\ fs \subseteq Routed
    /\ connections' = Unrouted(fs)
    /\ flow' = [f \in Flows |-> IF f \in fs THEN "closed" ELSE flow[f]]
    /\ Deregister(fs)
    /\ panicked' = RemovedTwice(fs)
    /\ phase' = IF events = {} THEN "wait" ELSE "run"
    /\ UNCHANGED <<owner, key, acceptVars, events, running>>

\* run_handlers looks the next event's token up; no entry is a panic.
TakeEvent(e) ==
    /\ phase = "run"
    /\ running = None
    /\ e \in events
    /\ events' = events \ {e}
    /\ running' = handlers[e.token]
    /\ panicked' = (handlers[e.token] = None)
    /\ UNCHANGED <<selectorVars, routeVars, acceptVars, phase>>

\* clean_removed_tokens, after the last handler of the batch.
EndBatch ==
    /\ phase = "run"
    /\ running = None
    /\ events = {}
    /\ handlers' = [t \in Tokens |-> IF t \in toRemove THEN None ELSE handlers[t]]
    /\ panicked' = (\E t \in toRemove : handlers[t] = None)
    /\ toRemove' = {}
    /\ phase' = "wait"
    /\ UNCHANGED <<watched, token, routeVars, acceptVars, events, running>>

-----------------------------------------------------------------------------
\* TunnelServer: the listener's handler accepts until WouldBlock

Return(h) ==
    /\ running = h
    /\ running' = None
    /\ UNCHANGED <<selectorVars, routeVars, acceptVars, events, phase, panicked>>

\* Mutant of Accept: one client per event.
AcceptOne(c) ==
    /\ running = Listener
    /\ client[c] = "queued"
    /\ Register(c)
    /\ client' = [client EXCEPT ![c] = "served"]
    /\ stalled' = stalled \ {c}
    /\ running' = None
    /\ UNCHANGED <<routeVars, events, phase, edge, panicked>>

\* One turn of the loop of on_ready: accept, Client::create, push.
Accept(c) ==
    /\ running = Listener
    /\ client[c] = "queued"
    /\ Register(c)
    /\ client' = [client EXCEPT ![c] = "served"]
    /\ stalled' = stalled \ {c}
    /\ UNCHANGED <<routeVars, loopVars, edge, panicked>>

\* WouldBlock: the queue is empty.
AcceptDrained ==
    /\ Queued = {}
    /\ Return(Listener)

\* Mutant of AcceptFails: the server gives its socket up.
AcceptFailsForGood(lost) ==
    /\ running = Listener
    /\ lost \subseteq Queued
    /\ Cardinality(lost) <= 1
    /\ running' = None
    /\ client' = [c \in Clients |-> IF c \in lost THEN "closed" ELSE client[c]]
    /\ stalled' = (stalled \cup Queued) \ lost
    /\ watched' = watched \ {Listener}
    /\ UNCHANGED <<handlers, toRemove, token, routeVars, edge, events, phase, panicked>>

\* Any other error breaks the loop too.  accept itself may fail and leave the
\* queue as it is, or Client::create may fail and drop the stream of c.
AcceptFails(lost) ==
    /\ running = Listener
    /\ lost \subseteq Queued
    /\ Cardinality(lost) <= 1
    /\ running' = None
    /\ client' = [c \in Clients |-> IF c \in lost THEN "closed" ELSE client[c]]
    /\ stalled' = (stalled \cup Queued) \ lost
    /\ UNCHANGED <<selectorVars, routeVars, edge, events, phase, panicked>>

-----------------------------------------------------------------------------
\* Client and Router: the handler of a client feeds packets to its router

\* Router::send_to_network, no route yet: create_connection and insert.
\* (When the creation fails the packet is dropped and nothing changes.)
CreateFlow(c, k, f) ==
    /\ running = c
    /\ client[c] = "served"
    /\ connections[c][k] = None
    /\ flow[f] = "unborn"
    /\ Register(f)
    /\ flow' = [flow EXCEPT ![f] = "open"]
    /\ owner' = [owner EXCEPT ![f] = c]
    /\ key' = [key EXCEPT ![f] = k]
    /\ connections' = [connections EXCEPT ![c][k] = f]
    /\ UNCHANGED <<acceptVars, loopVars, panicked>>

\* Mutant of CloseOnPacket: a TCP flow only sets its flag, like an IPv6 flow.
CloseOnPacketMarks(c, k) ==
    LET f == connections[c][k]
    IN  /\ running = c
        /\ client[c] = "served"
        /\ k \notin UdpKeys
        /\ f # None
        /\ flow' = [flow EXCEPT ![f] = "closed"]
        /\ connections' = [connections EXCEPT ![c][k] = None]
        /\ UNCHANGED <<selectorVars, owner, key, acceptVars, loopVars, panicked>>

\* Router::send_to_network finds the flow closed after it handled the packet
\* and removes the route.  A TCP flow closes itself through deregister; an
\* IPv6 flow whose write fails only sets its closed flag; a UDP flow never
\* closes here.
CloseOnPacket(c, k) ==
    LET f == connections[c][k]
    IN  /\ running = c
        /\ client[c] = "served"
        /\ k \notin UdpKeys
        /\ f # None
        /\ flow' = [flow EXCEPT ![f] = "closed"]
        /\ connections' = [connections EXCEPT ![c][k] = None]
        /\ Deregister(IF k \in Ipv6Keys THEN {} ELSE {f})
        /\ panicked' = (k \notin Ipv6Keys /\ RemovedTwice({f}))
        /\ UNCHANGED <<owner, key, acceptVars, loopVars>>

\* Mutant of CloseClient: the router is not cleared.
CloseClientOnly(c) ==
    /\ running = c
    /\ client[c] = "served"
    /\ client' = [client EXCEPT ![c] = "closed"]
    /\ Deregister({c})
    /\ panicked' = RemovedTwice({c})
    /\ running' = None
    /\ UNCHANGED <<routeVars, edge, stalled, events, phase>>

\* Client::close: deregister, Router::clear closing every flow, and
\* TunnelServer::remove_client.
CloseClient(c) ==
    LET fs == {f \in Flows : \E k \in Keys : connections[c][k] = f}
    IN  /\ running = c
        /\ client[c] = "served"
        /\ client' = [client EXCEPT ![c] = "closed"]
        /\ connections' = [connections EXCEPT ![c] = [k \in Keys |-> None]]
        /\ flow' = [f \in Flows |-> IF f \in fs THEN "closed" ELSE flow[f]]
        /\ Deregister({c} \cup fs)
        /\ panicked' = RemovedTwice({c} \cup fs)
        /\ running' = None
        /\ UNCHANGED <<owner, key, edge, stalled, events, phase>>

\* Mutant of CloseFlow: a closed flow still removes "itself" from the router.
CloseFlowAgain(f) ==
    LET c == owner[f]
    IN  /\ running = f
        /\ flow' = [flow EXCEPT ![f] = "closed"]
        /\ connections' = [connections EXCEPT ![c][key[f]] = None]
        /\ IF flow[f] = "open" THEN Deregister({f}) ELSE UNCHANGED selectorVars
        /\ running' = None
        /\ UNCHANGED <<owner, key, acceptVars, events, phase, panicked>>

\* The handler of a flow that ends up closed: deregister, and
\* remove_from_router, which reaches the router through the client and
\* removes whatever is under this flow's id.  A handler called on a flow that
\* is already closed returns at once (Return).
CloseFlow(f) ==
    LET c == owner[f]
    IN  /\ running = f
        /\ flow[f] = "open"
        /\ flow' = [flow EXCEPT ![f] = "closed"]
        /\ connections' = [connections EXCEPT ![c][key[f]] = None]
        /\ Deregister({f})
        /\ panicked' = (RemovedTwice({f}) \/ Dropped(c))
        /\ running' = None
        /\ UNCHANGED <<owner, key, acceptVars, events, phase>>

-----------------------------------------------------------------------------
ListenerRuns ==
    \/ \E c \in Clients : Accept(c)
    \/ AcceptDrained
    \/ \E lost \in SUBSET Queued : AcceptFails(lost)

ClientRuns(c) ==
    \/ \E k \in Keys, f \in Flows : CreateFlow(c, k, f)
    \/ \E k \in Keys : CloseOnPacket(c, k)
    \/ CloseClient(c)
    \/ Return(c)

FlowRuns(f) == CloseFlow(f) \/ Return(f)

LoopStep ==
    \/ \E hs \in SUBSET watched : Poll(hs)
    \/ \E fs \in SUBSET Routed : CleanUp(fs)
    \/ \E e \in events : TakeEvent(e)
    \/ EndBatch
    \/ ListenerRuns
    \/ \E c \in Clients : ClientRuns(c)
    \/ \E f \in Flows : FlowRuns(f)

Next ==
    /\ ~panicked
    /\ (\E c \in Clients : Arrive(c)) \/ LoopStep

Spec == Init /\ [][Next]_vars

\* The thread never stops stepping: poll returns at the latest after the
\* cleaning interval, and a handler returns.
FairSpec == Spec /\ WF_vars(~panicked /\ LoopStep)

-----------------------------------------------------------------------------
\* Properties

\* Every variable has its type.
TypeOK ==
    /\ handlers \in [Tokens -> Handlers \cup {None}]
    /\ toRemove \subseteq Tokens
    /\ watched \subseteq Handlers
    /\ token \in [Handlers -> Tokens \cup {None}]
    /\ client \in [Clients -> {"away", "queued", "served", "closed"}]
    /\ flow \in [Flows -> {"unborn", "open", "closed"}]
    /\ owner \in [Flows -> Clients \cup {None}]
    /\ key \in [Flows -> Keys \cup {None}]
    /\ connections \in [Clients -> [Keys -> Flows \cup {None}]]
    /\ events \subseteq [token : Tokens, source : Handlers]
    /\ phase \in {"wait", "polled", "run"}
    /\ running \in Handlers \cup {None}
    /\ edge \in BOOLEAN
    /\ stalled \subseteq Clients
    /\ panicked \in BOOLEAN

\* None of the panics of the loop is reached: "Token not found" in
\* run_handlers, Slab::remove of a vacant or twice marked token in
\* clean_removed_tokens, "Expected client not found" in remove_from_router.
NoPanic == ~panicked

\* Deferring the removal of tokens to the end of the batch (selector.rs) is
\* what makes an event reach the handler it was polled for, whatever was
\* closed and whatever was created since the poll.
EventFindsItsHandler == \A e \in events : handlers[e.token] = e.source

\* A flow is open exactly while the router of its served client leads to it
\* under its own id; it is then watched and has a slab entry of its own.  A
\* stale handler call that removed a route by id would take the route of the
\* flow that succeeded it.
OpenMeansRouted ==
    /\ \A f \in Flows : flow[f] = "open" =>
          /\ owner[f] \in Clients /\ key[f] \in Keys
          /\ client[owner[f]] = "served"
          /\ connections[owner[f]][key[f]] = f
          /\ f \in watched
          /\ token[f] \in Tokens \ toRemove
          /\ handlers[token[f]] = f
    /\ \A c \in Clients, k \in Keys :
          LET f == connections[c][k]
          IN  f # None => flow[f] = "open" /\ owner[f] = c /\ key[f] = k

Live(h) ==
    \/ h = Listener
    \/ h \in Clients /\ client[h] = "served"
    \/ h \in Flows /\ flow[h] = "open"

\* A closed IPv6 flow; one whose write failed keeps its slab entry for ever
\* (ipv6_connection.rs:246).
Ghost(h) == h \in Flows /\ flow[h] = "closed" /\ key[h] \in Ipv6Keys

\* Everything the slab holds on to, and so every socket kept open, is live or
\* marked to be dropped; the one exception is a closed IPv6 flow.
OnlyIpv6Leaks ==
    \A t \in Tokens : handlers[t] # None =>
        \/ Live(handlers[t])
        \/ t \in toRemove
        \/ Ghost(handlers[t])

\* "What must never leak is the strong reference held by the handler
\* closure" (selector.rs, deregister): no exception.
NoHandlerLeaks ==
    \A t \in Tokens :
        handlers[t] # None => Live(handlers[t]) \/ t \in toRemove

\* "Edge-triggered listeners must drain the accept queue" (tunnel_server.rs):
\* while a client is queued, epoll still has an edge to report, or reported it
\* in this batch, or the handler is at it.  Excepted are the clients behind an
\* accept that failed, which wait for the next connection.
AcceptQueueWatched ==
    Queued \ stalled # {} =>
        \/ edge
        \/ running = Listener
        \/ \E e \in events : e.source = Listener

\* A client that connects is served, unless an accept fails.
QueuedClientServed ==
    \A c \in Clients :
        client[c] = "queued" ~> client[c] # "queued" \/ c \in stalled

\* A client that closes is dropped, its socket with it, and with it every
\* flow it had.
ClosedClientDropped ==
    \A c \in Clients :
        client[c] = "closed" ~>
            \A t \in Tokens : handlers[t] # c /\
                (handlers[t] \in Flows /\ owner[handlers[t]] = c
                    => Ghost(handlers[t]))

\* The sockets of flows the reaper closes are released as long as batches
\* with events keep coming: a poll without events frees nothing.
ClosedFlowDropped ==
    ([]<>(phase = "run")) =>
        \A f \in Flows :
            flow[f] = "closed" ~>
                Ghost(f) \/ \A t \in Tokens : handlers[t] # f

\* Whatever closes is released in the end (clean_removed_tokens), apart from
\* the ghosts of OnlyIpv6Leaks.
ClosedIsDropped == ClosedClientDropped /\ ClosedFlowDropped

=============================================================================
