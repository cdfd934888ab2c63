------------------------------- MODULE UdpFlow -------------------------------
(***************************************************************************)
(* relay/src/relay/udp_connection.rs: one UDP flow. The client's datagrams *)
(* wait in the DatagramBuffer until the socket is reported writable; which *)
(* readiness is asked for is recomputed at the end of each handler, from   *)
(* whether the buffer is empty, but not past a read that blocks. A handler *)
(* runs on readiness polled earlier, a spurious readiness included, and    *)
(* the reaper or the client's end may close the flow in between. Datagrams *)
(* from the network are packetized and put on the link, or dropped when it *)
(* is full: they change nothing here.                                      *)
(***************************************************************************)
EXTENDS DatagramBuffer

CONSTANT IdleTimeout   \* IDLE_TIMEOUT_SECONDS, in ticks of the reaper

ASSUME UdpAssumption == IdleTimeout \in Nat

VARIABLES closed,     \* UdpConnection.closed
          routed,     \* the client's router has the flow
          interests,  \* UdpConnection.interests: "r" and "w"
          event,      \* the readiness polled and not handled yet, or NoEvent
          idle,       \* now - idle_since, up to IdleTimeout + 1
          removals,   \* calls of Selector::deregister
          panicked    \* history: write_to() was called while empty

bufferVars == <<buf, head, tail, owed, out>>
flowVars == <<closed, routed, interests, event, idle, removals, panicked>>
allVars == <<bufferVars, flowVars>>

NoEvent == {"no event"}

\* What update_interests asks for, by the buffer after the handler.
Wanted(empty) == IF empty THEN {"r"} ELSE {"r", "w"}

\* UdpConnection::create, called by the router.
FlowInit ==
    /\ Init
    /\ closed = FALSE
    /\ routed = TRUE
    /\ interests = {"r"}
    /\ event = NoEvent
    /\ idle = 0
    /\ removals = 0
    /\ panicked = FALSE

-----------------------------------------------------------------------------
\* send_to_network: the router hands over a datagram of the client.  One that
\* does not fit is dropped.
SendToNetwork(d) ==
    /\ routed
    /\ ReadFrom(d)
    /\ interests' = IF HasEnoughSpaceFor(d.length)
                      THEN Wanted(head' = tail') ELSE interests
    /\ UNCHANGED <<closed, routed, event, idle, removals, panicked>>

\* Level-triggered polling: some readiness asked for, or none (error, hup).
Poll(ready) ==
    /\ ~closed
    /\ event = NoEvent
    /\ ready \subseteq interests
    /\ event' = ready
    /\ UNCHANGED <<bufferVars, closed, routed, interests, idle, removals, panicked>>

-----------------------------------------------------------------------------
\* on_ready

\* An event of the batch whose flow was closed meanwhile.
OnReadyClosed ==
    /\ closed
    /\ event # NoEvent
    /\ event' = NoEvent
    /\ UNCHANGED <<bufferVars, closed, routed, interests, idle, removals, panicked>>

\* process_send when polled writable.  The datagram leaves the buffer whatever
\* the socket answers; WouldBlock is ignored, another error closes the flow.
Sends(outcome) ==
    IF "w" \in event
    THEN IF IsEmpty
         THEN UNCHANGED bufferVars
         ELSE WriteTo
    ELSE /\ outcome = "ok"
         /\ UNCHANGED bufferVars

\* process_receive when polled readable and still open: a socket polled readable
\* may block nevertheless.
Receives(sent, outcome) ==
    ("r" \notin event \/ sent = "error") => outcome = "ok"

\* Mutant of Keeps: the readiness asked for is that of before process_send.
KeepsStale(received) ==
    /\ interests' = IF received = "block" THEN interests ELSE Wanted(IsEmpty)
    /\ UNCHANGED <<closed, routed, removals>>

\* Mutant of Keeps: once read, the flow forgets that it wants to write.
KeepsReading(received) ==
    /\ interests' = IF received = "block" THEN interests ELSE {"r"}
    /\ UNCHANGED <<closed, routed, removals>>

\* The flow stays open.  A read that would block is thrown up to on_ready, past
\* update_interests.
Keeps(received) ==
    /\ interests' = IF received = "block" THEN interests
                                          ELSE Wanted(head' = tail')
    /\ UNCHANGED <<closed, routed, removals>>

\* close and remove_from_router.
Closes ==
    /\ closed' = TRUE
    /\ removals' = removals + 1
    /\ routed' = FALSE
    /\ UNCHANGED interests

\* process on an open flow: touch, send, receive, update_interests, or close on
\* an error or on an event without readiness.
OnReady(sent, received) ==
    /\ ~closed
    /\ event # NoEvent
    /\ event' = NoEvent
    /\ idle' = 0
    /\ panicked' = (panicked \/ ("w" \in event /\ IsEmpty))
    /\ Sends(sent)
    /\ Receives(sent, received)
    /\ IF event = {} \/ "error" \in {sent, received}
       THEN Closes
       ELSE Keeps(received)

-----------------------------------------------------------------------------
\* Time, the reaper and the end of the client

IsExpired == idle > IdleTimeout

Tick ==
    /\ ~closed
    /\ idle <= IdleTimeout
    /\ idle' = idle + 1
    /\ UNCHANGED <<bufferVars, closed, routed, interests, event, removals, panicked>>

\* Mutant of Expire: the route goes, the flow is not closed.
ExpireUnroutes ==
    /\ routed
    /\ IsExpired
    /\ routed' = FALSE
    /\ UNCHANGED <<bufferVars, closed, removals, interests, event, idle, panicked>>

\* Router::clean_expired_connections and the trait's expire: close.
Expire ==
    /\ routed
    /\ IsExpired
    /\ routed' = FALSE
    /\ closed' = TRUE
    /\ removals' = removals + 1
    /\ UNCHANGED <<bufferVars, interests, event, idle, panicked>>

\* Router::clear when the client closes.
ClientCloses ==
    /\ routed
    /\ routed' = FALSE
    /\ closed' = TRUE
    /\ removals' = removals + 1
    /\ UNCHANGED <<bufferVars, interests, event, idle, panicked>>

Handles ==
    \/ OnReadyClosed
    \/ \E sent, received \in {"ok", "block", "error"} : OnReady(sent, received)

FlowNext ==
    /\ ~panicked
    /\ \/ \E d \in Datagram : SendToNetwork(d)
       \/ \E ready \in SUBSET {"r", "w"} : Poll(ready)
       \/ Handles
       \/ Tick
       \/ Expire
       \/ ClientCloses

FlowSpec == FlowInit /\ [][FlowNext]_allVars

\* The relay handles the events it polled; a UDP socket asked for is found
\* writable again and again; time passes and the reaper runs every few seconds.
FairFlowSpec ==
    /\ FlowSpec
    /\ WF_allVars(~panicked /\ Handles)
    /\ SF_allVars(~panicked /\ \E ready \in SUBSET {"r", "w"} :
                      "w" \in ready /\ Poll(ready))
    /\ WF_allVars(~panicked /\ Tick)
    /\ WF_allVars(~panicked /\ Expire)

-----------------------------------------------------------------------------
FlowTypeOK ==
    /\ TypeOK
    /\ closed \in BOOLEAN /\ routed \in BOOLEAN /\ panicked \in BOOLEAN
    /\ interests \subseteq {"r", "w"}
    /\ event = NoEvent \/ event \subseteq {"r", "w"}
    /\ idle \in 0 .. IdleTimeout + 1
    /\ removals \in Nat

\* No lost wakeup: on every path of every handler, the one that skips
\* update_interests included, an open flow asks for what it waits for, "w" whenever
\* it holds datagrams.
AsksForWhatItNeeds == ~closed => Wanted(IsEmpty) \subseteq interests

\* The flow asks to write and has nothing to write.
AsksNeedlessly == ~closed /\ IsEmpty /\ "w" \in interests

\* The flow comes to ask needlessly in one way only: the handler of an event both
\* writable and readable sends the last datagram, then finds nothing to read and
\* leaves before update_interests (process_receive rethrows WouldBlock). Whatever
\* else empties the buffer, a full ring that reads as empty included, takes the
\* interest back.
NeedlessOnlyPastBlockedRead ==
    [][AsksNeedlessly' /\ ~AsksNeedlessly => {"r", "w"} \subseteq event]_allVars

\* "DatagramBuffer.write_to() called while empty" (datagram_buffer.rs) never
\* brings the relay down.
WriteFindsDatagram == ~panicked

\* The flow is deregistered once, and leaves the router in the call that closes
\* it: a second call would panic in clean_removed_tokens.
ClosedOnceAndUnrouted ==
    /\ removals = IF closed THEN 1 ELSE 0
    /\ routed <=> ~closed

\* A flow does not sit on what it queued: a datagram reaches send(), or the
\* flow is closed (or the buffer forgets it, see ImplementsFifo).
QueuedIsSent == (~IsEmpty) ~> (out # << >> \/ IsEmpty \/ closed)

\* A flow whose socket no longer has events is closed by the reaper.
IdleFlowReclaimed == <>[](event = NoEvent) => <>(closed \/ panicked)

=============================================================================
