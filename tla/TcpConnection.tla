---------------------------- MODULE TcpConnection -----------------------------
(***************************************************************************)
(* relay/src/relay/tcp_connection.rs: one TCP flow of the relay, from the  *)
(* client's first packet to its removal from the router, together with the *)
(* part of client.rs, router.rs and relay.rs that drives it.               *)
(*                                                                         *)
(* The relay is one thread. A batch of the event loop is: poll, then the   *)
(* reaper if it is due, then the handlers of the events poll returned, in  *)
(* any order. The readiness of the flow is therefore read at Poll and used *)
(* at OnReady, after the client's handler of the same batch may have run.  *)
(*                                                                         *)
(* Every Rust method is an operator from flow records to flow records; an  *)
(* action is a whole handler. A failed assertion sets panic and unwinds.   *)
(***************************************************************************)
EXTENDS Integers

CONSTANTS
    Modulus,         \* sequence numbers are taken modulo this (2^32 in the code)
    HeaderLength,    \* IPv4 + TCP header (40 in the code)
    MaxPayload,      \* MAX_PAYLOAD_LENGTH
    UpCapacity,      \* capacity of client_to_network
    LinkCapacity,    \* capacity of the client's network_to_client
    ClientIsns,      \* initial sequence numbers a client may choose
    RelayIsns,       \* values random::<u32>() may return
    Windows,         \* windows a client may advertise
    AckLags,         \* how far a client's acknowledgement may trail seq
    MaxSegment,      \* bound: the longest client payload
    MaxUp,           \* bound: bytes the client sends in all
    MaxDown,         \* bound: bytes the network sends in all
    MaxFins,         \* bound: FINs the client sends in all
    ConnectTimeout,  \* CONNECT_TIMEOUT_SECONDS, in ticks
    IdleTimeout,     \* IDLE_TIMEOUT_SECONDS, in ticks
    SpuriousEvents,  \* may a socket answer WouldBlock after poll reported it?
    ClientConforms   \* does the client keep to the TCP protocol?

ASSUME ModulusAssumption == Modulus \in Nat \ {0}
ASSUME LengthAssumption ==
    /\ HeaderLength \in Nat \ {0}
    /\ MaxPayload \in Nat \ {0}
    /\ UpCapacity \in Nat
    /\ LinkCapacity \in Nat
    /\ MaxSegment \in Nat
    /\ MaxUp \in Nat
    /\ MaxDown \in Nat
    /\ MaxFins \in Nat
ASSUME NumberAssumption ==
    /\ ClientIsns \subseteq 0 .. Modulus - 1
    /\ RelayIsns \subseteq 0 .. Modulus - 1
    /\ Windows \subseteq Nat
    /\ AckLags \subseteq Nat
ASSUME TimeAssumption ==
    /\ ConnectTimeout \in Nat
    /\ IdleTimeout \in Nat
ASSUME EnvironmentAssumption ==
    /\ SpuriousEvents \in BOOLEAN
    /\ ClientConforms \in BOOLEAN

VARIABLES
    flow,     \* the TcpConnection, its place in the client and the router
    event,    \* readiness poll returned for the flow and not handled yet
    client,   \* the client's handler: idle, ready (polled), busy, closed
    loop,     \* the event loop: blocked in poll, or running a batch
    due,      \* is the cleaning deadline over?
    age,      \* ticks since created_at, saturating
    idle      \* ticks since idle_since, saturating

vars == <<flow, event, client, loop, due, age, idle>>

None == -1

Handshake == {"SynSent", "SynReceived"}

\* TcpState::is_closed: the relay has sent its FIN.
FinSent == {"FinWait1", "FinWait2", "Closing", "LastAck"}

\* TcpState. CloseWait is never assigned by the code.
States == {"Init", "Established", "CloseWait"} \cup Handshake \cup FinSent

-------------------------------------------------------------------------------
(***************************************************************************)
(* The flow. Beside the fields of TcpConnection and its Tcb:               *)
(*   header      the header bytes at the front of the packetizer's buffer  *)
(*   registered  entries of the flow in the client's pending_packet_sources*)
(*   used        bytes in the client's network_to_client buffer            *)
(*   routed      is the flow in the router's map?                          *)
(*   deregs      times its token was pushed to tokens_to_remove            *)
(*   panic       the assertion that failed, if any                         *)
(* History, read by no handler: framed (every packet given to the link was *)
(* as long as its header says), isn, written (bytes the socket accepted),  *)
(* sent (payload bytes given to the link), fins (FINs counted in ack),     *)
(* finPos (where the client's FIN lies).                                   *)
(***************************************************************************)
NewFlow ==
    [state |-> "Init", synSeq |-> 0, seq |-> 0, ack |-> 0, theirAck |-> 0,
     finSeq |-> None, finReceived |-> FALSE, window |-> 0,
     size |-> 0, pending |-> None, closed |-> FALSE, interests |-> {"w"},
     header |-> [flags |-> {}, total |-> 0],
     registered |-> 0, used |-> 0, routed |-> FALSE, deregs |-> 0,
     panic |-> "none",
     framed |-> TRUE, isn |-> 0, written |-> 0, sent |-> 0, fins |-> 0,
     finPos |-> None]

Add(a, n) == (a + n) % Modulus

Min(a, b) == IF a <= b THEN a ELSE b

\* Tcb::remaining_client_window
RemainingClientWindow(c) ==
    LET remaining == (c.theirAck + c.window - c.seq) % Modulus IN
    IF remaining <= c.window THEN remaining ELSE 0

\* Mutant of MayRead: reads although a packet is already pending.
MayReadOverPending(c) ==
    /\ c.state \in States \ (FinSent \cup Handshake \cup {"Init"})
    /\ RemainingClientWindow(c) > 0

MayRead(c) == /\ c.state \in States \ (FinSent \cup Handshake \cup {"Init"})
              /\ c.pending = None
              /\ RemainingClientWindow(c) > 0

MayWrite(c) == c.size > 0

WantedInterests(c) ==
    IF c.state = "SynSent" THEN {"w"}
    ELSE (IF MayRead(c) THEN {"r"} ELSE {}) \cup (IF MayWrite(c) THEN {"w"} ELSE {})

UpdateInterests(c) ==
    IF c.closed THEN [c EXCEPT !.panic = "interests of a closed flow"]
    ELSE [c EXCEPT !.interests = WantedInterests(c)]

UpdateHeaders(c, flags) ==
    [c EXCEPT !.header.flags = flags]

\* Packetizer::build with a payload of n bytes.
Build(c, n) == [c EXCEPT !.header.total = HeaderLength + n]

Fits(c, length) == length <= LinkCapacity - c.used

\* ClientChannel::send_raw_to_client when it fits: the raw slice holds the
\* packetizer's current header and n payload bytes.
Push(c, n) ==
    [c EXCEPT !.used = @ + HeaderLength + n,
              !.framed = @ /\ c.header.total = HeaderLength + n]

\* reply_empty_packet_to_client: a packet that does not fit is dropped, but the
\* header has been rewritten.
Reply(c, flags) ==
    LET d == Build(UpdateHeaders(c, flags), 0) IN
    IF Fits(d, HeaderLength) THEN Push(d, 0) ELSE d

Close(c) == [c EXCEPT !.closed = TRUE, !.deregs = @ + 1]

Unroute(c) == [c EXCEPT !.routed = FALSE]

-------------------------------------------------------------------------------
(* Packets from the client: send_to_network and what it calls. *)

HandleFirstPacket(c, p, isn) ==
    IF "SYN" \in p.flags
    THEN [c EXCEPT !.ack = Add(p.seq, 1), !.synSeq = p.seq, !.seq = isn, !.isn = isn,
                   !.window = p.window, !.state = "SynSent"]
    ELSE Close(Reply([c EXCEPT !.seq = p.ack], {"RST"}))

HandleDuplicateSyn(c, p) ==
    IF c.state = "SynSent"
    THEN [c EXCEPT !.synSeq = p.seq, !.ack = Add(p.seq, 1), !.fins = 0]
    ELSE IF p.seq # c.synSeq THEN Close(Reply(c, {"RST"}))
    ELSE c

\* Mutant of DoHandleFin: answers a FIN with a FIN although the relay's is out.
DoHandleFinTwice(c) ==
    LET d == [c EXCEPT !.ack = Add(@, 1), !.fins = @ + 1] IN
    CASE d.state \in {"Established", "FinWait1"} ->
            [Reply(d, {"FIN", "ACK"}) EXCEPT !.finSeq = d.seq, !.seq = Add(d.seq, 1),
                                             !.state = "LastAck"]
      [] d.state = "FinWait2" -> Close(Reply(d, {"ACK"}))
      [] OTHER -> d

DoHandleFin(c) ==
    LET d == [c EXCEPT !.ack = Add(@, 1), !.fins = @ + 1] IN
    CASE d.state = "Established" ->
            [Reply(d, {"FIN", "ACK"}) EXCEPT !.finSeq = d.seq, !.seq = Add(d.seq, 1),
                                             !.state = "LastAck"]
      [] d.state = "FinWait1" -> [Reply(d, {"ACK"}) EXCEPT !.state = "Closing"]
      [] d.state = "FinWait2" -> Close(Reply(d, {"ACK"}))
      [] OTHER -> d

HandleFin(c, p) ==
    LET d == [c EXCEPT !.finReceived = TRUE, !.finPos = Add(p.seq, p.length)] IN
    IF d.size = 0 THEN DoHandleFin(d) ELSE d

HandleFinAck(c) ==
    IF c.state \in {"LastAck", "Closing"} THEN Close(c)
    ELSE IF c.state = "FinWait1" THEN [c EXCEPT !.state = "FinWait2"]
    ELSE c

HandleAck(c, p) ==
    IF c.state = "SynReceived" THEN [c EXCEPT !.state = "Established"]
    ELSE IF UpCapacity - c.size < p.length THEN c
    ELSE [c EXCEPT !.size = @ + p.length]

ExpectedPacket(c) == Add(c.ack, c.size)

\* handle_packet from the acceptance of the sequence number on.
HandleExpectedPacket(c, p) ==
    LET d == [c EXCEPT !.window = p.window, !.theirAck = p.ack]
        e == IF "ACK" \in p.flags THEN HandleAck(d, p) ELSE d
        f == IF "FIN" \in p.flags THEN HandleFin(e, p) ELSE e
    IN  IF "RST" \in p.flags THEN Close(d)
        ELSE IF f.finSeq # None /\ p.ack = Add(f.finSeq, 1) THEN HandleFinAck(f)
        ELSE f

HandlePacket(c, p, isn) ==
    IF c.state = "Init" THEN HandleFirstPacket(c, p, isn)
    ELSE IF "SYN" \in p.flags THEN HandleDuplicateSyn(c, p)
    ELSE IF p.seq # ExpectedPacket(c) THEN c
    ELSE HandleExpectedPacket(c, p)

\* Router::send_to_network for this flow: a missing entry is created, a flow
\* that closed while handling the packet is removed.
SendToNetwork(c, p, isn) ==
    LET d == HandlePacket([c EXCEPT !.routed = TRUE], p, isn) IN
    IF d.closed THEN Unroute(d) ELSE UpdateInterests(d)

-------------------------------------------------------------------------------
(***************************************************************************)
(* Events of the flow's own socket: process and what it calls. The socket  *)
(* answers o: whether connect or write succeeds, how many bytes a write    *)
(* takes, what a read finds and how many bytes are ready.                  *)
(***************************************************************************)

ProcessConnect(c, o) ==
    IF o.write = "error" THEN Close(Reply(c, {"RST"}))
    ELSE LET d == [c EXCEPT !.state = "SynReceived"] IN
         [Reply(d, {"SYN", "ACK"}) EXCEPT !.seq = Add(d.seq, 1)]

\* Mutant of ProcessSend: acknowledges the whole buffer after a partial write.
ProcessSendAckAll(c, o) ==
    LET w == Min(o.taken, c.size)
        d == [c EXCEPT !.ack = Add(@, c.size), !.size = @ - w, !.written = @ + w] IN
    IF c.size = 0 THEN Close(c)
    ELSE IF o.write = "error" THEN Close(Reply(c, {"RST"}))
    ELSE IF d.finReceived /\ d.size = 0 THEN DoHandleFin(d)
    ELSE Reply(d, {"ACK"})

\* process_send, unless it rethrows WouldBlock. The socket takes at most
\* o.taken bytes; an empty buffer writes 0 and closes the flow.
ProcessSend(c, o) ==
    LET w == Min(o.taken, c.size)
        d == [c EXCEPT !.ack = Add(@, w), !.size = @ - w, !.written = @ + w] IN
    IF c.size = 0 THEN Close(c)
    ELSE IF o.write = "error" THEN Close(Reply(c, {"RST"}))
    ELSE IF d.finReceived /\ d.size = 0 THEN DoHandleFin(d)
    ELSE Reply(d, {"ACK"})

Eof(c) ==
    [Reply(c, {"FIN", "ACK"}) EXCEPT
        !.finSeq = c.seq, !.seq = Add(c.seq, 1),
        !.state = IF c.state = "CloseWait" THEN "LastAck" ELSE "FinWait1"]

\* A data packet of n bytes was read: give it to the client link, or keep it
\* and let the client pull it when there is room.
Deliver(c, n) ==
    LET d == Build(c, n) IN
    IF Fits(d, HeaderLength + n)
    THEN [Push(d, n) EXCEPT !.seq = Add(c.seq, n), !.sent = @ + n]
    ELSE [d EXCEPT !.pending = HeaderLength + n, !.registered = @ + 1]

ProcessReceive(c, o) ==
    LET window == RemainingClientWindow(c)
        d == UpdateHeaders(c, {"ACK", "PSH"}) IN
    IF c.pending # None THEN [c EXCEPT !.panic = "pending packet not sent"]
    ELSE IF window = 0 THEN [c EXCEPT !.panic = "receive with window 0"]
    ELSE CASE o.read = "data"  -> Deliver(d, Min(o.length, Min(window, MaxPayload)))
           [] o.read = "eof"   -> Eof(d)
           [] o.read = "error" -> Close(Reply(d, {"RST"}))
           [] o.read = "block" -> d

\* The branch of process for a readable or writable event: a WouldBlock of
\* either socket call returns before update_interests.
ProcessReady(c, ev, o) ==
    LET d == IF "w" \notin ev THEN c
             ELSE IF c.state = "SynSent" THEN ProcessConnect(c, o)
             ELSE ProcessSend(c, o)
        receives == ~d.closed /\ "r" \in ev
        e == IF receives THEN ProcessReceive(d, o) ELSE d
    IN  IF "w" \in ev /\ c.state # "SynSent" /\ c.size > 0 /\ o.write = "block" THEN c
        ELSE IF e.panic # "none" \/ (receives /\ o.read = "block") THEN e
        ELSE IF e.closed THEN Unroute(e)
        ELSE UpdateInterests(e)

\* Mutant of ProcessHup: leaves the closed flow in the router.
ProcessHupRouted(c) == Close(IF c.state \in Handshake THEN Reply(c, {"RST"}) ELSE c)

ProcessHup(c) ==
    Unroute(Close(IF c.state \in Handshake THEN Reply(c, {"RST"}) ELSE c))

Process(c, ev, o) ==
    IF c.closed THEN c
    ELSE IF ev = {"hup"} THEN ProcessHup(c)
    ELSE ProcessReady(c, ev, o)

-------------------------------------------------------------------------------
(* The flow as a PacketSource, and its expiry. *)

\* Mutant of NextPacket: does not ask to be readable again.
NextPacketSilent(c) == [c EXCEPT !.seq = Add(@, c.pending), !.pending = None]

\* next(): the deferred packet has been given to the client link.
NextPacket(c) == UpdateInterests([c EXCEPT !.seq = Add(@, c.pending), !.pending = None])

\* Client::process_pending for the flow's entry: get() inflates the packet from
\* the packetizer's buffer, as it is now.
ProcessPending(c) ==
    LET payload == c.pending - HeaderLength IN
    IF c.registered = 0 THEN c
    ELSE IF c.pending = None THEN [c EXCEPT !.panic = "pending source with no packet"]
    ELSE IF Fits(c, c.pending)
    THEN NextPacket([Push(c, payload) EXCEPT !.registered = @ - 1, !.sent = @ + payload])
    ELSE c

\* Mutant of Expire: closes a half-open flow without a RST.
ExpireSilent(c) == Unroute(Close(c))

Expire(c) ==
    Unroute(Close(IF ~c.closed /\ c.state \in Handshake THEN Reply(c, {"RST"}) ELSE c))

\* Mutant of IsExpired: times the handshake from the last activity.
IsExpiredFromIdle(c) ==
    IF c.state \in Handshake \cup {"Init"} THEN idle > ConnectTimeout
    ELSE idle > IdleTimeout

\* is_expired: the handshake is timed from created_at, a connected flow from
\* its last activity.
IsExpired(c) ==
    IF c.state \in Handshake \cup {"Init"} THEN age > ConnectTimeout
    ELSE idle > IdleTimeout

-------------------------------------------------------------------------------
(* The environment: what a client may send and how the socket may answer. *)

Flags == {{"SYN"}, {"ACK"}, {"ACK", "FIN"}, {"RST"}}

Packets(c) ==
    [flags : Flags,
     seq : ClientIsns \cup {ExpectedPacket(c), Add(ExpectedPacket(c), -1)},
     ack : {Add(c.seq, -lag) : lag \in AckLags},
     window : Windows,
     length : 0 .. MaxSegment]

\* A packet of a client that keeps to the protocol: it repeats its own SYN, waits
\* for the SYN|ACK to leave the link and answers it with a bare ACK, never takes an
\* acknowledgement back, and sends nothing new after its FIN.
Conforming(c, p) ==
    /\ "SYN" \in p.flags => (c.state = "Init" \/ p.seq = c.synSeq)
    /\ c.state = "SynSent" => p.flags \in {{"SYN"}, {"RST"}}
    /\ c.state = "SynReceived" => (p.length = 0 /\ p.ack = c.seq /\ c.used = 0)
    /\ (c.seq - p.ack) % Modulus <= (c.seq - c.theirAck) % Modulus
    /\ c.finReceived => (p.length = 0 /\ ("FIN" \in p.flags => c.fins = 0))

MayArrive(c, p) ==
    /\ p.length > 0 => ("ACK" \in p.flags /\ c.written + c.size + p.length <= MaxUp)
    /\ "FIN" \in p.flags => c.fins < MaxFins
    /\ "SYN" \in p.flags => p.seq \in ClientIsns
    /\ ClientConforms => Conforming(c, p)

SocketAnswers(c) ==
    {o \in [write : {"ok", "error", "block"}, taken : 1 .. UpCapacity,
            read : {"data", "eof", "error", "block"}, length : 1 .. MaxPayload] :
        /\ ~SpuriousEvents => (o.write # "block" /\ o.read # "block")
        /\ o.read = "data" => c.sent + o.length <= MaxDown}

-------------------------------------------------------------------------------
(* The event loop. *)

Alive == flow.panic = "none"

\* Nothing in the relay refers to the flow any more: the model stops here.
Gone == flow.closed /\ flow.registered = 0 /\ event = {}

Running == Alive /\ ~Gone /\ loop = "run" /\ ~due

Polled == ~flow.closed /\ flow.routed

\* poll() returns: level-triggered readiness of the flow, and of the client.
Poll ==
    /\ Alive /\ ~Gone /\ loop = "poll"
    /\ loop' = "run"
    /\ event' \in IF Polled THEN (SUBSET flow.interests) \cup {{"hup"}} ELSE {{}}
    /\ client' \in IF client = "closed" THEN {"closed"} ELSE {"idle", "ready"}
    /\ UNCHANGED <<flow, due, age, idle>>

\* TunnelServer::clean_up, before the handlers of the batch.
CleanUp ==
    /\ Alive /\ ~Gone /\ loop = "run" /\ due
    /\ due' = FALSE
    /\ flow' = IF flow.routed /\ IsExpired(flow) THEN Expire(flow) ELSE flow
    /\ UNCHANGED <<event, client, loop, age, idle>>

\* TcpConnection::on_ready. Readiness of a flow that closed meanwhile is ignored.
OnReady ==
    /\ Running /\ client # "busy" /\ event # {}
    /\ event' = {}
    /\ \E o \in SocketAnswers(flow) : flow' = Process(flow, event, o)
    /\ idle' = IF flow.closed THEN idle ELSE 0
    /\ UNCHANGED <<client, loop, due, age>>

\* Client::on_ready, first part: when writable, some bytes leave for the device
\* and the pending sources are pulled.
ClientSend ==
    /\ Running /\ client = "ready"
    /\ client' = "busy"
    /\ \/ UNCHANGED flow
       \/ \E w \in 1 .. flow.used :
             flow' = ProcessPending([flow EXCEPT !.used = @ - w])
    /\ UNCHANGED <<event, loop, due, age, idle>>

\* Client::push_to_network: one packet of this flow.
ClientPacket ==
    /\ Running /\ client = "busy"
    /\ flow.routed \/ (flow.state = "Init" /\ ~flow.closed)
    /\ \E p \in Packets(flow), isn \in RelayIsns :
          MayArrive(flow, p) /\ flow' = SendToNetwork(flow, p, isn)
    /\ age' = IF flow.routed THEN age ELSE 0
    /\ idle' = 0
    /\ UNCHANGED <<event, client, loop, due>>

ClientDone ==
    /\ Running /\ client = "busy"
    /\ client' = "idle"
    /\ UNCHANGED <<flow, event, loop, due, age, idle>>

\* Client::close on EOF, an error or a malformed packet: Router::clear.
ClientClose ==
    /\ Running /\ client \in {"ready", "busy"}
    /\ client' = "closed"
    /\ flow' = IF flow.routed THEN Unroute(Close(flow)) ELSE flow
    /\ UNCHANGED <<event, loop, due, age, idle>>

\* Handlers of the client's other flows fill the link they share.
OtherFlows ==
    /\ Running /\ flow.routed
    /\ \E n \in 1 .. LinkCapacity - flow.used : flow' = [flow EXCEPT !.used = @ + n]
    /\ UNCHANGED <<event, client, loop, due, age, idle>>

EndBatch ==
    /\ Running /\ event = {} /\ client \in {"idle", "closed"}
    /\ loop' = "poll"
    /\ UNCHANGED <<flow, event, client, due, age, idle>>

\* Time passes while the loop waits in poll.
Tick ==
    /\ Alive /\ ~Gone /\ loop = "poll"
    /\ due' = TRUE
    /\ age' = Min(age + 1, ConnectTimeout + 1)
    /\ idle' = Min(idle + 1, IdleTimeout + 1)
    /\ UNCHANGED <<flow, event, client, loop>>

Init == /\ flow = NewFlow
        /\ event = {}
        /\ client = "idle"
        /\ loop = "poll"
        /\ due = FALSE
        /\ age = 0
        /\ idle = 0

Next == \/ Poll \/ CleanUp \/ OnReady \/ ClientSend \/ ClientPacket \/ ClientDone
        \/ ClientClose \/ OtherFlows \/ EndBatch \/ Tick

Spec == Init /\ [][Next]_vars

-------------------------------------------------------------------------------
(* Properties. *)

Numbers == 0 .. Modulus - 1

Panics == {"none", "interests of a closed flow", "pending packet not sent",
           "receive with window 0", "pending source with no packet"}

FlagSets == SUBSET {"SYN", "ACK", "FIN", "RST", "PSH"}

FlowType ==
    [state : States, synSeq : Numbers, seq : Numbers, ack : Numbers,
     theirAck : Numbers, finSeq : Numbers \cup {None}, finReceived : BOOLEAN,
     window : Nat, size : 0 .. UpCapacity, pending : Nat \cup {None},
     closed : BOOLEAN, interests : SUBSET {"r", "w"},
     header : [flags : FlagSets, total : Nat],
     registered : Nat, used : 0 .. LinkCapacity, routed : BOOLEAN, deregs : Nat,
     panic : Panics, framed : BOOLEAN, isn : Numbers, written : Nat,
     sent : Nat, fins : Nat, finPos : Numbers \cup {None}]

TypeOK == /\ flow \in FlowType
          /\ event \in (SUBSET {"r", "w"}) \cup {{"hup"}}
          /\ client \in {"idle", "ready", "busy", "closed"}
          /\ loop \in {"poll", "run"}
          /\ due \in BOOLEAN
          /\ age \in 0 .. ConnectTimeout + 1
          /\ idle \in 0 .. IdleTimeout + 1

\* "data will be ACKed once written to the network socket" (handle_ack): the
\* relay's acknowledgement number is always the client's SYN plus exactly the
\* bytes the socket accepted plus the FINs consumed, modulo 2^32, however
\* writes, duplicate SYNs, dropped payloads and the deferred FIN interleave.
AckCountsWrittenBytes ==
    flow.state # "Init" =>
        flow.ack = (flow.synSeq + 1 + flow.written + flow.fins) % Modulus

\* "the connection will be closed by RAII, so switch immediately to LastAck"
\* (do_handle_fin): once the relay has sent its FIN, neither the client's packets,
\* deferred FINs and writes included, nor the reaper nor other flows number another
\* one or move the sequence number, so the ACK that ends the flow stays the one it
\* waits for. Two things do, and are let through here: a readable event of a poll
\* before the FIN, and the pull of a packet that was deferred before it
\* (FinFollowsPayload says what becomes of the stream then).
NothingFollowsFin ==
    [][flow.finSeq # None /\ "r" \notin event /\ flow.pending = None
         => flow'.finSeq = flow.finSeq /\ flow'.seq = flow.seq]_vars

\* The selector always watches for what the flow waits for: after any handler, on
\* any path (spurious WouldBlock and deferred packets included), each readiness
\* that update_interests would ask for is registered. A missing one would stall
\* the flow for ever.
NoLostWakeup == Alive /\ flow.routed => WantedInterests(flow) \subseteq flow.interests

\* A flow is in the client's pending_packet_sources exactly while it holds a
\* deferred packet, and only once; so the assertion of process_receive on a
\* packet already pending and the expect() of process_pending never fire, even
\* for readiness that was polled before the packet was deferred or pulled.
PendingRegisteredOnce ==
    /\ flow.registered = IF flow.pending = None THEN 0 ELSE 1
    /\ flow.panic \notin {"pending packet not sent", "pending source with no packet"}

\* The router forgets a flow in the very handler that closes it, and its token is
\* deregistered once: a second close would remove the token of another flow from
\* the selector's slab (close, Router::remove, clear, clean_expired_connections).
ClosedOnceAndUnrouted ==
    /\ flow.deregs = IF flow.closed THEN 1 ELSE 0
    /\ flow.state # "Init" => (flow.routed <=> ~flow.closed)

\* From c to d a RST was put on the link, or dropped because it did not fit.
Refused(d, c) ==
    /\ d.header.flags = {"RST"}
    /\ Fits(c, HeaderLength) => d.used = c.used + HeaderLength

\* A half-open flow the relay gives up (backend refused, socket error, reaper) puts
\* a RST on the client's link if the link has room for it, so that the client's app
\* fails fast instead of repeating its SYN (comments of process, process_connect,
\* expire). On a full link reply_empty_packet_to_client drops the RST and nothing
\* sends it again. Only the client's own packets and the end of its tunnel close a
\* half-open flow without one.
HalfOpenRefusedIfRoom ==
    [][flow.routed /\ flow.state \in Handshake /\ ~flow'.routed
         /\ client # "busy" /\ client' # "closed"
       => Refused(flow', flow)]_vars

-------------------------------------------------------------------------------
(* What the repository says of the flow and its code does not do. *)

\* While the flow is established, the relay's sequence number counts its SYN and
\* the payload bytes given to the client, whether a packet went straight to the
\* link or was deferred and pulled later (docs/TESTING.md promises downloads that
\* are exact byte by byte).
SeqCountsSentBytes ==
    Alive /\ flow.state = "Established" => flow.seq = (flow.isn + 1 + flow.sent) % Modulus

\* "The client link is a byte stream of IP packets": the total length in each
\* packet's header is the length of the slice written to the link.
PacketsAreFramed == Alive => flow.framed

\* assert!(!self.closed) in update_interests.
NoInterestsOfClosedFlow == flow.panic # "interests of a closed flow"

\* assert!(remaining_client_window > 0) in process_receive: "process_received()
\* must not be called when window == 0".
NoReceiveWithoutWindow == flow.panic # "receive with window 0"

\* A FIN is acknowledged where it lies in the client's stream: right after the
\* payload of the segment that carries it (handle_ack: "data will be ACKed once
\* written to the network socket").
FinAckedInPlace == flow.fins = 1 => flow.ack = Add(flow.finPos, 1)

\* The relay's FIN is numbered right behind its payload and is the last thing it
\* sends: one FIN, nothing after it (eof, do_handle_fin: "FIN counts for 1 byte").
FinFollowsPayload ==
    Alive /\ flow.finSeq # None =>
        /\ flow.finSeq = (flow.isn + 1 + flow.sent) % Modulus
        /\ flow.seq = Add(flow.finSeq, 1)

\* "双向数据完整性" (docs/TESTING.md): both streams of a flow are exact, byte by
\* byte. Downwards every packet is framed and numbered by the payload before it and
\* the FIN comes last, upwards the relay acknowledges the client's FIN behind all
\* of its bytes.
StreamsAreExact ==
    SeqCountsSentBytes /\ PacketsAreFramed /\ FinFollowsPayload /\ FinAckedInPlace

\* "Do not panic: crashing the relay would kill every other active flow"
\* (on_ready): neither assertion that readiness or a pull may reach late fails.
FlowNeverPanics == NoInterestsOfClosedFlow /\ NoReceiveWithoutWindow

-------------------------------------------------------------------------------
(* Liveness: the event loop keeps running and time keeps passing. *)

Fairness == /\ WF_vars(Poll) /\ WF_vars(CleanUp) /\ WF_vars(OnReady)
            /\ WF_vars(ClientSend) /\ WF_vars(ClientDone) /\ WF_vars(EndBatch)
            /\ SF_vars(Tick)

FairSpec == Spec /\ Fairness

\* A handshake is answered, refused or reaped: a client that repeats its SYN for
\* ever (each repeat refreshes idle_since) cannot keep a flow half-open, because
\* is_expired times the handshake from created_at.
HandshakeEnds ==
    flow.state \in Handshake /\ flow.routed ~> flow.state \notin Handshake \/ ~flow.routed \/ ~Alive

\* A flow without traffic is reclaimed: once the idle deadline is over, the reaper
\* closes the flow unless traffic resumes first.
IdleFlowReclaimed ==
    flow.routed /\ idle > IdleTimeout ~> ~flow.routed \/ idle = 0 \/ ~Alive

\* The reaper bounds the life of every flow that nothing keeps busy (is_expired,
\* Router::clean_expired_connections).
FlowsAreReaped == HandshakeEnds /\ IdleFlowReclaimed
===============================================================================
