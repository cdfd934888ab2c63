------------------------------- MODULE PacketLink -------------------------------
(***************************************************************************)
(* One life of the link between the phone and the relay: the worker thread *)
(* of cpp/tunnel.cpp, which copies packets between the TUN device and a    *)
(* TCP socket, and Client of relay/client.rs, which cuts the byte stream   *)
(* back into packets (ip_packet_buffer.rs, ip_packet.rs) and sends the     *)
(* packets of its flows the other way.                                     *)
(*                                                                         *)
(* A byte is the pair of a packet and a position in it, so that a stream   *)
(* that loses, doubles or swaps bytes is told apart from the right one; a  *)
(* parser that does not start on the first byte of a packet reads garbage. *)
(* The two sides share only the two directions of the socket, which grow   *)
(* on one side and shrink on the other. One pass of the worker's loop is   *)
(* therefore one action: what it reads is what its poll saw.               *)
(*                                                                         *)
(* The answers of the flows to the packets of a batch are Produce steps    *)
(* before or after the handler; each ends with the update_interests that   *)
(* the handler repeats.                                                    *)
(***************************************************************************)
EXTENDS Naturals, SequencesExt

CONSTANTS
    Kinds,           \* kinds of packets the device's applications send
    Lengths,         \* lengths of packets
    Modes,           \* Ipv6Mode: "off", "proxy", "blackhole"
    IdLength,        \* bytes of the client id (4 in the code)
    TunHeader,       \* bytes the tunnel needs to know a packet's length (20 or 40)
    RelayHeader,     \* bytes the relay needs (4 or 6)
    ReplyLength,     \* length of an ICMPv6 unreachable
    MaxPacket,       \* MAX_PACKET: longest read of the TUN device and the socket
    MaxQueue,        \* MAX_QUEUE of the tunnel
    MaxIpPacket,     \* MAX_IP_PACKET_LENGTH: size of client_to_network
    RingCapacity,    \* capacity of network_to_client
    SocketCapacity,  \* bytes the kernel holds in each direction
    MaxUp,           \* bound: packets of the device
    MaxDown,         \* bound: packets of the relay's flows
    MaxTraffic       \* bound: packets of both

ASSUME LengthsAssumption ==
    /\ Lengths \subseteq 1 .. MaxPacket
    /\ \A n \in Lengths : n >= TunHeader /\ n >= RelayHeader
    /\ TunHeader \in Nat \ {0} /\ RelayHeader \in Nat \ {0}
    /\ ReplyLength \in 1 .. MaxPacket
ASSUME BuffersAssumption ==
    /\ MaxPacket \in Nat \ {0}
    /\ MaxPacket <= MaxIpPacket /\ MaxPacket <= RingCapacity
    /\ MaxIpPacket \in Nat /\ RingCapacity \in Nat
    /\ MaxQueue \in Nat /\ 2 * MaxPacket <= MaxQueue
    /\ SocketCapacity \in Nat \ {0}
    /\ IdLength \in 1 .. SocketCapacity /\ IdLength <= MaxPacket
ASSUME BoundsAssumption == MaxUp \in Nat /\ MaxDown \in Nat /\ MaxTraffic \in Nat

VARIABLES
    tunnel,    \* the worker of the phone
    up, down,  \* bytes in the socket, phone to relay and relay to phone
    cut,       \* has the cable, and with it the connection, been cut?
    client,    \* the relay's Client
    event,     \* readiness the relay's poll returned for the client
    traffic    \* how many packets the device and the flows have offered

vars == <<tunnel, up, down, cut, client, event, traffic>>

-------------------------------------------------------------------------------
(* Packets and the stream. *)

Packet(kind, length, n) == [kind |-> kind, length |-> length, n |-> n]

Id == Packet("id", IdLength, 0)
Reply(p) == [p EXCEPT !.kind = "reply", !.length = ReplyLength]

Bytes(p) == [i \in 1 .. p.length |-> <<p, i>>]

\* The bytes of a sequence of packets.
Stream(ps) == FlattenSeq([i \in DOMAIN ps |-> Bytes(ps[i])])

Size(ps) == Len(Stream(ps))

Least(m, n) == IF m <= n THEN m ELSE n
Take(s, n) == SubSeq(s, 1, Least(n, Len(s)))
Drop(s, n) == SubSeq(s, n + 1, Len(s))

\* Does a whole packet start behind the first i bytes of s, for a parser that
\* must see header bytes to know the length?
WholeAt(s, i, header) ==
    /\ i + header <= Len(s)
    /\ s[i + 1][2] = 1
    /\ i + s[i + 1][1].length <= Len(s)

\* The whole packets at the front of s.
Frames(s, header) ==
    LET from[i \in 0 .. Len(s)] ==
            IF WholeAt(s, i, header)
            THEN <<s[i + 1][1]>> \o from[i + s[i + 1][1].length]
            ELSE <<>>
    IN  from[0]

\* What is left of s is not the beginning of a packet: neither parser finds a
\* version there.
Misframed(s) == s # <<>> /\ s[1][2] # 1

IsWellFormed(p) == p.kind # "junk"
IsIpv6(p) == p.kind = "v6"

-------------------------------------------------------------------------------
(* tunnel.cpp. One pass of Run: read the TUN device, send, receive and parse, *)
(* write the TUN device, each if the poll at its head asked for it.          *)

Unsent(t) == Drop(t.outbound, t.sendOffset)

\* Mutant of AsksTun: leaves no room for the longest packet.
AsksTunFull(t) == Len(Unsent(t)) < MaxQueue

\* poll's events: room for what a read may add, and something to write.
AsksTun(t) == Len(Unsent(t)) < MaxQueue - MaxPacket
AsksSocket(t) == t.queuedBytes + Len(t.incoming) < MaxQueue - MaxPacket

Refuses(t, p) == IsIpv6(p) /\ t.mode # "proxy"

\* An ICMPv6 error or a multicast packet gets no answer (BuildIcmpv6Unreachable):
\* the tunnel drops it as it drops junk.
Answers(t) == t.mode = "blackhole" /\ t.queuedBytes + MaxPacket < MaxQueue

Enqueue(t, p) == [t EXCEPT !.packets = Append(@, p), !.queuedBytes = @ + p.length]

\* Mutant of TunRead: erases what was sent and keeps sendOffset.
TunReadKeepsOffset(t, p) ==
    IF ~IsWellFormed(p) THEN t
    ELSE IF Refuses(t, p) THEN IF Answers(t) THEN Enqueue(t, Reply(p)) ELSE t
    ELSE [t EXCEPT !.outbound = Unsent(t) \o Bytes(p),
                  !.sent = Append(@, p)]

\* A packet read from the TUN device is dropped, answered or queued for the relay.
TunRead(t, p) ==
    IF ~IsWellFormed(p) THEN t
    ELSE IF Refuses(t, p) THEN IF Answers(t) THEN Enqueue(t, Reply(p)) ELSE t
    ELSE [t EXCEPT !.outbound = Unsent(t) \o Bytes(p), !.sendOffset = 0,
                  !.sent = Append(@, p)]

\* Mutant of Send: forgets the rest of a partial send.
SendClears(t, n) ==
    IF n = 0 THEN t ELSE [t EXCEPT !.outbound = <<>>, !.sendOffset = 0]

\* send() takes n bytes.
Send(t, n) ==
    IF t.sendOffset + n = Len(t.outbound)
    THEN [t EXCEPT !.outbound = <<>>, !.sendOffset = 0]
    ELSE [t EXCEPT !.sendOffset = @ + n]

\* recv() of bytes; every whole packet goes to the queue. Fail(EPROTO) when the
\* rest does not begin with an IP version.
Receive(t, bytes) ==
    LET in == t.incoming \o bytes
        ps == Frames(in, TunHeader)
        rest == Drop(in, Size(ps))
    IN  [t EXCEPT !.incoming = rest, !.packets = @ \o ps,
                  !.queuedBytes = @ + Size(ps),
                  !.error = IF Misframed(rest) THEN "proto" ELSE @]

\* write() of the front packet to the TUN device.
TunWrite(t) ==
    [t EXCEPT !.packets = Tail(@), !.queuedBytes = @ - Head(t.packets).length,
              !.written = Append(@, Head(t.packets))]

\* The end of Run: its buffers go with it, and the ability closes the socket.
Ends(t, code) ==
    [t EXCEPT !.error = code, !.phase = "ended", !.outbound = <<>>, !.sendOffset = 0,
              !.incoming = <<>>, !.packets = <<>>, !.queuedBytes = 0]

-------------------------------------------------------------------------------
(* client.rs. *)

\* ClientChannel::update_interests.
UpdateInterests(c) ==
    [c EXCEPT !.interests = IF c.toClient = <<>> THEN {"r"} ELSE {"r", "w"}]

\* close: the client leaves the selector and the server, and is dropped.
Close(c, why) ==
    [c EXCEPT !.end = why, !.toNetwork = <<>>, !.toClient = <<>>, !.pending = <<>>]

\* Mutant of Fits: compares with the whole ring instead of remaining().
FitsInEmptyRing(c, p) == p.length <= RingCapacity

Fits(c, p) == p.length <= RingCapacity - Len(c.toClient)

\* send_raw_to_client of a packet that fits.
Push(c, p) == UpdateInterests([c EXCEPT !.toClient = @ \o Bytes(p), !.produced = Append(@, p)])

\* Mutant of ProcessPending: does not keep the sources it could not serve.
ProcessPendingForgets(c) ==
    LET served[i \in 0 .. Len(c.pending)] ==
            IF i = 0 THEN [c EXCEPT !.pending = <<>>]
            ELSE IF Fits(served[i - 1], c.pending[i]) THEN Push(served[i - 1], c.pending[i])
            ELSE served[i - 1]
    IN  served[Len(c.pending)]

\* One source of the client: its packet goes to the ring or it stays pending.
Serve(c, p) == IF Fits(c, p) THEN Push(c, p) ELSE [c EXCEPT !.pending = Append(@, p)]

\* process_pending: every source in turn; those that do not fit stay pending.
ProcessPending(c) ==
    LET served[i \in 0 .. Len(c.pending)] ==
            IF i = 0 THEN [c EXCEPT !.pending = <<>>]
            ELSE Serve(served[i - 1], c.pending[i])
    IN  served[Len(c.pending)]

\* process_send: the id first, then n bytes of the ring and the pending sources.
ProcessSend(c, n) ==
    IF c.idBytes > 0 THEN [c EXCEPT !.idBytes = @ - n]
    ELSE ProcessPending([c EXCEPT !.toClient = Drop(@, n)])

\* What process_send may write.
Writable(c) == IF c.idBytes > 0 THEN Drop(Bytes(Id), IdLength - c.idBytes) ELSE c.toClient

\* Mutant of Pushed: takes an unsupported packet for an incomplete one.
PushedStuck(c) ==
    LET ps == Frames(c.toNetwork, RelayHeader)
        bad == {i \in DOMAIN ps : ps[i].kind \in {"bad", "unsupported"}}
    IN  IF bad = {} THEN ps ELSE Take(ps, Min(bad) - 1)

\* The packets push_to_network hands to the router or drops as unsupported; it
\* stops at the first malformed one.
Pushed(c) ==
    LET ps == Frames(c.toNetwork, RelayHeader)
        bad == {i \in DOMAIN ps : ps[i].kind = "bad"}
    IN  IF bad = {} THEN ps ELSE Take(ps, Min(bad) - 1)

\* push_to_network: what is left is incomplete, or it closes the client.
PushToNetwork(c) ==
    LET rest == Drop(c.toNetwork, Size(Pushed(c)))
        d == [c EXCEPT !.toNetwork = rest, !.pushed = @ \o Pushed(c)]
        bad == Frames(rest, RelayHeader) # <<>> /\ rest[1][1].kind = "bad"
    IN  IF Misframed(rest) \/ bad THEN Close(d, "malformed") ELSE d

\* Room of client_to_network: read() is given no longer slice.
Room(c) == MaxIpPacket - Len(c.toNetwork)

\* Mutant of ProcessReceive: waits for more after the end of the stream.
ProcessReceiveWaits(c, bytes) ==
    IF bytes = <<>> THEN c
    ELSE PushToNetwork([c EXCEPT !.toNetwork = @ \o bytes])

\* process_receive of bytes; a read of nothing is the end of the stream.
ProcessReceive(c, bytes) ==
    IF bytes = <<>> THEN Close(c, "eof")
    ELSE PushToNetwork([c EXCEPT !.toNetwork = @ \o bytes])

-------------------------------------------------------------------------------
(* The two sides at work. *)

\* History, read by no step: sent and written (packets that left and reached the
\* device through the tunnel), pushed and produced (packets the relay took out of
\* and put into the stream), accepted (packets it put there or promised to).
Init ==
    /\ tunnel \in [phase : {"connecting"}, mode : Modes, outbound : {<<>>},
                   sendOffset : {0}, incoming : {<<>>}, packets : {<<>>},
                   queuedBytes : {0}, error : {"none"}, sent : {<<>>}, written : {<<>>}]
    /\ up = <<>> /\ down = <<>> /\ cut = FALSE
    /\ client = [idBytes |-> IdLength, toNetwork |-> <<>>, toClient |-> <<>>,
                 pending |-> <<>>, interests |-> {"w"}, end |-> "open",
                 pushed |-> <<>>, produced |-> <<>>, accepted |-> 0]
    /\ event = {}
    /\ traffic = [up |-> 0, down |-> 0]

Ended == tunnel.phase = "ended"
Closed == client.end # "open"

\* Connect: the id, in as many reads as it takes; then the ability starts Run.
Connect ==
    /\ tunnel.phase = "connecting" /\ down # <<>>
    /\ LET bytes == Take(down, IdLength - Len(tunnel.incoming))
           id == tunnel.incoming \o bytes
       IN  /\ tunnel' = IF Len(id) = IdLength
                        THEN [tunnel EXCEPT !.incoming = <<>>, !.phase = "running"]
                        ELSE [tunnel EXCEPT !.incoming = id]
           /\ down' = Drop(down, Len(bytes))
    /\ UNCHANGED <<up, cut, client, event, traffic>>

\* Connect gives up: an error, the end of the stream, or its deadline.
ConnectFails ==
    /\ tunnel.phase = "connecting"
    /\ tunnel' = Ends(tunnel, "io")
    /\ UNCHANGED <<up, down, cut, client, event, traffic>>

\* What an application may send next, or nothing.
Offered ==
    {<<>>} \cup IF traffic.up = MaxUp \/ traffic.up + traffic.down = MaxTraffic THEN {}
                ELSE {<<Packet(k, n, traffic.up + 1)>> : k \in Kinds, n \in Lengths}

\* One pass of Run: ps is what the TUN device offers, n what send() takes, and
\* writable whether the TUN device takes a packet. The events are those of the
\* poll at the head of the pass.
Pass(ps, n, writable) ==
    /\ tunnel.phase = "running" /\ ~cut
    /\ UNCHANGED <<cut, client, event>>
    /\ traffic' = [traffic EXCEPT !.up = @ + Len(ps)]
    /\ ps # <<>> => AsksTun(tunnel)
    /\ \E read \in {IF ps = <<>> THEN tunnel ELSE TunRead(tunnel, ps[1])},
          bytes \in {IF AsksSocket(tunnel) THEN Take(down, MaxPacket) ELSE <<>>} :
         /\ IF Unsent(tunnel) # <<>> /\ Len(up) < SocketCapacity
            THEN n \in 1 .. Least(SocketCapacity - Len(up), Len(Unsent(read)))
            ELSE n = 0
         /\ up' = up \o Take(Unsent(read), n)
         /\ down' = Drop(down, Len(bytes))
         /\ \E received \in {Receive(IF n = 0 THEN read ELSE Send(read, n), bytes)} :
              tunnel' = IF received.error # "none" THEN Ends(received, received.error)
                        ELSE IF writable /\ tunnel.packets # <<>> THEN TunWrite(received)
                        ELSE received

TunnelPass == \E ps \in Offered, n \in 0 .. SocketCapacity, w \in BOOLEAN : Pass(ps, n, w)

\* The loop ends: the relay has closed and nothing is left to read, or the
\* connection is gone and poll reports POLLERR or POLLHUP.
TunnelReset ==
    /\ tunnel.phase = "running"
    /\ cut \/ (Closed /\ AsksSocket(tunnel) /\ down = <<>>)
    /\ tunnel' = Ends(tunnel, "reset")
    /\ UNCHANGED <<up, down, cut, client, event, traffic>>

\* The loop ends on an error of the TUN device or of a socket the relay has reset.
TunnelError ==
    /\ tunnel.phase = "running"
    /\ tunnel' = Ends(tunnel, "io")
    /\ UNCHANGED <<up, down, cut, client, event, traffic>>

\* Stop joins the worker.
Stop ==
    /\ ~Ended
    /\ tunnel' = Ends(tunnel, "none")
    /\ UNCHANGED <<up, down, cut, client, event, traffic>>

Gone == cut \/ Ended

\* The relay's poll, level-triggered.
Poll ==
    /\ ~Closed /\ event = {}
    /\ LET ready == (IF up # <<>> \/ Gone THEN {"r"} ELSE {})
                      \cup (IF Len(down) < SocketCapacity \/ Gone THEN {"w"} ELSE {})
       IN  event' = client.interests \cap ready /\ event' # {}
    /\ UNCHANGED <<tunnel, up, down, cut, client, traffic>>

\* Client::on_ready: send, receive, update_interests. The write takes n bytes;
\* both calls may fail once the other end is gone, and fail when it is cut.
OnReady ==
    /\ event # {} /\ event' = {}
    /\ UNCHANGED <<tunnel, cut, traffic>>
    /\ \E n \in 0 .. SocketCapacity, broken \in BOOLEAN :
         /\ broken => Gone
         /\ cut => broken
         /\ IF "w" \in event /\ ~broken /\ Writable(client) # <<>>
            THEN n \in 1 .. Least(SocketCapacity - Len(down), Len(Writable(client)))
            ELSE n = 0
         /\ \E sending \in {IF "w" \notin event THEN client
                            ELSE IF broken THEN Close(client, "io")
                            ELSE ProcessSend(client, n)} :
            LET reads == "r" \in event /\ sending.end = "open" IN
            \E bytes \in {IF reads /\ ~broken THEN Take(up, Room(sending)) ELSE <<>>} :
            \E received \in {IF ~reads THEN sending
                             ELSE IF broken THEN Close(sending, "io")
                             ELSE ProcessReceive(sending, bytes)} :
              /\ client' = IF received.end = "open" THEN UpdateInterests(received)
                           ELSE received
              /\ up' = Drop(up, Len(bytes))
         /\ down' = down \o Take(Writable(client), n)

\* A flow of the client sends a packet: to the ring if it fits; otherwise a TCP
\* flow registers as a pending source and any other drops the packet.
Produce ==
    /\ ~Closed /\ traffic.down < MaxDown /\ traffic.up + traffic.down < MaxTraffic
    /\ \E i \in DOMAIN client.pushed : client.pushed[i].kind # "unsupported"
    /\ \E length \in Lengths, registers \in BOOLEAN :
         LET p == Packet("flow", length, traffic.down + 1)
             c == [client EXCEPT !.accepted = @ + 1]
         IN  client' = IF Fits(client, p) THEN Push(c, p)
                       ELSE IF registers THEN [c EXCEPT !.pending = Append(@, p)]
                       ELSE client
    /\ traffic' = [traffic EXCEPT !.down = @ + 1]
    /\ UNCHANGED <<tunnel, up, down, cut, event>>

\* The cable is pulled: hdc drops the connection and what is in it.
Cut ==
    /\ ~cut /\ ~(Ended /\ Closed)
    /\ cut' = TRUE /\ up' = <<>> /\ down' = <<>>
    /\ UNCHANGED <<tunnel, client, event, traffic>>

Next == \/ Connect \/ ConnectFails \/ TunnelPass \/ TunnelReset \/ TunnelError
        \/ Stop \/ Poll \/ OnReady \/ Produce \/ Cut

Spec == Init /\ [][Next]_vars

-------------------------------------------------------------------------------
(* Properties. *)

Causes == {"open", "eof", "io", "malformed"}
Errors == {"none", "io", "reset", "proto"}

\* The buffers of the relay and of the kernel keep to their capacities: a push
\* into network_to_client that does not fit would overwrite unread bytes.
TypeOK ==
    /\ tunnel.phase \in {"connecting", "running", "ended"}
    /\ tunnel.mode \in Modes /\ tunnel.error \in Errors
    /\ tunnel.sendOffset \in 0 .. Len(tunnel.outbound)
    /\ Len(up) <= SocketCapacity /\ Len(down) <= SocketCapacity
    /\ client.idBytes \in 0 .. IdLength /\ client.end \in Causes
    /\ client.interests \subseteq {"r", "w"} /\ event \subseteq client.interests
    /\ Len(client.toNetwork) <= MaxIpPacket /\ Len(client.toClient) <= RingCapacity

\* Every byte of every packet the tunnel took is, in order and once, behind the
\* relay's parser, in its buffer, in the socket or still to send, whatever each
\* send() and read() took and however often outbound is compacted (Run, ByteBuffer).
UplinkKeepsTheStream ==
    LET front == Stream(client.pushed) \o client.toNetwork \o up
    IN  IF cut \/ Closed THEN IsPrefix(client.pushed, tunnel.sent)
        ELSE IF Ended THEN IsPrefix(front, Stream(tunnel.sent))
        ELSE Stream(tunnel.sent) = front \o Unsent(tunnel)

\* The packets among ps that came from the relay.
FromRelay(ps) ==
    LET from[i \in 0 .. Len(ps)] ==
            IF i = 0 THEN <<>>
            ELSE IF ps[i].kind = "flow" THEN Append(from[i - 1], ps[i])
            ELSE from[i - 1]
    IN  from[Len(ps)]

\* The same downwards: what the relay accepted, pulled packets included, reaches
\* the TUN device whole and in order, with the tunnel's own replies in between.
DownlinkKeepsTheStream ==
    LET front == Stream(FromRelay(tunnel.written \o tunnel.packets)) \o tunnel.incoming \o down
    IN  IF cut \/ tunnel.phase # "running"
        THEN IsPrefix(FromRelay(tunnel.written), client.produced)
        ELSE IF Closed THEN IsPrefix(front, Stream(client.produced))
        ELSE Stream(client.produced) = front \o client.toClient

\* Both directions of the link: no byte is lost, doubled or moved (Tunnel::Run,
\* Client::process_send and process_receive).
StreamsKept == UplinkKeepsTheStream /\ DownlinkKeepsTheStream

\* Neither parser ever loses the packet boundaries, although each waits for a
\* different number of header bytes: the tunnel never fails with EPROTO and the
\* relay calls a client malformed only for a packet that is.
FramingHolds ==
    /\ tunnel.error # "proto"
    /\ client.end = "malformed" => \E i \in DOMAIN tunnel.sent : tunnel.sent[i].kind = "bad"

\* A read of 0 bytes is taken for the end of the stream, so client_to_network
\* must never be full: dropped and unsupported packets leave it too, and one
\* longest packet always fits.
EofIsReal == client.end = "eof" => Gone

\* The tunnel's memory is bounded although it reads the TUN device before it
\* knows what it can send, and queues replies of its own between two polls.
QueuesBounded ==
    /\ Len(tunnel.outbound) < MaxQueue
    /\ tunnel.queuedBytes = Size(tunnel.packets)
    /\ tunnel.queuedBytes + Len(tunnel.incoming) < MaxQueue + ReplyLength

-------------------------------------------------------------------------------
(* Liveness: the worker and the event loop run, and the TUN device becomes     *)
(* writable again and again. Nothing obliges the device or the flows to send.  *)

FairPass == \E n \in 0 .. SocketCapacity : Pass(<<>>, n, TRUE)

Fairness ==
    /\ WF_vars(Connect) /\ WF_vars(ConnectFails) /\ WF_vars(FairPass)
    /\ WF_vars(TunnelReset) /\ WF_vars(Poll) /\ WF_vars(OnReady)

FairSpec == Spec /\ Fairness

\* Whatever the tunnel took reaches the relay's router unless the link ends: no
\* packet waits in client_to_network for bytes that need not come.
UplinkDelivers == []<>(Len(client.pushed) = Len(tunnel.sent) \/ Ended \/ Closed)

\* The packets the relay accepted or registered, and that are not on the device.
Owed == client.accepted - Len(FromRelay(tunnel.written))

\* Whatever the relay accepted or registered reaches the TUN device unless the
\* link ends: pending sources are not starved and no queue waits for itself.
DownlinkDelivers == []<>(Owed = 0 \/ Ended \/ Closed)

\* Both directions make progress, each whatever the other does.
LinkDelivers == UplinkDelivers /\ DownlinkDelivers

\* The end of one side, or of the cable, ends both: no client and no worker stay
\* behind on a dead link.
EndReachesBoth == (Ended \/ Closed \/ cut) ~> (Ended /\ Closed)

===============================================================================
