# TLA+ models of HarmonyOS-Reverse-Tether

A phone without a network sends its IP packets through a VPN interface to a relay
on a computer; the relay turns them into ordinary TCP and UDP sockets and forges
the packets that go back. This directory holds TLA+ models of that program, the
TLC runs that check them on small instances, and proofs checked by TLAPS.

## The system

| component | source | state | operations |
|---|---|---|---|
| TCP flow | `relay/src/relay/tcp_connection.rs`, `packetizer.rs` | control block (numbers, window, state), `client_to_network` ring, one deferred packet, interests, closed | packet from the client, readiness of the socket, pull of the deferred packet, expiry, close |
| byte ring | `stream_buffer.rs` | buffer, head, tail | `read_from`, `write_to` |
| datagram ring | `datagram_buffer.rs` | buffer, head, tail | `read_from`, `write_to` |
| client link | `client.rs` | `network_to_client` ring, packet being reassembled, pending sources, bytes of the id still to send | writable, readable, close |
| router | `router.rs` | map from connection id to flow | send to network, remove, clear, expire |
| event loop | `relay.rs`, `selector.rs`, `tunnel_server.rs` | slab of handlers, tokens to remove, deadlines, clients | poll, clean up, run handlers, accept |
| UDP flow | `udp_connection.rs` | datagram ring, interests, idle time, closed | datagram from the client, readiness, expiry, close |
| IPv6 flows | `ipv6_connection.rs` | socket, token, idle time, closed | payload straight to the socket, readability, expiry, close |
| link framing | `ip_packet_buffer.rs`, `ip_packet.rs`, `byte_buffer.rs` | bytes of an incomplete packet | append, take a packet |
| native tunnel | `app/.../cpp/tunnel.cpp`, `napi_init.cpp` | worker thread, stop flag, buffers both ways | connect, start, stop, status |
| VPN ability | `app/.../vpn/TetherVpnAbility.ets` | generation, stopped, sockets | create, establish (across awaits), tick, destroy |
| supervisor | `scripts/harmony-tether.py` | relay process, `owned_rule`, `requested`, `online`, `stop` | poll the device, create and remove the rule, ask the phone to start and stop |
| headers, DNS, UI, probe, build scripts | | | not modelled, see PROJECT.json |

**How they interact.** The relay is one thread. A batch is: `poll`, the reaper if
its deadline is over, then the handlers of the events `poll` returned, then the
removal of the tokens deregistered meanwhile. A flow is reached from four sides:
its own socket (`on_ready`), the client's packets (`send_to_network` through the
router), the client link when it has room again (`PacketSource::next`), and the
reaper. A flow writes its packets straight into the client's ring; a data packet
that does not fit is *deferred*: it stays in the flow's packetizer and the flow is
queued in `pending_packet_sources`. An empty packet that does not fit is dropped.

The phone's worker copies packets between the TUN device and one TCP connection
to the relay, through a port that the supervisor forwards with `hdc`; the link is a
bare byte stream of IP packets after four bytes of id. The supervisor starts the
relay, keeps the rule, asks the phone for its VPN, and undoes all of it at the end.

**What is hard.** Readiness is read at `poll` and used after other handlers of the
batch have changed the flow, closed it, or created another. The packetizer's single
buffer holds the deferred packet and every forged reply. A `WouldBlock` leaves a
handler in the middle. Four parties may close a flow. Slab tokens are reused.
Numbers wrap at 2^32. Sends and reads of the link are partial on both sides, and
both sides must cut the stream at the same places. Handshakes, idle flows, queued
clients and deferred packets depend on something happening later. On the computer
every `hdc` command may fail, time out after its effect, or meet a pulled cable.

**What makes the parts correct.** *TCP flow*: it acknowledges what the network took
and nothing else; its numbers count its bytes; it waits for everything it needs; a
deferred packet leaves once and whole; no assertion fails, since a panic ends every
flow. *UDP flow*: it waits for writability while it holds a datagram, and no longer.
*Rings*: FIFO, whole datagrams, no loss while queued. *Router and selector*: an event reaches
the handler it was polled for, a closed flow is unreachable, its token is freed once.
*Link*: every packet that was taken arrives whole, once and in order, and the end of
one side ends the other. *App and supervisor*: after a stop, nothing it created is
left but what a failed command leaves, and nothing of anybody else is touched.

## Modules

| module | models |
|---|---|
| `TcpConnection` | one TCP flow with its driver: client handler, router entry, reaper, event loop |
| `UdpFlow` | one UDP flow; extends `DatagramBuffer`, its queue |
| `RelayLoop` | event loop, selector, tunnel server, routers; the life of clients and of flows of all kinds, IPv6 included |
| `PacketLink` | the connection between phone and relay: the tunnel's copy loop composed with the relay's client and its framing |
| `Supervisor` | `harmony-tether.py run` between `hdc`, the relay's process and the phone |
| `TetherVpn` | the VPN ability across its awaits, its successor, the native session guard and the life of the tunnel's worker |
| `StreamBuffer`, `ByteFifo` | the byte ring, and the bounded FIFO it implements |
| `DatagramBuffer`, `DatagramFifo` | the datagram ring, and the FIFO of datagrams it should implement |
| `TcpConnectionProofs`, `UdpFlowProofs`, `RelayLoopProofs`, `PacketLinkProofs`, `SupervisorProofs`, `TetherVpnProofs`, `StreamBufferProofs`, `DatagramBufferProofs` | TLAPS proofs about these eight |

A definition named after another with a suffix, under a comment "Mutant of", is a
plausible bug in that definition; no specification uses it. PROJECT.json pairs it
with the property that notices it.

### TcpConnection

`flow` is a record: the fields of `TcpConnection` and `Tcb` under short names
(`seq`, `ack`, `theirAck`, `window`, `finSeq`, `synSeq`, `size` of
`client_to_network`, `pending` for `packet_for_client_length`, `interests`), its
place elsewhere (`routed`, `registered` in the pending sources, `deregs` in
`tokens_to_remove`, `used` bytes of the client's ring), the packetizer's `header`,
and history fields no handler reads. Payload bytes are counted, not stored: the
order of bytes is the business of `StreamBuffer`.

Each Rust method is an operator from records to records under its own name
(`HandlePacket`, `DoHandleFin`, `ProcessSend`, `Eof`, `UpdateInterests`, ...) and
each handler is one action that applies the composition the code runs, trailing
`update_interests` and removal from the router included. `?` and early returns are
branches. A failed assertion sets `panic`; nothing happens after it.

| action | code |
|---|---|
| `Poll`, `Tick`, `EndBatch` | `poll_loop`, `run_handlers` |
| `CleanUp` | `TunnelServer::clean_up` down to `Router::clean_expired_connections` and `expire` |
| `OnReady` | `TcpConnection::on_ready`, with every answer the socket can give |
| `ClientSend` | `Client::process_send` and `process_pending` |
| `ClientPacket` | `push_one_packet_to_network` to `send_to_network`; creates the flow |
| `ClientDone`, `ClientClose` | the end of the client's handler, or of the client |
| `OtherFlows` | other flows of the client fill the ring they share |

The handlers of a batch interleave freely, except that a client's handler, once
started (`busy`), runs to its end. `SpuriousEvents` says whether a socket may answer
`WouldBlock` after readiness. `ClientConforms` says whether the device keeps to TCP
(`Conforming`); the run `tcp` does not assume it, the runs that show a
disagreement do, so that their traces are ordinary traffic. The life of the record
ends with the flow: after `Gone` a new flow with the same id is a new record.
`CloseWait` exists in the code and is never assigned.

### UdpFlow

The ring's variables are those of `DatagramBuffer`, whose `ReadFrom` and `WriteTo`
are the queueing and the sending of the flow. `OnReady(sent, received)` is one run
of the handler with the answers of the two socket calls; which of them are asked
follows from the polled `event`, a set of readinesses, empty for an error or a
hang-up. The datagram leaves the ring before `send()` is called, so a `WouldBlock`
loses it, and a `WouldBlock` of the read leaves the handler before
`update_interests`. Neither costs a wakeup (`AsksForWhatItNeeds`), but the second may
leave the flow asking to write with nothing to write, the only way it comes to that
(`NeedlessOnlyPastBlockedRead`), and `udp_panic` shows where it leads. Datagrams
towards the client are forged and pushed or dropped; they change nothing.

### RelayLoop

Here a flow is an object that is created, registered, routed and closed; what it
does with bytes is left to the modules above. `events` is the rest of the batch,
with the handler each event was polled for as history. A client's handler creates
flows, may find them closed after a packet, and may close the client; a flow's
handler may close the flow; between `poll` and the batch the reaper closes any set
of routed flows (`CleanUp`). `Register` takes a vacant token, `Deregister` leaves the
slab entry until `EndBatch`. The listener's accepts are single steps, so that clients
arrive between them, and it is watched by edges. Errors of `accept` and of
`Client::create` leave the loop and may leave clients queued until the next edge:
`stalled` remembers which. Tokens are finite to bound the runs; the code's slab grows.

### PacketLink

A byte is the pair of a packet and a position in it. Lost, doubled or swapped bytes
are therefore visible, and a parser that does not stand at the first byte of a packet
reads garbage, as the code would. A packet's kind is what the code's checks make of
it: `junk` is dropped by the tunnel, `v6` is refused outside proxy mode, `unsupported`
is dropped and `bad` closes the client in the relay. One pass of `Tunnel::Run` is one
action, with the events of the poll at its head, since it shares nothing with the
relay but the socket. The relay's side is split as the code is, into `Poll` and
`OnReady`. `Produce` stands for a flow of the client that sends a packet or registers
as pending source. One life of a connection is modelled; the next one starts anew.

### Supervisor

Every `hdc` command is a step of `main()`, and cables, signals, the relay's exit and
other users of `hdc` act between them. A command fails when the phone is away, or for
no visible reason (`faults`, bounded); one that fails may have had its effect. The
history variable `failed` keeps the failures after which something may stay on the
phone. `README.md:57` promises that the end removes the rule this instance made; the
code does not keep that without conditions, and `OnlyFailedCommandsLeave` says which
there are: the rule stays only if creating it, listing the rules afterwards or removing
it failed, the request to the phone only if asking it to start or to stop failed. Of a
failed creation or removal the script cannot know the effect. The listing is different:
`rport` has succeeded, but `reverse()` raises before `owned_rule` is set
(`harmony-tether.py:57`), the next turn finds the rule and takes it for somebody
else's, and it is left behind without a word. Nobody else creates exactly this
instance's rule while it runs, and a phone that restarts is away for longer than one
turn of the loop.

### The rings

`StreamBuffer` stores bytes. `read_from` and `write_to` with its trailing
`optimize` are actions; the mapping `Contents` reads the ring from tail to head and
`ImplementsFifo` is the abstract specification. `DatagramBuffer` stores block
headers and payload in the cells of the buffer, extra space included; a datagram is
a run of one value, so a slice that mixes two datagrams is recognised. `owed` is
history: the datagrams accepted and not handed over yet.

### TetherVpn

ArkTS runs on one thread, so the code between two awaits is one action; an await
inside `cleanup()` with no interface to destroy continues at once. A call that waits
for the system is a *task*: `establish()` waiting for `protect`, `connect` or
`create`, or `cleanup()` waiting for `destroy`, with what its caller does next.
`app[i]` holds the fields of ability `i`; `os` what outlives it: the descriptor
table (numbers are reused, smallest first), `currentSession`, the tunnel's worker
and the state in the status file. Abilities of a process follow one another, and
tasks of an earlier one may still be waiting when the next one runs. `Kill` ends the
process: the file survives. Retry delays, statistics and messages are left out; a
failed write of the status file, which the code logs and ignores, as well.

| action | code |
|---|---|
| `OnCreate`, `OnDestroy` | the callbacks, up to their first wait |
| `Tick`, `Retry` | the two timers |
| `Resume` | the system's answer to a waiting call, success or error, and the code up to the next wait |
| `WorkerFails` | `Tunnel::Run` leaves its loop by itself |
| `Kill` | the system ends the process |

## Runs

| run | result | shows |
|---|---|---|
| `tcp` | passes | the invariants proved below, with any client and spurious readiness; half-open flows end and idle ones are reclaimed (`FlowsAreReaped`), a half-open flow given up gets a RST if the link has room, the FIN stays the last thing numbered |
| `udp_flow` | passes | whole datagrams, no slice outside the buffer, no lost wakeup and one way only to ask needlessly, queued datagrams are sent, idle flows are reclaimed |
| `relay_loop` | passes | no panic of the loop; events, tokens, routes and the accept queue stay consistent; clients are served and released, flows are released |
| `packet_link` | passes | both streams (`StreamsKept`) and both parsers keep the packets; bounded queues; delivery both ways; the end of one side, or of the cable, ends both |
| `supervisor` | passes | no relay left behind, a rule or request only by the failures named, no foreign rule touched; a stop ends it, a phone is served again |
| `tether_vpn` | passes | no late tunnel, no leaked or stolen descriptor, one attempt at a time, no tunnel stopped by an earlier ability, stop saved; a broken tunnel is attempted again |
| `stream_buffer` | passes | the ring is a bounded FIFO |
| `datagram_fifo` | violated | a full ring can look empty: with tail at 0, head wraps onto it and all queued datagrams are gone |
| `tcp_streams` | violated | `StreamsAreExact`: a write that completes a deferred FIN is followed, in the same call, by a read whose data leaves behind the FIN |
| `tcp_panic` | violated | `FlowNeverPanics`: stale readability with a window closed meanwhile fails an assertion |
| `udp_panic` | violated | a spurious read after the last datagram leaves the flow waiting to write nothing; the next event panics |
| `relay_leak` | violated | an IPv6 flow whose write fails keeps its slab entry and its socket |

Each violated run checks one statement of the repository (a comment, an assertion,
a test document); PROJECT.json quotes it and describes the trace. `StreamsAreExact`
and `FlowNeverPanics` are conjunctions of named definitions (`SeqCountsSentBytes`,
`PacketsAreFramed`, `FinFollowsPayload`, `FinAckedInPlace`; `NoReceiveWithoutWindow`,
`NoInterestsOfClosedFlow`). TLC stops at the shortest violation; each of the six is
violated when it is checked alone with the same constants. `udp_panic` has a second
cause, without a blocked read: a ring that fills up between `poll` and the handler and
then looks empty leads to the same panic.

Properties that belong together are checked as one conjunction of named parts
(`FlowsAreReaped`, `DatagramsAreWhole`, `ClosedIsDropped`, `StreamsKept`,
`LinkDelivers`, `StopIsFinal`). The runs `tcp`, `relay_loop`
and `supervisor` leave out the type invariant, which is a theorem.

**Bounds.** *tcp*: sequence numbers are modulo 16 and start just below, so that every
number wraps within a flow; the counters checked against them are not wrapped.
`UpCapacity` 2 and `MaxUp` let the upload ring take partial writes and overflow;
`LinkCapacity` with headers of 1 byte makes the link refuse an empty packet, a data
packet, or neither; windows 0 and 3 reach an open, a closed and a partly used window;
two ticks exceed the timeouts. The proofs need none of these bounds. *rings*:
capacity 4 sees every position of head and tail and every chunk; datagram blocks of 2
to 4 cells end before, at and after the circular length. *relay_loop*: two clients
and two flows over a TCP id and an IPv6 id let a flow succeed another under the same
id and take over a freed token. UDP flows have no id here: they differ
from TCP flows only in that a packet never closes them, which the TCP id allows too.
*packet_link*: packets of 2 and 3 bytes, a socket of 2, a ring of one packet and a
queue of two: sends, reads and parses are split at every byte, and every queue fills.
*supervisor*: two faults and two pulled cables, so that one falls into the recovery
from another. *tether_vpn*: two abilities for a late task to meet the successor's
tunnel, three attempts for a retry after a retry.

`CHECK_DEADLOCK FALSE` is used where lives end: a flow, a link, a supervisor, an
ability. The event loop and the byte ring never stop and are checked for deadlock.

**Fairness.** The loop of `poll_loop` never blocks for longer than its deadline and
runs every handler of a batch: weak fairness of its steps. In `TcpConnection` time
passes: `Tick` is enabled again and again, hence strong fairness. `UdpFlow` assumes
that a socket asked for writability is found writable again and again. `PacketLink`
assumes that the worker and the event loop run, that `Connect` has its deadline of
five seconds, and that the TUN device takes packets. `Supervisor` assumes only that
every command returns, which the timeout of `Hdc.run` gives. `TetherVpn` assumes that
timers fire and that the system answers each call. Nothing is assumed of the device's
applications, of the network, of the tunnel or of the user: they may stay silent.

## Proofs

### The TCP flow

`TcpConnectionProofs` proves for every modulus, capacity, timeout and set of
windows, for any client and any socket, `Spec => []P` for `TypeOK` and the
invariants of the run `tcp`, and `Spec => A` for its two action properties:

* `TypeOK`;
* `AckCountsWrittenBytes`: the acknowledgement number is the client's SYN plus the
  bytes the socket took plus the FINs consumed, modulo 2^32;
* `NoLostWakeup`: a routed flow is registered for all it waits for;
* `PendingRegisteredOnce`: one pending entry per deferred packet, and the two
  assertions about deferred packets never fail;
* `ClosedOnceAndUnrouted`: one deregistration, and a closed flow is not routed;
* `NothingFollowsFin`: once the relay's FIN is out, nothing numbers another one or
  moves the sequence number, but a read polled before the FIN and the pull of a packet
  deferred before it. Both exceptions are real (run `tcp_streams`);
* `HalfOpenRefusedIfRoom`: a step that takes a half-open flow out of the router puts a
  RST on the client link if it has room, unless it is the client's own packet or its
  tunnel's end. On a full link the RST is dropped and nobody repeats it; the app is
  not told, and its next SYN opens a new flow.

The assumptions are those of `TcpConnection` on its constants: a positive modulus
and header length, natural capacities and timeouts, initial numbers below the
modulus.

**The argument.** None of the invariants is inductive alone. `IndInv` has three
parts. `Settled(flow)` holds between handlers: `Core` (types, the exact
acknowledgement, the FIN's number, nothing written before the connection, one entry
per deferred packet and at least a header in it, one deregistration if closed), the
router holds the flow exactly while it is open, the interests cover what is wanted,
and an open flow with a deferred packet is not watched for reading. `EventIsFresh`
ties readiness polled earlier to the flow now: `"r"` is never pending for an open
flow that holds a deferred packet. It holds because only `OnReady`, which consumes
the event, defers a packet, and `poll` reports only registered interests. That is
why the assertion "a packet is already pending" is safe although the one on the
window is not. The third part types the loop.

`Core` holds of every intermediate record of a handler. So there is one lemma per
operator, saying that it keeps `Core` and what else it leaves alone, and a handler's
lemma follows the code's composition. `update_interests` and the removal from the
router turn `Core` into `Settled`; on the `WouldBlock` paths, which skip them,
`WantsNoMore` shows that a step wants no readiness the flow did not want before. The
arithmetic is one lemma: adding to a wrapped number wraps once (`ModAdd`).

A half-open flow could still leave silently, through two exits that no assertion
guards: `process_send` closes a flow whose buffer is empty without a RST, and
`process_receive` may meet an end or an error of the stream. `HalfOpenQuiet` is the
invariant that rules both out: during a handshake nothing asked of the selector, and
nothing polled and not yet handled, is "readable", and after the backend connected it
is "writable" only for a flow that has bytes to write. The second half is the delicate
one, as the client's packets arrive between poll and use: `Steady` says that no packet
of the client begins or advances a handshake or takes a byte out of the buffer, and a
flow that has not seen its SYN has no readiness pending (`EventIsFresh`). What is left
are the refusals, which forge the RST, push it if it fits, and then close. TLC checked
`HalfOpenQuiet` on the constants of `tcp` before it was proved.

For `NothingFollowsFin` the invariant gives that a flow whose FIN is numbered is in
one of the four states after it (`FinKnown` in `Core`). One lemma per operator
(`KeepsFin`) shows that what numbers a FIN or sends data there is out of reach:
`do_handle_fin` answers with a FIN in `Established` only, the handshake is over, and
without a deferred packet there is nothing to pull.

### The event loop

`RelayLoopProofs` proves `TypeOK`, `NoPanic`, `EventFindsItsHandler`,
`OpenMeansRouted`, `OnlyIpv6Leaks` and `AcceptQueueWatched` for any sets of clients,
flows, ids and tokens; the assumptions say that these sets do not overlap. None is
inductive alone. The invariant says in addition that whoever is registered sits in
the slab under its own token and nobody shares one, that the tokens to remove belong
to closed handlers only, that the events of the batch name handlers still in the
slab, and that a running handler is the one its event was polled for. The heart of
it is that `Deregister` only marks: a token whose event is still in the batch is never
vacant, so `Register` cannot hand it to a newcomer. The same facts exclude all
three panics.

### The supervisor

`SupervisorProofs` proves `TypeOK`, `NoRelayLeftBehind`, `OnlyFailedCommandsLeave` and
`ForeignRulesKept` for any number of faults and pulled cables. The strengthening says
what the finally block knows at each point: a rule made by this instance is owned,
about to be verified, or hidden by a creation or a listing that failed; a request the
phone has taken is recorded or hidden by a failed start; and `owned` is never set while
the rule is somebody else's.

### The byte ring

`StreamBufferProofs` proves that `StreamBuffer` implements `ByteFifo`
(`Spec => ImplementsFifo`) for every capacity and set of bytes, and that an empty ring
is at cell 0. `TypeOK` is the only invariant needed. `Held` says what the contents are:
`Size` bytes, the i-th of them in `Cell(tail, i)`. Each action then has one lemma on how
head, tail and `Size` move and one on where the bytes are found afterwards; the
modulo is used for sums below twice the length, where it wraps once (`WrapOnce`).

### The datagram ring and the UDP flow

`DatagramBufferProofs` proves `TypeOK` and `DatagramsAreWhole` for every capacity and
set of lengths. `write_to` trusts the length it finds at tail, so even the type of tail
rests on the layout of all queued blocks. `Layout` says where they are: the k-th
datagram owed is stored at `p[k]`, the next one starts where `Wrap` puts the end of its
block, and the last one ends at head. Its last conjunct says that each block lies
between every tail that is still to come and head; stated for the present tail only it
would not survive `write_to`. The ring does not implement its FIFO (run
`datagram_fifo`), and two theorems say how far it fails: a ring that owes datagrams
looks empty only when head and tail are both at cell 0, and every step taken in any
other state is a step of the FIFO.

A step of the flow is a step of the ring or leaves the ring alone. `UdpFlowProofs`
therefore takes over the ring's invariant and proves `DatagramsAreWhole` and
`FlowTypeOK` of the flow; further `ClosedOnceAndUnrouted`, `AsksForWhatItNeeds` and
`NeedlessOnlyPastBlockedRead`, the last from the step alone. None of them assumes that
a socket reported readable has something to read.

### The VPN ability

`TetherVpnProofs` proves `TypeOK` and the five other invariants of the run `tether_vpn`
(`StopIsFinal`, `DescriptorsOwned`, `OneAttempt`, `ConnectedHasWorker`, `StopIsSaved`)
for any number of abilities, attempts and descriptors.

**The argument.** A handler is a composition of operators on worlds: one ability, the
shared state, the tasks. `Ownership` (the descriptors an ability remembers are exactly
those open for it) and `Standing` (how life, stop and session go together; an ability
that is alive and has a session has the current one) hold of every intermediate world.
`Control` holds between handlers: it says who has the turn. A suspended task of a
running ability, its retry timer and its worker exclude each other; a stopped ability
has neither timer nor tunnel, and a socket only while one of its tasks will close it.
This is what fencing by `generation` achieves, and the invariants above follow from it.
`Others` says what the handlers of one ability leave alone, so that the parts of all
other abilities carry over in one lemma. The worker may be taken from another ability
only under the current session, which a predecessor does not have: that is why a late
cleanup is harmless.

### The packet link

`PacketLinkProofs` proves `TypeOK`, `StreamsKept`, `FramingHolds`, `EofIsReal` and
`QueuesBounded` for every capacity of the socket and the buffers, every set of lengths
and kinds of packets, and every header length the two parsers wait for.

**Words.** The invariants speak of concatenations of buffers. The proof reasons about
them by a few laws (`CatAssociative`, `Overlap`, `Cancel`, `CutFacts`) under the names
`Word` and `Cat`, which keep the provers from unfolding sequences. What `Stream`,
`Frames`, `FromRelay` and `ProcessPending` compute is proved by induction; since the
library's induction theorems take an operator as parameter, `Induction` is stated for a
set of naturals and rests on their well-ordering. A recursive function is a `CHOOSE`:
each time, one lemma shows that a solution exists and another that every solution has
the value wanted.

**Parsing.** `FramesOfStream`: of the front of a stream of packets, `Frames` takes the
whole packets, and what is left is `Partial`, shorter than the next packet. It needs
that no packet is shorter than the header a parser waits for (`LengthsAssumption`).

**The invariant.** `Uplink`: the packets the tunnel took are those the router got,
followed by some `later` ones, and the bytes in the relay's buffer, the socket and the
tunnel's `outbound` behind its cursor are the stream of `later`. `Downlink` says the same
the other way round, with the id in front until `Connect` has read it, and leaves out of
the queue what the tunnel made itself. Neither is inductive alone. `Handshake` says where
the bytes of the id are, and that the tunnel runs only when the relay owes none, else a
byte of the id would be parsed as a packet. `Readiness` says what an event that was
polled earlier still means in the handler, for `EofIsReal`. `Emptied` covers what has
ended. `Partial` after each parse gives the room that keeps `client_to_network` from
being full. The invariant quantifies over all streams, so TLC checks its consequences,
the properties of the run, and not `IInv` itself. `IdLength <= MaxPacket` is assumed
besides what the model needs: the id has 4 bytes, an IP packet 20 or more.

**Only model-checked.** The liveness properties, `EndReachesBoth` and `LinkDelivers`
among them: fairness and ENABLED are outside the prover. Every invariant and every
action property of a passing run is stated by a theorem.

## Not modelled

Header parsing and checksums (pure functions over bytes with unit tests of their
own), the forging of IPv6 packets, the DNS rewrite, logging, the user interface, the
network probe, build scripts. The device's TCP stack is external: any packet in
`Packets`, restricted by `Conforming` on demand; its retransmissions, and so what a
dropped SYN|ACK means to it, are not modelled. `PacketLink` takes one pass of the
worker as atomic and a socket reported writable to take at least one byte.
A first write that takes less than the four bytes of the id is modelled, and both
streams are kept over it, but no property covers the stall that follows
(`client.rs:312`): the relay never sends the rest, and only the deadline of `Connect`,
which is assumed, ends the wait. `Supervisor` leaves out the lock file, the one-shot
commands, and its own end by SIGKILL, after which nothing it did is undone.
The composition of `RelayLoop`,
`TcpConnection` and `UdpFlow` into one state space is out of TLC's reach; they meet in
what each assumes of the others: a handler runs on readiness polled earlier, others
may have closed its flow meanwhile, and the reaper, the client's end and the router
act between handlers.
