---------------------------- MODULE UdpFlowProofs ----------------------------
(***************************************************************************)
(* The life of a UDP flow, the readiness it asks for and what it hands to  *)
(* the socket, for every ring, timeout and payload.  The first three need  *)
(* head and tail alone; for the last two, every step of the flow is seen   *)
(* to be a step of its ring, whose invariant DatagramBufferProofs has.     *)
(***************************************************************************)
EXTENDS UdpFlow, DatagramBufferProofs, TLAPS

\* Whoever closes the flow (its handler on an error or a hang-up, the reaper,
\* the client's end) deregisters it once and takes its route away: the flow is
\* in the router exactly while it is open, so nobody finds it again.
THEOREM CloseDiscipline == FlowSpec => []ClosedOnceAndUnrouted
<1> DEFINE Inv == ClosedOnceAndUnrouted /\ closed \in BOOLEAN /\ routed \in BOOLEAN
<1>1. FlowInit => Inv
  BY DEF FlowInit, ClosedOnceAndUnrouted
<1>2. Inv /\ [FlowNext]_allVars => Inv'
  <2> SUFFICES ASSUME Inv, [FlowNext]_allVars PROVE Inv'
    OBVIOUS
  <2> USE DEF ClosedOnceAndUnrouted
  <2>0. ASSUME ~closed, closed' = TRUE, routed' = FALSE, removals' = removals + 1
        PROVE  Inv'
    <3>1. removals = 0
      BY <2>0
    <3>2. removals' = 1
      BY <2>0, <3>1
    <3> QED
      BY <2>0, <3>2
  <2>1. ASSUME NEW d \in Datagram, SendToNetwork(d) PROVE Inv'
    BY <2>1 DEF SendToNetwork
  <2>2. ASSUME NEW ready \in SUBSET {"r", "w"}, Poll(ready) PROVE Inv'
    BY <2>2 DEF Poll
  <2>3. CASE OnReadyClosed
    BY <2>3 DEF OnReadyClosed
  <2>4. ASSUME NEW sent, NEW received, OnReady(sent, received) PROVE Inv'
    <3>1. CASE Closes
      BY <2>4, <3>1, <2>0 DEF OnReady, Closes
    <3>2. CASE Keeps(received)
      BY <2>4, <3>2 DEF OnReady, Keeps
    <3> QED
      BY <2>4, <3>1, <3>2 DEF OnReady
  <2>5. CASE Tick
    BY <2>5 DEF Tick
  <2>6. CASE Expire
    <3>1. ~closed
      BY <2>6 DEF Expire
    <3> QED
      BY <2>6, <3>1, <2>0 DEF Expire
  <2>7. CASE ClientCloses
    <3>1. ~closed
      BY <2>7 DEF ClientCloses
    <3> QED
      BY <2>7, <3>1, <2>0 DEF ClientCloses
  <2>8. CASE UNCHANGED allVars
    BY <2>8 DEF allVars, flowVars
  <2> QED
    BY <2>1, <2>2, <2>3, <2>4, <2>5, <2>6, <2>7, <2>8 DEF FlowNext, Handles
<1> QED
  BY <1>1, <1>2, PTL DEF FlowSpec

\* No path of any handler loses a wakeup: where the buffer may have become
\* non-empty update_interests is called, and where it is skipped, past a read that
\* blocks, the buffer has not gained a datagram.
THEOREM NoLostWakeup == FlowSpec => []AsksForWhatItNeeds
<1>1. FlowInit => AsksForWhatItNeeds
  BY DEF FlowInit, Init, AsksForWhatItNeeds, Wanted, IsEmpty
<1>2. AsksForWhatItNeeds /\ [FlowNext]_allVars => AsksForWhatItNeeds'
  <2> SUFFICES ASSUME AsksForWhatItNeeds, [FlowNext]_allVars
               PROVE  AsksForWhatItNeeds'
    OBVIOUS
  <2> USE DEF AsksForWhatItNeeds, IsEmpty
  <2>1. ASSUME NEW d \in Datagram, SendToNetwork(d) PROVE AsksForWhatItNeeds'
    <3>1. CASE HasEnoughSpaceFor(d.length)
      BY <2>1, <3>1 DEF SendToNetwork, Wanted
    <3>2. CASE ~HasEnoughSpaceFor(d.length)
      BY <2>1, <3>2 DEF SendToNetwork, ReadFrom, Wanted
    <3> QED
      BY <3>1, <3>2
  <2>2. ASSUME NEW ready \in SUBSET {"r", "w"}, Poll(ready)
        PROVE  AsksForWhatItNeeds'
    BY <2>2 DEF Poll, bufferVars, Wanted
  <2>3. CASE OnReadyClosed
    BY <2>3 DEF OnReadyClosed
  <2>4. ASSUME NEW sent, NEW received, OnReady(sent, received)
        PROVE  AsksForWhatItNeeds'
    <3>1. CASE Closes
      BY <3>1 DEF Closes
    <3>2. CASE Keeps(received) /\ received = "block"
      <4>1. ~closed /\ interests' = interests
        BY <2>4, <3>2 DEF OnReady, Keeps
      <4>2. {"r"} \subseteq interests /\ (~IsEmpty => {"r", "w"} \subseteq interests)
        BY <4>1 DEF Wanted
      <4>3. IsEmpty => UNCHANGED <<head, tail>>
        BY <2>4 DEF OnReady, Sends, bufferVars
      <4> QED
        BY <4>1, <4>2, <4>3 DEF Wanted
    <3>3. CASE Keeps(received) /\ received # "block"
      BY <3>3 DEF Keeps, Wanted
    <3> QED
      BY <2>4, <3>1, <3>2, <3>3 DEF OnReady
  <2>5. CASE Tick
    BY <2>5 DEF Tick, bufferVars, Wanted
  <2>6. CASE Expire
    BY <2>6 DEF Expire
  <2>7. CASE ClientCloses
    BY <2>7 DEF ClientCloses
  <2>8. CASE UNCHANGED allVars
    BY <2>8 DEF allVars, flowVars, bufferVars, Wanted
  <2> QED
    BY <2>1, <2>2, <2>3, <2>4, <2>5, <2>6, <2>7, <2>8 DEF FlowNext, Handles
<1> QED
  BY <1>1, <1>2, PTL DEF FlowSpec

\* A writable event with nothing to write, which brings the relay down, has one
\* origin: a handler that sent and then blocked in its read. Every other step that
\* empties the buffer, or makes it read as empty, takes the interest back.
THEOREM OneWayToAskNeedlessly == FlowSpec => NeedlessOnlyPastBlockedRead
<1>1. [FlowNext]_allVars =>
        [AsksNeedlessly' /\ ~AsksNeedlessly => {"r", "w"} \subseteq event]_allVars
  <2> SUFFICES ASSUME FlowNext, AsksNeedlessly', ~AsksNeedlessly
               PROVE  {"r", "w"} \subseteq event
    OBVIOUS
  <2> USE DEF AsksNeedlessly, IsEmpty
  <2>1. ASSUME NEW d \in Datagram, SendToNetwork(d) PROVE FALSE
    <3>1. CASE HasEnoughSpaceFor(d.length)
      BY <2>1, <3>1 DEF SendToNetwork, Wanted
    <3>2. CASE ~HasEnoughSpaceFor(d.length)
      BY <2>1, <3>2 DEF SendToNetwork, ReadFrom
    <3> QED
      BY <3>1, <3>2
  <2>2. ASSUME NEW ready \in SUBSET {"r", "w"}, Poll(ready) PROVE FALSE
    BY <2>2 DEF Poll, bufferVars
  <2>3. CASE OnReadyClosed
    BY <2>3 DEF OnReadyClosed
  <2>4. ASSUME NEW sent, NEW received, OnReady(sent, received)
        PROVE  {"r", "w"} \subseteq event
    <3>1. ~closed /\ Keeps(received)
      BY <2>4 DEF OnReady, Closes
    <3>2. received = "block"
      BY <3>1 DEF Keeps, Wanted
    <3>3. "r" \in event
      BY <2>4, <3>2 DEF OnReady, Receives
    <3>4. ~IsEmpty
      BY <3>1, <3>2 DEF Keeps
    <3>5. "w" \in event
      BY <2>4, <3>4 DEF OnReady, Sends, bufferVars
    <3> QED
      BY <3>3, <3>5
  <2>5. CASE Tick
    BY <2>5 DEF Tick, bufferVars
  <2>6. CASE Expire
    BY <2>6 DEF Expire
  <2>7. CASE ClientCloses
    BY <2>7 DEF ClientCloses
  <2> QED
    BY <2>1, <2>2, <2>3, <2>4, <2>5, <2>6, <2>7 DEF FlowNext, Handles
<1> QED
  BY <1>1, PTL DEF FlowSpec, NeedlessOnlyPastBlockedRead

\* Handlers, timers and closes touch the ring through read_from and write_to only.
LEMMA FlowStepIsRingStep ==
    ASSUME [FlowNext]_allVars
    PROVE  [Next]_vars
<1>1. ASSUME NEW d \in Datagram, SendToNetwork(d) PROVE Next
  BY <1>1 DEF SendToNetwork, Next
<1>2. ASSUME NEW ready \in SUBSET {"r", "w"}, Poll(ready) PROVE UNCHANGED vars
  BY <1>2 DEF Poll, bufferVars, vars
<1>3. CASE OnReadyClosed
  BY <1>3 DEF OnReadyClosed, bufferVars, vars
<1>4. ASSUME NEW sent, NEW received, OnReady(sent, received) PROVE Next \/ UNCHANGED vars
  BY <1>4 DEF OnReady, Sends, Next, bufferVars, vars
<1>5. CASE Tick
  BY <1>5 DEF Tick, bufferVars, vars
<1>6. CASE Expire
  BY <1>6 DEF Expire, bufferVars, vars
<1>7. CASE ClientCloses
  BY <1>7 DEF ClientCloses, bufferVars, vars
<1>8. CASE UNCHANGED allVars
  BY <1>8 DEF allVars, bufferVars, vars
<1> QED
  BY <1>1, <1>2, <1>3, <1>4, <1>5, <1>6, <1>7, <1>8 DEF FlowNext, Handles

\* The queue of the flow is laid out in every reachable state.
LEMMA FlowRing == FlowSpec => []RingInv
<1>1. FlowInit => RingInv
  BY InitRing DEF FlowInit
<1>2. RingInv /\ [FlowNext]_allVars => RingInv'
  BY FlowStepIsRingStep, RingStep
<1> QED
  BY <1>1, <1>2, PTL DEF FlowSpec

\* Whatever the socket answers, in whatever order datagrams come, are sent, lost
\* or refused: the flow hands the socket whole datagrams of the client only, and
\* no slice of the ring is out of range.
THEOREM FlowKeepsDatagramsWhole == FlowSpec => []DatagramsAreWhole
BY FlowRing, RingIsWhole, PTL

\* Type correctness of the flow with its ring; the idle time passes its limit by at
\* most one tick.
THEOREM FlowTypeCorrect == FlowSpec => []FlowTypeOK
<1> DEFINE FlowType ==
      /\ closed \in BOOLEAN /\ routed \in BOOLEAN /\ panicked \in BOOLEAN
      /\ interests \subseteq {"r", "w"}
      /\ event = NoEvent \/ event \subseteq {"r", "w"}
      /\ idle \in 0 .. IdleTimeout + 1
      /\ removals \in Nat
<1>1. FlowInit => FlowType
  <2>1. 0 \in 0 .. IdleTimeout + 1 /\ 0 \in Nat
    BY UdpAssumption
  <2> QED
    BY <2>1, Zenon DEF FlowInit
<1>2. FlowType /\ [FlowNext]_allVars => FlowType'
  <2> SUFFICES ASSUME FlowType, [FlowNext]_allVars PROVE FlowType'
    OBVIOUS
  <2>1. ASSUME NEW d \in Datagram, SendToNetwork(d) PROVE FlowType'
    BY <2>1 DEF SendToNetwork, Wanted
  <2>2. ASSUME NEW ready \in SUBSET {"r", "w"}, Poll(ready) PROVE FlowType'
    BY <2>2 DEF Poll
  <2>3. CASE OnReadyClosed
    BY <2>3 DEF OnReadyClosed
  <2>4. ASSUME NEW sent, NEW received, OnReady(sent, received) PROVE FlowType'
    <3>1. event' = NoEvent /\ idle' \in 0 .. IdleTimeout + 1 /\ panicked' \in BOOLEAN
      <4>1. 0 \in 0 .. IdleTimeout + 1
        BY UdpAssumption
      <4> QED
        BY <2>4, <4>1, Zenon DEF OnReady
    <3>2. CASE Closes
      <4>1. removals' \in Nat
        BY <3>2 DEF Closes
      <4> QED
        BY <3>1, <3>2, <4>1, Zenon DEF Closes
    <3>3. CASE Keeps(received)
      BY <3>1, <3>3 DEF Keeps, Wanted
    <3> QED
      BY <2>4, <3>2, <3>3 DEF OnReady
  <2>5. CASE Tick
    <3>1. idle' \in 0 .. IdleTimeout + 1
      BY <2>5, UdpAssumption DEF Tick
    <3> QED
      BY <2>5, <3>1 DEF Tick
  <2>6. CASE Expire
    <3>1. removals' \in Nat
      BY <2>6 DEF Expire
    <3> QED
      BY <2>6, <3>1, Zenon DEF Expire
  <2>7. CASE ClientCloses
    <3>1. removals' \in Nat
      BY <2>7 DEF ClientCloses
    <3> QED
      BY <2>7, <3>1, Zenon DEF ClientCloses
  <2>8. CASE UNCHANGED allVars
    BY <2>8 DEF allVars, flowVars
  <2> QED
    BY <2>1, <2>2, <2>3, <2>4, <2>5, <2>6, <2>7, <2>8 DEF FlowNext, Handles
<1>3. RingInv /\ FlowType => FlowTypeOK
  BY DEF RingInv, FlowTypeOK
<1> HIDE DEF FlowType
<1> QED
  BY <1>1, <1>2, <1>3, FlowRing, PTL DEF FlowSpec
=============================================================================
