------------------------- MODULE TcpConnectionProofs --------------------------
(***************************************************************************)
(* Proofs about TcpConnection for every value of its constants: the        *)
(* invariants of the run tcp hold in every reachable state, and its action *)
(* properties of every step.                                               *)
(*                                                                         *)
(* The handlers are compositions of operators on flow records, so the      *)
(* proof has one lemma per operator. Core is what every intermediate       *)
(* record of a handler satisfies; Settled is what holds between handlers.  *)
(***************************************************************************)
EXTENDS TcpConnection, TLAPS

-------------------------------------------------------------------------------
(* Arithmetic modulo 2^32, for any modulus. *)

\* Division with remainder.
LEMMA DivisionFacts ==
    ASSUME NEW x \in Nat, NEW m \in Nat \ {0}
    PROVE  /\ x = m * (x \div m) + (x % m)
           /\ x % m \in 0 .. m - 1
           /\ x \div m \in Nat
BY SMT

\* The remainder is unique.
LEMMA RemainderUnique ==
    ASSUME NEW m \in Nat \ {0}, NEW q1 \in Int, NEW q2 \in Int,
           NEW r1 \in 0 .. m - 1, NEW r2 \in 0 .. m - 1,
           m * q1 + r1 = m * q2 + r2
    PROVE  r1 = r2
BY SMT

\* Adding to a wrapped number is adding to the number and wrapping once: what
\* Wrapping<u32> gives the code.
LEMMA ModAdd ==
    ASSUME NEW x \in Nat, NEW n \in Nat, NEW m \in Nat \ {0}
    PROVE  ((x % m) + n) % m = (x + n) % m
<1> DEFINE r == x % m
           s == (r + n) % m
           t == (x + n) % m
           a == x \div m
           b == (r + n) \div m
           d == (x + n) \div m
<1>1. x = m * a + r /\ r \in 0 .. m - 1 /\ a \in Nat
  BY DivisionFacts
<1>2. r + n \in Nat /\ x + n \in Nat
  BY <1>1
<1>3. r + n = m * b + s /\ s \in 0 .. m - 1 /\ b \in Nat
  BY <1>2, DivisionFacts
<1>4. x + n = m * d + t /\ t \in 0 .. m - 1 /\ d \in Nat
  BY <1>2, DivisionFacts
<1> HIDE DEF r, s, t, a, b, d
<1> DEFINE q == a + b
<1>5. m * q + s = m * d + t /\ q \in Int /\ d \in Int
  BY <1>1, <1>3, <1>4
<1> HIDE DEF q
<1>6. s = t
  BY <1>3, <1>4, <1>5, RemainderUnique
<1> QED BY <1>6 DEF r, s, t

\* Add stays within the sequence numbers.
LEMMA AddType ==
    ASSUME NEW a \in Int, NEW n \in Int
    PROVE  Add(a, n) \in Numbers
BY ModulusAssumption DEF Add, Numbers

-------------------------------------------------------------------------------
(* What holds of every record inside a handler. *)

AckExact(c) ==
    c.state # "Init" => c.ack = (c.synSeq + 1 + c.written + c.fins) % Modulus

FinKnown(c) == c.finSeq # None <=> c.state \in FinSent

\* Nothing was written before the backend connected; no FIN was counted and no
\* packet deferred before the client's SYN.
EarlyClean(c) == /\ c.state \in {"Init", "SynSent"} => c.written = 0
                 /\ c.state = "Init" => (c.fins = 0 /\ c.pending = None)
                 /\ c.state # "CloseWait"

RegisteredOnce(c) == /\ c.registered = IF c.pending = None THEN 0 ELSE 1
                     /\ c.pending # None => HeaderLength <= c.pending

DeregisteredOnce(c) == c.deregs = IF c.closed THEN 1 ELSE 0

Core(c) == /\ c \in FlowType
           /\ AckExact(c)
           /\ FinKnown(c)
           /\ EarlyClean(c)
           /\ RegisteredOnce(c)
           /\ DeregisteredOnce(c)

\* The types of the fields of a flow.
LEMMA FieldTypes ==
    ASSUME NEW c \in FlowType
    PROVE  /\ c.state \in States /\ c.synSeq \in Numbers /\ c.seq \in Numbers
           /\ c.ack \in Numbers /\ c.theirAck \in Numbers
           /\ c.finSeq \in Numbers \cup {None} /\ c.finReceived \in BOOLEAN
           /\ c.window \in Nat /\ c.size \in 0 .. UpCapacity
           /\ c.pending \in Nat \cup {None} /\ c.closed \in BOOLEAN
           /\ c.interests \in SUBSET {"r", "w"}
           /\ c.registered \in Nat /\ c.used \in 0 .. LinkCapacity
           /\ c.routed \in BOOLEAN /\ c.deregs \in Nat /\ c.panic \in Panics
           /\ c.framed \in BOOLEAN
           /\ c.isn \in Numbers /\ c.written \in Nat /\ c.sent \in Nat
           /\ c.fins \in Nat /\ c.header.total \in Nat
BY ZenonT(60) DEF FlowType

\* Sequence numbers are integers.
LEMMA NumbersAreNat ==
    ASSUME NEW n \in Numbers
    PROVE  n \in Nat
BY ModulusAssumption DEF Numbers

\* d differs from c at most in what a packet to the client changes.
SameButLink(d, c) ==
    /\ d.state = c.state /\ d.synSeq = c.synSeq /\ d.seq = c.seq /\ d.ack = c.ack
    /\ d.theirAck = c.theirAck /\ d.finSeq = c.finSeq /\ d.window = c.window
    /\ d.finReceived = c.finReceived
    /\ d.size = c.size /\ d.pending = c.pending /\ d.closed = c.closed
    /\ d.interests = c.interests /\ d.registered = c.registered
    /\ d.routed = c.routed /\ d.deregs = c.deregs /\ d.panic = c.panic
    /\ d.written = c.written /\ d.fins = c.fins /\ d.sent = c.sent

\* Core does not depend on the link.
LEMMA CoreOfSame ==
    ASSUME NEW c, NEW d \in FlowType, Core(c), SameButLink(d, c)
    PROVE  Core(d)
BY DEF Core, SameButLink, AckExact, FinKnown, EarlyClean, RegisteredOnce, DeregisteredOnce

\* Rewriting the packetizer's header changes nothing else.
LEMMA HeadersSame ==
    ASSUME NEW c \in FlowType, NEW flags \in FlagSets, NEW n \in Nat
    PROVE  /\ UpdateHeaders(c, flags) \in FlowType
           /\ SameButLink(UpdateHeaders(c, flags), c)
           /\ UpdateHeaders(c, flags).used = c.used
           /\ Build(c, n) \in FlowType
           /\ SameButLink(Build(c, n), c)
           /\ Build(c, n).used = c.used
<1>1. HeaderLength + n \in Nat
  BY LengthAssumption
<1> QED BY <1>1, ZenonT(60) DEF UpdateHeaders, Build, FlowType, SameButLink

\* A packet that fits keeps the link within its capacity.
LEMMA PushSame ==
    ASSUME NEW c \in FlowType, NEW n \in Nat, Fits(c, HeaderLength + n)
    PROVE  /\ Push(c, n) \in FlowType
           /\ SameButLink(Push(c, n), c)
<1>1. c.used + HeaderLength + n \in 0 .. LinkCapacity
  BY LengthAssumption, FieldTypes DEF Fits
<1>2. (c.framed /\ c.header.total = HeaderLength + n) \in BOOLEAN
  OBVIOUS
<1> QED BY <1>1, <1>2, ZenonT(60) DEF Push, FlowType, SameButLink

\* An empty packet to the client touches the link only.
LEMMA ReplySame ==
    ASSUME NEW c \in FlowType, NEW flags \in FlagSets
    PROVE  /\ Reply(c, flags) \in FlowType
           /\ SameButLink(Reply(c, flags), c)
<1> DEFINE e == UpdateHeaders(c, flags)
           d == Build(e, 0)
<1>1. e \in FlowType /\ SameButLink(e, c)
  BY HeadersSame
<1>2. d \in FlowType /\ SameButLink(d, e)
  BY <1>1, HeadersSame
<1>3. SameButLink(d, c)
  BY <1>1, <1>2 DEF SameButLink
<1>4. Fits(d, HeaderLength) => Push(d, 0) \in FlowType /\ SameButLink(Push(d, 0), d)
  BY <1>2, PushSame, LengthAssumption
<1>5. Reply(c, flags) = IF Fits(d, HeaderLength) THEN Push(d, 0) ELSE d
  BY DEF Reply
<1> HIDE DEF d, e
<1> QED BY <1>2, <1>3, <1>4, <1>5 DEF SameButLink

-------------------------------------------------------------------------------
(* One lemma per operator: what it keeps of Core and what it leaves alone. *)

\* Closing an open flow deregisters it once.
LEMMA CloseCore ==
    ASSUME NEW c, Core(c), c.closed = FALSE
    PROVE  /\ Core(Close(c))
           /\ Close(c).closed = TRUE
           /\ Close(c).routed = c.routed
           /\ Close(c).panic = c.panic
           /\ Close(c).state = c.state
           /\ Close(c).pending = c.pending
<1> DEFINE d == Close(c)
<1>1. c \in FlowType /\ c.deregs = 0
  BY DEF Core, DeregisteredOnce
<1>2. c.deregs + 1 \in Nat
  BY <1>1
<1>3. /\ d \in FlowType /\ d.closed = TRUE /\ d.deregs = c.deregs + 1
      /\ d.state = c.state /\ d.ack = c.ack /\ d.synSeq = c.synSeq
      /\ d.written = c.written /\ d.fins = c.fins /\ d.finSeq = c.finSeq
      /\ d.pending = c.pending /\ d.registered = c.registered
      /\ d.routed = c.routed /\ d.panic = c.panic
  BY <1>1, <1>2, ZenonT(60) DEF Close, FlowType
<1> HIDE DEF d
<1>4. Core(d)
  BY <1>1, <1>3 DEF Core, AckExact, FinKnown, EarlyClean, RegisteredOnce, DeregisteredOnce
<1> QED BY <1>3, <1>4 DEF d

\* Counting one more FIN in the acknowledgement number.
LEMMA CountFin ==
    ASSUME NEW c, Core(c)
    PROVE  LET d == [c EXCEPT !.ack = Add(@, 1), !.fins = @ + 1] IN
           /\ c.state # "Init" => Core(d)
           /\ d \in FlowType
           /\ d.state = c.state /\ d.seq = c.seq /\ d.closed = c.closed
           /\ d.routed = c.routed /\ d.panic = c.panic /\ d.pending = c.pending
           /\ d.registered = c.registered /\ d.size = c.size
           /\ d.interests = c.interests
<1> DEFINE d == [c EXCEPT !.ack = Add(@, 1), !.fins = @ + 1]
<1>1. c \in FlowType
  BY DEF Core
<1>2. /\ c.ack \in Nat /\ c.fins \in Nat /\ c.written \in Nat /\ c.synSeq \in Nat
  BY <1>1, FieldTypes, NumbersAreNat
<1>3. Add(c.ack, 1) \in Numbers /\ c.fins + 1 \in Nat
  BY <1>2, AddType
<1>4. /\ d \in FlowType /\ d.ack = Add(c.ack, 1) /\ d.fins = c.fins + 1
      /\ d.closed = c.closed /\ d.deregs = c.deregs /\ d.state = c.state
      /\ d.synSeq = c.synSeq /\ d.written = c.written /\ d.finSeq = c.finSeq
      /\ d.pending = c.pending /\ d.registered = c.registered /\ d.seq = c.seq
      /\ d.routed = c.routed /\ d.panic = c.panic /\ d.size = c.size
      /\ d.interests = c.interests
  BY <1>1, <1>3, ZenonT(60) DEF FlowType
<1> HIDE DEF d
<1>5. ASSUME c.state # "Init"
      PROVE  d.ack = (d.synSeq + 1 + d.written + d.fins) % Modulus
  <2> DEFINE x == c.synSeq + 1 + c.written + c.fins
  <2>1. x \in Nat /\ c.ack = x % Modulus
    BY <1>2, <1>5 DEF Core, AckExact
  <2>2. Add(c.ack, 1) = (x + 1) % Modulus
    BY <2>1, ModAdd, ModulusAssumption DEF Add
  <2>3. d.synSeq + 1 + d.written + d.fins = x + 1
    BY <1>2, <1>4
  <2> QED BY <1>4, <2>2, <2>3
<1>6. c.state # "Init" => Core(d)
  BY <1>4, <1>5 DEF Core, AckExact, FinKnown, EarlyClean, RegisteredOnce, DeregisteredOnce
<1> QED BY <1>4, <1>6 DEF d

\* d agrees with c on everything outside the protocol control block.
SameShell(d, c) == /\ d.routed = c.routed /\ d.panic = c.panic
                   /\ d.pending = c.pending /\ d.interests = c.interests

\* The relay's FIN: its number is remembered when the state says it was sent.
LEMMA SendFinCore ==
    ASSUME NEW c, Core(c), NEW s \in {"LastAck", "FinWait1"}, c.state # "Init"
    PROVE  LET d == [Reply(c, {"FIN", "ACK"}) EXCEPT !.finSeq = c.seq,
                                                     !.seq = Add(c.seq, 1), !.state = s] IN
           /\ Core(d) /\ d.state = s /\ d.closed = c.closed /\ d.size = c.size
           /\ SameShell(d, c)
<1> DEFINE r == Reply(c, {"FIN", "ACK"})
           d == [r EXCEPT !.finSeq = c.seq, !.seq = Add(c.seq, 1), !.state = s]
<1>1. c \in FlowType /\ c.seq \in Numbers /\ c.seq \in Nat
  BY FieldTypes, NumbersAreNat DEF Core
<1>2. r \in FlowType /\ SameButLink(r, c)
  BY <1>1, ReplySame DEF FlagSets
<1>3. Core(r)
  BY <1>2, CoreOfSame
<1>4. Add(c.seq, 1) \in Numbers /\ s \in States /\ s \in FinSent /\ c.seq # None
  BY <1>1, AddType DEF States, FinSent, None
<1> HIDE DEF r
<1>5. /\ d \in FlowType /\ d.finSeq = c.seq /\ d.state = s
      /\ d.closed = r.closed /\ d.deregs = r.deregs /\ d.ack = r.ack
      /\ d.synSeq = r.synSeq /\ d.written = r.written /\ d.fins = r.fins
      /\ d.pending = r.pending /\ d.registered = r.registered /\ d.size = r.size
      /\ d.routed = r.routed /\ d.panic = r.panic /\ d.interests = r.interests
  BY <1>1, <1>2, <1>4, ZenonT(60) DEF FlowType
<1> HIDE DEF d
<1>6. Core(d)
  BY <1>2, <1>3, <1>4, <1>5
  DEF Core, SameButLink, AckExact, FinKnown, EarlyClean, RegisteredOnce, DeregisteredOnce
<1>7. d.closed = c.closed /\ d.size = c.size /\ SameShell(d, c)
  BY <1>2, <1>5 DEF SameButLink, SameShell
<1> QED BY <1>5, <1>6, <1>7 DEF d, r

\* A change of state within the states that know the relay's FIN, or within those
\* that do not, keeps Core.
LEMMA StateCore ==
    ASSUME NEW c, Core(c), c.state # "Init", NEW s \in States \ {"Init", "SynSent", "CloseWait"},
           s \in FinSent <=> c.state \in FinSent
    PROVE  LET d == [c EXCEPT !.state = s] IN
           /\ Core(d) /\ d.state = s /\ d.closed = c.closed /\ d.size = c.size
           /\ d.seq = c.seq /\ SameShell(d, c) /\ d.finSeq = c.finSeq
<1> DEFINE d == [c EXCEPT !.state = s]
<1>1. c \in FlowType
  BY DEF Core
<1>2. /\ d \in FlowType /\ d.finSeq = c.finSeq /\ d.state = s
      /\ d.closed = c.closed /\ d.deregs = c.deregs /\ d.ack = c.ack
      /\ d.synSeq = c.synSeq /\ d.written = c.written /\ d.fins = c.fins
      /\ d.pending = c.pending /\ d.registered = c.registered /\ d.size = c.size
      /\ d.routed = c.routed /\ d.panic = c.panic /\ d.interests = c.interests
      /\ d.seq = c.seq
  BY <1>1, ZenonT(60) DEF FlowType
<1> HIDE DEF d
<1>3. Core(d)
  BY <1>2 DEF Core, AckExact, FinKnown, EarlyClean, RegisteredOnce, DeregisteredOnce
<1> QED BY <1>2, <1>3 DEF d, SameShell

\* An empty packet to the client keeps Core.
LEMMA ReplyCore ==
    ASSUME NEW c, Core(c), NEW flags \in FlagSets
    PROVE  LET d == Reply(c, flags) IN
           /\ Core(d) /\ SameButLink(d, c) /\ SameShell(d, c)
BY ReplySame, CoreOfSame DEF Core, SameButLink, SameShell

\* do_handle_fin on an open flow: it closes only a flow in FinWait2.
LEMMA DoHandleFinCore ==
    ASSUME NEW c, Core(c), c.closed = FALSE, c.state # "Init"
    PROVE  LET d == DoHandleFin(c) IN
           /\ Core(d) /\ SameShell(d, c) /\ d.size = c.size
           /\ d.state # "Init" /\ d.state # "Established"
           /\ c.state # "SynSent" => d.state # "SynSent"
           /\ d.closed = TRUE => d.state = "FinWait2"
<1> DEFINE e == [c EXCEPT !.ack = Add(@, 1), !.fins = @ + 1]
<1>1. /\ Core(e) /\ e.state = c.state /\ e.seq = c.seq /\ e.closed = c.closed
      /\ SameShell(e, c) /\ e.size = c.size
  BY CountFin DEF SameShell
<1>2. DoHandleFin(c) =
        CASE e.state = "Established" ->
               [Reply(e, {"FIN", "ACK"}) EXCEPT !.finSeq = e.seq, !.seq = Add(e.seq, 1),
                                                !.state = "LastAck"]
          [] e.state = "FinWait1" -> [Reply(e, {"ACK"}) EXCEPT !.state = "Closing"]
          [] e.state = "FinWait2" -> Close(Reply(e, {"ACK"}))
          [] OTHER -> e
  BY DEF DoHandleFin
<1> HIDE DEF e
<1> DEFINE r == Reply(e, {"ACK"})
<1>3. Core(r) /\ SameButLink(r, e) /\ SameShell(r, e)
  BY <1>1, ReplyCore DEF FlagSets
<1>4. CASE e.state = "Established"
  <2> DEFINE d == [Reply(e, {"FIN", "ACK"}) EXCEPT !.finSeq = e.seq,
                                         !.seq = Add(e.seq, 1), !.state = "LastAck"]
  <2>1. /\ Core(d) /\ d.state = "LastAck" /\ d.closed = e.closed /\ d.size = e.size
        /\ SameShell(d, e)
    BY <1>1, SendFinCore
  <2>2. DoHandleFin(c) = d
    BY <1>2, <1>4
  <2> HIDE DEF d
  <2> QED BY <1>1, <2>1, <2>2 DEF SameShell
<1>5. CASE e.state = "FinWait1"
  <2> DEFINE d == [r EXCEPT !.state = "Closing"]
  <2>1. r.state = "FinWait1" /\ "Closing" \in States \ {"Init", "SynSent", "CloseWait"}
    BY <1>3, <1>5 DEF SameButLink, States, FinSent
  <2>2. /\ Core(d) /\ d.state = "Closing" /\ d.closed = r.closed /\ d.size = r.size
        /\ SameShell(d, r)
    BY <1>3, <2>1, StateCore DEF FinSent
  <2>3. DoHandleFin(c) = d
    BY <1>2, <1>5
  <2> HIDE DEF d, r
  <2> QED BY <1>1, <1>3, <2>2, <2>3 DEF SameShell, SameButLink
<1>6. CASE e.state = "FinWait2"
  <2>1. DoHandleFin(c) = Close(r)
    BY <1>2, <1>6
  <2>2. r.closed = FALSE /\ r.state = "FinWait2" /\ r.size = c.size
    BY <1>1, <1>3, <1>6 DEF SameButLink
  <2>3. Close(r).size = r.size /\ Close(r).interests = r.interests
    BY <1>3, ZenonT(60) DEF Core, Close, FlowType
  <2>4. /\ Core(Close(r)) /\ Close(r).state = r.state /\ Close(r).routed = r.routed
        /\ Close(r).panic = r.panic /\ Close(r).pending = r.pending
    BY <1>3, <2>2, CloseCore
  <2> HIDE DEF r
  <2> QED BY <1>1, <1>3, <2>1, <2>2, <2>3, <2>4 DEF SameShell
<1>7. CASE e.state \notin {"Established", "FinWait1", "FinWait2"}
  <2>1. DoHandleFin(c) = e
    BY <1>2, <1>7
  <2> QED BY <1>1, <1>7, <2>1
<1> QED BY <1>4, <1>5, <1>6, <1>7

\* handle_fin on an open flow.
LEMMA HandleFinCore ==
    ASSUME NEW c, Core(c), c.closed = FALSE, c.state # "Init",
           NEW p, p.seq \in Numbers, p.length \in Nat
    PROVE  LET d == HandleFin(c, p) IN
           /\ Core(d) /\ SameShell(d, c) /\ d.state # "Init"
           /\ d.closed = TRUE => d.state = "FinWait2"
<1> DEFINE e == [c EXCEPT !.finReceived = TRUE, !.finPos = Add(p.seq, p.length)]
<1>0. p.seq \in Int /\ p.length \in Int
  BY NumbersAreNat
<1>1. c \in FlowType /\ Add(p.seq, p.length) \in Numbers
  BY <1>0, AddType DEF Core
<1>2. /\ e \in FlowType /\ SameShell(e, c) /\ e.size = c.size /\ e.closed = c.closed
      /\ e.state = c.state /\ e.finSeq = c.finSeq /\ e.deregs = c.deregs
      /\ e.ack = c.ack /\ e.synSeq = c.synSeq /\ e.written = c.written
      /\ e.fins = c.fins /\ e.registered = c.registered
  BY <1>1, ZenonT(60) DEF FlowType, SameShell
<1>3. HandleFin(c, p) = IF e.size = 0 THEN DoHandleFin(e) ELSE e
  BY DEF HandleFin
<1> HIDE DEF e
<1>4. Core(e)
  BY <1>2 DEF Core, SameShell, AckExact, FinKnown, EarlyClean, RegisteredOnce, DeregisteredOnce
<1>5. CASE e.size = 0
  <2>1. HandleFin(c, p) = DoHandleFin(e)
    BY <1>3, <1>5
  <2>2. e.closed = FALSE /\ e.state # "Init"
    BY <1>2
  <2>3. /\ Core(DoHandleFin(e)) /\ SameShell(DoHandleFin(e), e)
        /\ DoHandleFin(e).state # "Init"
        /\ DoHandleFin(e).closed = TRUE => DoHandleFin(e).state = "FinWait2"
    BY <1>4, <2>2, DoHandleFinCore
  <2>4. SameShell(DoHandleFin(e), c)
    BY <1>2, <2>3 DEF SameShell
  <2> QED BY <2>1, <2>3, <2>4
<1>6. CASE e.size # 0
  <2>1. HandleFin(c, p) = e
    BY <1>3, <1>6
  <2> QED BY <1>2, <1>4, <2>1
<1> QED BY <1>5, <1>6

\* handle_fin_ack: a flow that handle_fin just closed is in FinWait2 and is left
\* alone, so it is not closed twice.
LEMMA HandleFinAckCore ==
    ASSUME NEW c, Core(c), c.state # "Init", c.closed = TRUE => c.state = "FinWait2"
    PROVE  LET d == HandleFinAck(c) IN
           /\ Core(d) /\ d.state # "Init"
           /\ d.panic = c.panic /\ d.routed = c.routed /\ d.pending = c.pending
<1>1. c.closed \in BOOLEAN
  BY FieldTypes DEF Core
<1>2. CASE c.state \in {"LastAck", "Closing"}
  <2>1. HandleFinAck(c) = Close(c) /\ c.closed = FALSE
    BY <1>1, <1>2 DEF HandleFinAck
  <2> QED BY <2>1, CloseCore
<1>3. CASE c.state = "FinWait1"
  <2>1. HandleFinAck(c) = [c EXCEPT !.state = "FinWait2"]
    BY <1>3 DEF HandleFinAck
  <2>2. "FinWait2" \in States \ {"Init", "SynSent", "CloseWait"}
    BY DEF States, FinSent
  <2> QED BY <1>3, <2>1, <2>2, StateCore DEF FinSent, SameShell
<1>4. CASE c.state \notin {"LastAck", "Closing", "FinWait1"}
  BY <1>4 DEF HandleFinAck
<1> QED BY <1>2, <1>3, <1>4

\* handle_ack: a payload is stored only when it fits.
LEMMA HandleAckCore ==
    ASSUME NEW c, Core(c), c.state # "Init", NEW p, p.length \in Nat
    PROVE  LET d == HandleAck(c, p) IN
           /\ Core(d) /\ SameShell(d, c) /\ d.state # "Init" /\ d.closed = c.closed
<1>1. c \in FlowType
  BY DEF Core
<1>2. CASE c.state = "SynReceived"
  <2>1. HandleAck(c, p) = [c EXCEPT !.state = "Established"]
    BY <1>2 DEF HandleAck
  <2>2. /\ "Established" \in States \ {"Init", "SynSent", "CloseWait"}
        /\ "Established" \notin FinSent
    BY DEF States, FinSent
  <2> QED BY <1>2, <2>1, <2>2, StateCore DEF FinSent
<1>3. CASE c.state # "SynReceived" /\ UpCapacity - c.size < p.length
  BY <1>3 DEF HandleAck, SameShell
<1>4. CASE c.state # "SynReceived" /\ ~(UpCapacity - c.size < p.length)
  <2> DEFINE d == [c EXCEPT !.size = @ + p.length]
  <2>1. HandleAck(c, p) = d
    BY <1>4 DEF HandleAck
  <2>2. c.size + p.length \in 0 .. UpCapacity
    BY <1>1, <1>4, FieldTypes, LengthAssumption
  <2>3. /\ d \in FlowType /\ SameShell(d, c) /\ d.closed = c.closed
        /\ d.state = c.state /\ d.finSeq = c.finSeq /\ d.deregs = c.deregs
        /\ d.ack = c.ack /\ d.synSeq = c.synSeq /\ d.written = c.written
        /\ d.fins = c.fins /\ d.registered = c.registered
    BY <1>1, <2>2, ZenonT(60) DEF FlowType, SameShell
  <2> HIDE DEF d
  <2>4. Core(d)
    BY <2>3 DEF Core, SameShell, AckExact, FinKnown, EarlyClean, RegisteredOnce,
                DeregisteredOnce
  <2> QED BY <2>1, <2>3, <2>4
<1> QED BY <1>2, <1>3, <1>4

\* What a client may put in a packet.
Segment == [flags : Flags, seq : Numbers, ack : Numbers, window : Nat, length : Nat]

\* handle_packet once the sequence number is the expected one.
LEMMA HandleExpectedPacketCore ==
    ASSUME NEW c, Core(c), c.closed = FALSE, c.state # "Init", NEW p \in Segment
    PROVE  LET d == HandleExpectedPacket(c, p) IN
           /\ Core(d) /\ d.state # "Init"
           /\ d.panic = c.panic /\ d.routed = c.routed /\ d.pending = c.pending
<1> DEFINE d == [c EXCEPT !.window = p.window, !.theirAck = p.ack]
           e == IF "ACK" \in p.flags THEN HandleAck(d, p) ELSE d
           f == IF "FIN" \in p.flags THEN HandleFin(e, p) ELSE e
<1>1. c \in FlowType /\ p.window \in Nat /\ p.ack \in Numbers /\ p.seq \in Numbers
      /\ p.length \in Nat
  BY DEF Core, Segment
<1>2. /\ d \in FlowType /\ SameShell(d, c) /\ d.closed = c.closed
      /\ d.state = c.state /\ d.finSeq = c.finSeq /\ d.deregs = c.deregs
      /\ d.ack = c.ack /\ d.synSeq = c.synSeq /\ d.written = c.written
      /\ d.fins = c.fins /\ d.registered = c.registered
  BY <1>1, ZenonT(60) DEF FlowType, SameShell
<1>3. HandleExpectedPacket(c, p) =
        IF "RST" \in p.flags THEN Close(d)
        ELSE IF f.finSeq # None /\ p.ack = Add(f.finSeq, 1) THEN HandleFinAck(f)
        ELSE f
  BY DEF HandleExpectedPacket
<1> HIDE DEF d
<1>4. Core(d) /\ d.closed = FALSE /\ d.state # "Init"
  BY <1>2 DEF Core, SameShell, AckExact, FinKnown, EarlyClean, RegisteredOnce, DeregisteredOnce
<1>5. Core(e) /\ SameShell(e, d) /\ e.closed = FALSE /\ e.state # "Init"
  BY <1>1, <1>4, HandleAckCore DEF SameShell
<1> HIDE DEF e
<1>6. /\ Core(f) /\ SameShell(f, e) /\ f.state # "Init"
      /\ f.closed = TRUE => f.state = "FinWait2"
  <2>1. CASE "FIN" \in p.flags
    BY <1>1, <1>5, <2>1, HandleFinCore
  <2>2. CASE "FIN" \notin p.flags
    BY <1>5, <2>2 DEF SameShell
  <2> QED BY <2>1, <2>2
<1> HIDE DEF f
<1>7. SameShell(f, c)
  BY <1>2, <1>5, <1>6 DEF SameShell
<1>8. CASE "RST" \in p.flags
  <2>1. HandleExpectedPacket(c, p) = Close(d)
    BY <1>3, <1>8
  <2> QED BY <1>2, <1>4, <2>1, CloseCore DEF SameShell
<1>9. CASE "RST" \notin p.flags /\ f.finSeq # None /\ p.ack = Add(f.finSeq, 1)
  <2>1. HandleExpectedPacket(c, p) = HandleFinAck(f)
    BY <1>3, <1>9
  <2> QED BY <1>6, <1>7, <2>1, HandleFinAckCore DEF SameShell
<1>10. CASE "RST" \notin p.flags /\ ~(f.finSeq # None /\ p.ack = Add(f.finSeq, 1))
  <2>1. HandleExpectedPacket(c, p) = f
    BY <1>3, <1>10
  <2> QED BY <1>6, <1>7, <2>1 DEF SameShell
<1> QED BY <1>8, <1>9, <1>10

\* The first packet of a flow: a SYN starts the handshake, anything else is
\* refused and closes the flow.
LEMMA HandleFirstPacketCore ==
    ASSUME NEW c, Core(c), c.closed = FALSE, c.state = "Init", NEW p \in Segment,
           NEW isn \in Numbers
    PROVE  LET d == HandleFirstPacket(c, p, isn) IN
           /\ Core(d) /\ d.panic = c.panic /\ d.routed = c.routed
           /\ d.pending = c.pending
           /\ d.state = "Init" => d.closed = TRUE
<1>1. /\ c \in FlowType /\ c.written = 0 /\ c.fins = 0 /\ p.window \in Nat
      /\ p.seq \in Numbers /\ p.ack \in Numbers /\ p.seq \in Nat
  BY NumbersAreNat DEF Core, EarlyClean, Segment
<1>2. CASE "SYN" \in p.flags
  <2> DEFINE d == [c EXCEPT !.ack = Add(p.seq, 1), !.synSeq = p.seq, !.seq = isn,
                            !.isn = isn, !.window = p.window, !.state = "SynSent"]
  <2>1. Add(p.seq, 1) \in Numbers /\ "SynSent" \in States
    BY <1>1, AddType DEF States, Handshake
  <2>2. /\ d \in FlowType /\ d.ack = Add(p.seq, 1) /\ d.synSeq = p.seq
        /\ d.state = "SynSent" /\ d.closed = c.closed /\ d.deregs = c.deregs
        /\ d.written = c.written /\ d.fins = c.fins /\ d.finSeq = c.finSeq
        /\ d.pending = c.pending /\ d.registered = c.registered
        /\ d.routed = c.routed /\ d.panic = c.panic
    BY <1>1, <2>1, ZenonT(60) DEF FlowType
  <2>3. HandleFirstPacket(c, p, isn) = d
    BY <1>2 DEF HandleFirstPacket
  <2> HIDE DEF d
  <2>4. d.ack = (d.synSeq + 1 + d.written + d.fins) % Modulus
    BY <1>1, <2>2 DEF Add
  <2>5. Core(d)
    BY <2>2, <2>4 DEF Core, AckExact, FinKnown, FinSent, EarlyClean, RegisteredOnce,
                      DeregisteredOnce
  <2> QED BY <2>2, <2>3, <2>5
<1>3. CASE "SYN" \notin p.flags
  <2> DEFINE d == [c EXCEPT !.seq = p.ack]
             r == Reply(d, {"RST"})
  <2>1. /\ d \in FlowType /\ d.ack = c.ack /\ d.synSeq = c.synSeq
        /\ d.state = c.state /\ d.closed = c.closed /\ d.deregs = c.deregs
        /\ d.written = c.written /\ d.fins = c.fins /\ d.finSeq = c.finSeq
        /\ d.pending = c.pending /\ d.registered = c.registered
        /\ d.routed = c.routed /\ d.panic = c.panic
    BY <1>1, ZenonT(60) DEF FlowType
  <2>2. HandleFirstPacket(c, p, isn) = Close(r)
    BY <1>3 DEF HandleFirstPacket
  <2> HIDE DEF d
  <2>3. Core(d)
    BY <2>1 DEF Core, AckExact, FinKnown, EarlyClean, RegisteredOnce, DeregisteredOnce
  <2>4. Core(r) /\ SameButLink(r, d)
    BY <2>3, ReplyCore DEF FlagSets
  <2> HIDE DEF r
  <2>5. r.closed = FALSE
    BY <2>1, <2>4 DEF SameButLink
  <2>6. /\ Core(Close(r)) /\ Close(r).closed = TRUE /\ Close(r).routed = r.routed
        /\ Close(r).panic = r.panic /\ Close(r).pending = r.pending
    BY <2>4, <2>5, CloseCore
  <2> QED BY <2>1, <2>2, <2>4, <2>6 DEF SameButLink
<1> QED BY <1>2, <1>3

\* A repeated SYN restarts the numbering before the backend is connected, is
\* ignored afterwards, and a different SYN is refused.
LEMMA HandleDuplicateSynCore ==
    ASSUME NEW c, Core(c), c.closed = FALSE, c.state # "Init", NEW p \in Segment
    PROVE  LET d == HandleDuplicateSyn(c, p) IN
           /\ Core(d) /\ d.state # "Init"
           /\ d.panic = c.panic /\ d.routed = c.routed /\ d.pending = c.pending
<1>1. c \in FlowType /\ p.seq \in Numbers /\ p.seq \in Nat
  BY NumbersAreNat DEF Core, Segment
<1>2. CASE c.state = "SynSent"
  <2> DEFINE d == [c EXCEPT !.synSeq = p.seq, !.ack = Add(p.seq, 1), !.fins = 0]
  <2>1. Add(p.seq, 1) \in Numbers
    BY <1>1, AddType
  <2>2. /\ d \in FlowType /\ d.ack = Add(p.seq, 1) /\ d.synSeq = p.seq /\ d.fins = 0
        /\ d.state = c.state /\ d.closed = c.closed /\ d.deregs = c.deregs
        /\ d.written = c.written /\ d.finSeq = c.finSeq
        /\ d.pending = c.pending /\ d.registered = c.registered
        /\ d.routed = c.routed /\ d.panic = c.panic
    BY <1>1, <2>1, ZenonT(60) DEF FlowType
  <2>3. HandleDuplicateSyn(c, p) = d
    BY <1>2 DEF HandleDuplicateSyn
  <2>4. c.written = 0
    BY <1>2 DEF Core, EarlyClean
  <2> HIDE DEF d
  <2>5. d.ack = (d.synSeq + 1 + d.written + d.fins) % Modulus
    BY <1>1, <2>2, <2>4 DEF Add
  <2>6. Core(d)
    BY <2>2, <2>5 DEF Core, AckExact, FinKnown, EarlyClean, RegisteredOnce, DeregisteredOnce
  <2> QED BY <2>2, <2>3, <2>6
<1>3. CASE c.state # "SynSent" /\ p.seq # c.synSeq
  <2> DEFINE r == Reply(c, {"RST"})
  <2>1. Core(r) /\ SameButLink(r, c)
    BY ReplyCore DEF FlagSets
  <2>2. HandleDuplicateSyn(c, p) = Close(r)
    BY <1>3 DEF HandleDuplicateSyn
  <2> HIDE DEF r
  <2>3. r.closed = FALSE
    BY <2>1 DEF SameButLink
  <2>4. /\ Core(Close(r)) /\ Close(r).state = r.state /\ Close(r).routed = r.routed
        /\ Close(r).panic = r.panic /\ Close(r).pending = r.pending
    BY <2>1, <2>3, CloseCore
  <2> QED BY <2>1, <2>2, <2>4 DEF SameButLink
<1>4. CASE c.state # "SynSent" /\ p.seq = c.synSeq
  BY <1>4 DEF HandleDuplicateSyn
<1> QED BY <1>2, <1>3, <1>4

\* handle_packet on an open flow.
LEMMA HandlePacketCore ==
    ASSUME NEW c, Core(c), c.closed = FALSE, NEW p \in Segment, NEW isn \in Numbers
    PROVE  LET d == HandlePacket(c, p, isn) IN
           /\ Core(d) /\ d.panic = c.panic /\ d.routed = c.routed
           /\ d.pending = c.pending
           /\ d.state = "Init" => d.closed = TRUE
<1>1. CASE c.state = "Init"
  <2>1. HandlePacket(c, p, isn) = HandleFirstPacket(c, p, isn)
    BY <1>1 DEF HandlePacket
  <2>2. LET d == HandleFirstPacket(c, p, isn) IN
        /\ Core(d) /\ d.panic = c.panic /\ d.routed = c.routed
        /\ d.pending = c.pending
        /\ d.state = "Init" => d.closed = TRUE
    BY <1>1, HandleFirstPacketCore
  <2> QED BY <2>1, <2>2
<1>2. CASE c.state # "Init" /\ "SYN" \in p.flags
  <2>1. HandlePacket(c, p, isn) = HandleDuplicateSyn(c, p)
    BY <1>2 DEF HandlePacket
  <2>2. LET d == HandleDuplicateSyn(c, p) IN
        /\ Core(d) /\ d.state # "Init"
        /\ d.panic = c.panic /\ d.routed = c.routed /\ d.pending = c.pending
    BY <1>2, HandleDuplicateSynCore
  <2> QED BY <2>1, <2>2
<1>3. CASE c.state # "Init" /\ "SYN" \notin p.flags /\ p.seq # ExpectedPacket(c)
  <2>1. HandlePacket(c, p, isn) = c
    BY <1>3 DEF HandlePacket
  <2> QED BY <1>3, <2>1
<1>4. CASE c.state # "Init" /\ "SYN" \notin p.flags /\ p.seq = ExpectedPacket(c)
  <2>1. HandlePacket(c, p, isn) = HandleExpectedPacket(c, p)
    BY <1>4 DEF HandlePacket
  <2>2. LET d == HandleExpectedPacket(c, p) IN
        /\ Core(d) /\ d.state # "Init"
        /\ d.panic = c.panic /\ d.routed = c.routed /\ d.pending = c.pending
    BY <1>4, HandleExpectedPacketCore
  <2> QED BY <2>1, <2>2
<1> QED BY <1>1, <1>2, <1>3, <1>4

-------------------------------------------------------------------------------
(* What holds of the flow between two handlers. *)

\* The router holds the flow from its first packet until it closes.
RoutedWhileOpen(c) == /\ c.state # "Init" => (c.routed = TRUE <=> c.closed = FALSE)
                      /\ c.state = "Init" => c.routed = FALSE

Watched(c) == (c.panic = "none" /\ c.routed = TRUE)
                  => WantedInterests(c) \subseteq c.interests

\* An open flow that holds a deferred packet is not watched for reading.
QuietWhilePending(c) ==
    (c.panic = "none" /\ c.closed = FALSE /\ c.pending # None) => "r" \notin c.interests

NoPendingPanic(c) ==
    c.panic \notin {"pending packet not sent", "pending source with no packet"}

Settled(c) == /\ Core(c)
              /\ RoutedWhileOpen(c)
              /\ Watched(c)
              /\ QuietWhilePending(c)
              /\ NoPendingPanic(c)

\* A flow that closed and left the router is settled.
LEMMA UnrouteSettled ==
    ASSUME NEW c, Core(c), c.closed = TRUE, NoPendingPanic(c)
    PROVE  Settled(Unroute(c)) /\ Unroute(c).state = c.state
<1> DEFINE d == Unroute(c)
<1>1. c \in FlowType
  BY DEF Core
<1>2. /\ d \in FlowType /\ d.routed = FALSE /\ d.state = c.state /\ d.closed = c.closed
      /\ d.deregs = c.deregs /\ d.ack = c.ack /\ d.synSeq = c.synSeq
      /\ d.written = c.written /\ d.fins = c.fins /\ d.finSeq = c.finSeq
      /\ d.pending = c.pending /\ d.registered = c.registered /\ d.panic = c.panic
  BY <1>1, ZenonT(60) DEF Unroute, FlowType
<1> HIDE DEF d
<1>3. Core(d)
  BY <1>2 DEF Core, AckExact, FinKnown, EarlyClean, RegisteredOnce, DeregisteredOnce
<1>4. Settled(d)
  BY <1>2, <1>3 DEF Settled, RoutedWhileOpen, Watched, QuietWhilePending, NoPendingPanic
<1> QED BY <1>2, <1>4 DEF d

\* What update_interests asks for is a set of readiness, without "r" for a flow
\* that holds a deferred packet.
LEMMA WantedType ==
    ASSUME NEW c
    PROVE  /\ WantedInterests(c) \in SUBSET {"r", "w"}
           /\ c.pending # None => "r" \notin WantedInterests(c)
BY DEF WantedInterests, MayRead

\* update_interests settles an open flow that is in the router.
LEMMA UpdateInterestsSettled ==
    ASSUME NEW c, Core(c), c.closed = FALSE, c.routed = TRUE, c.state # "Init",
           NoPendingPanic(c)
    PROVE  Settled(UpdateInterests(c)) /\ UpdateInterests(c).state = c.state
<1> DEFINE w == WantedInterests(c)
           d == [c EXCEPT !.interests = w]
<1>1. c \in FlowType /\ w \in SUBSET {"r", "w"} /\ (c.pending # None => "r" \notin w)
  BY WantedType DEF Core
<1>2. UpdateInterests(c) = d
  BY DEF UpdateInterests
<1>3. WantedInterests(d) = w
  <2> HIDE DEF w
  <2>1. /\ d.state = c.state /\ d.pending = c.pending /\ d.size = c.size
        /\ d.theirAck = c.theirAck /\ d.window = c.window /\ d.seq = c.seq
    BY <1>1, ZenonT(60) DEF FlowType
  <2> HIDE DEF d
  <2> QED BY <2>1 DEF w, WantedInterests, MayRead, MayWrite, RemainingClientWindow
<1> HIDE DEF w
<1>4. /\ d \in FlowType /\ d.interests = w /\ d.state = c.state /\ d.closed = c.closed
      /\ d.deregs = c.deregs /\ d.ack = c.ack /\ d.synSeq = c.synSeq
      /\ d.written = c.written /\ d.fins = c.fins /\ d.finSeq = c.finSeq
      /\ d.pending = c.pending /\ d.registered = c.registered /\ d.panic = c.panic
      /\ d.routed = c.routed
  BY <1>1, ZenonT(60) DEF FlowType
<1> HIDE DEF d
<1>5. Core(d)
  BY <1>4 DEF Core, AckExact, FinKnown, EarlyClean, RegisteredOnce, DeregisteredOnce
<1>6. Settled(d)
  BY <1>1, <1>3, <1>4, <1>5
  DEF Settled, RoutedWhileOpen, Watched, QuietWhilePending, NoPendingPanic
<1> QED BY <1>2, <1>4, <1>6

\* The router hands a client packet to the flow.
LEMMA SendToNetworkSettled ==
    ASSUME NEW c, Settled(c), c.closed = FALSE, NEW p \in Segment, NEW isn \in Numbers
    PROVE  LET f == SendToNetwork(c, p, isn) IN
           /\ Settled(f) /\ f.pending = c.pending
           /\ f.closed = FALSE => f.state # "Init"
<1> DEFINE e == [c EXCEPT !.routed = TRUE]
           d == HandlePacket(e, p, isn)
<1>1. c \in FlowType
  BY DEF Settled, Core
<1>2. /\ e \in FlowType /\ e.routed = TRUE /\ e.state = c.state /\ e.closed = c.closed
      /\ e.deregs = c.deregs /\ e.ack = c.ack /\ e.synSeq = c.synSeq
      /\ e.written = c.written /\ e.fins = c.fins /\ e.finSeq = c.finSeq
      /\ e.pending = c.pending /\ e.registered = c.registered /\ e.panic = c.panic
  BY <1>1, ZenonT(60) DEF FlowType
<1>3. SendToNetwork(c, p, isn) = IF d.closed THEN Unroute(d) ELSE UpdateInterests(d)
  BY DEF SendToNetwork
<1> HIDE DEF e
<1>4. Core(e)
  BY <1>2 DEF Settled, Core, AckExact, FinKnown, EarlyClean, RegisteredOnce, DeregisteredOnce
<1>5. /\ Core(d) /\ d.panic = e.panic /\ d.routed = e.routed /\ d.pending = e.pending
      /\ d.state = "Init" => d.closed = TRUE
  BY <1>2, <1>4, HandlePacketCore
<1> HIDE DEF d
<1>6. NoPendingPanic(d) /\ d.closed \in BOOLEAN
  BY <1>2, <1>5, FieldTypes DEF Settled, NoPendingPanic, Core
<1>7. CASE d.closed = TRUE
  <2>1. SendToNetwork(c, p, isn) = Unroute(d)
    BY <1>3, <1>7
  <2>2. Unroute(d).pending = d.pending /\ Unroute(d).closed = d.closed
    BY <1>5, ZenonT(60) DEF Core, Unroute, FlowType
  <2> QED BY <1>2, <1>5, <1>6, <1>7, <2>1, <2>2, UnrouteSettled
<1>8. CASE d.closed = FALSE
  <2>1. SendToNetwork(c, p, isn) = UpdateInterests(d)
    BY <1>3, <1>8
  <2>2. UpdateInterests(d).pending = d.pending
    BY <1>5, <1>8, ZenonT(60) DEF Core, UpdateInterests, FlowType
  <2> QED BY <1>2, <1>5, <1>6, <1>8, <2>1, <2>2, UpdateInterestsSettled
<1> QED BY <1>6, <1>7, <1>8

-------------------------------------------------------------------------------
(* The flow's own socket. *)

\* How a socket may answer.
Answer == [write : {"ok", "error", "block"}, taken : 1 .. UpCapacity,
           read : {"data", "eof", "error", "block"}, length : 1 .. MaxPayload]

\* d reads or writes only where c did.
WantsNoMore(d, c) == WantedInterests(d) \subseteq WantedInterests(c)

\* A refusal: a RST to the client, then close.
LEMMA RefuseCore ==
    ASSUME NEW c, Core(c), c.closed = FALSE
    PROVE  LET d == Close(Reply(c, {"RST"})) IN
           /\ Core(d) /\ d.closed = TRUE /\ d.state = c.state
           /\ d.panic = c.panic /\ d.routed = c.routed /\ d.pending = c.pending
<1> DEFINE r == Reply(c, {"RST"})
<1>1. Core(r) /\ SameButLink(r, c)
  BY ReplyCore DEF FlagSets
<1> HIDE DEF r
<1>2. r.closed = FALSE
  BY <1>1 DEF SameButLink
<1>3. /\ Core(Close(r)) /\ Close(r).closed = TRUE /\ Close(r).state = r.state
      /\ Close(r).routed = r.routed /\ Close(r).panic = r.panic
      /\ Close(r).pending = r.pending
  BY <1>1, <1>2, CloseCore
<1> QED BY <1>1, <1>3 DEF r, SameButLink

\* process_connect: the flow is refused, or answers the client's SYN.
LEMMA ProcessConnectCore ==
    ASSUME NEW c, Core(c), c.closed = FALSE, c.state = "SynSent", NEW o \in Answer
    PROVE  LET d == ProcessConnect(c, o) IN
           /\ Core(d) /\ d.state # "Init" /\ d.panic = c.panic
           /\ d.routed = c.routed /\ d.pending = c.pending
           /\ d.interests = c.interests
           /\ WantsNoMore(d, c)
<1> DEFINE d == ProcessConnect(c, o)
<1>1. CASE o.write = "error"
  <2>1. d = Close(Reply(c, {"RST"}))
    BY <1>1 DEF ProcessConnect
  <2>2. /\ Core(d) /\ d.closed = TRUE /\ d.state = c.state
        /\ d.panic = c.panic /\ d.routed = c.routed /\ d.pending = c.pending
    BY <2>1, RefuseCore
  <2>3. d.interests = c.interests
    <3> DEFINE r == Reply(c, {"RST"})
    <3>1. r \in FlowType /\ SameButLink(r, c)
      BY ReplySame DEF Core, FlagSets
    <3> HIDE DEF r
    <3>2. Close(r).interests = r.interests
      BY <3>1, ZenonT(60) DEF Close, FlowType
    <3> QED BY <2>1, <3>1, <3>2 DEF r, SameButLink
  <2> HIDE DEF d
  <2>4. WantsNoMore(d, c)
    BY <2>2 DEF WantsNoMore, WantedInterests
  <2> QED BY <2>2, <2>3, <2>4 DEF d
<1>2. CASE o.write # "error"
  <2> DEFINE e == [c EXCEPT !.state = "SynReceived"]
             r == Reply(e, {"SYN", "ACK"})
             f == [r EXCEPT !.seq = Add(e.seq, 1)]
  <2>1. d = f
    BY <1>2 DEF ProcessConnect
  <2>2. /\ "SynReceived" \in States \ {"Init", "SynSent", "CloseWait"}
        /\ "SynReceived" \notin FinSent /\ "SynSent" \notin FinSent
    BY DEF States, FinSent, Handshake
  <2>3. /\ Core(e) /\ e.state = "SynReceived" /\ e.closed = c.closed
        /\ e.size = c.size /\ SameShell(e, c)
    BY <2>2, StateCore
  <2> HIDE DEF e
  <2>4. Core(r) /\ SameButLink(r, e)
    BY <2>3, ReplyCore DEF FlagSets
  <2>5. e.seq \in Int
    BY <2>3, FieldTypes, NumbersAreNat DEF Core
  <2>6. Add(e.seq, 1) \in Numbers /\ r \in FlowType
    BY <2>4, <2>5, AddType DEF Core
  <2> HIDE DEF r
  <2>7. /\ f \in FlowType /\ f.state = r.state /\ f.closed = r.closed
        /\ f.deregs = r.deregs /\ f.ack = r.ack /\ f.synSeq = r.synSeq
        /\ f.written = r.written /\ f.fins = r.fins /\ f.finSeq = r.finSeq
        /\ f.pending = r.pending /\ f.registered = r.registered /\ f.panic = r.panic
        /\ f.routed = r.routed /\ f.interests = r.interests
    BY <2>6, ZenonT(60) DEF FlowType
  <2> HIDE DEF f, d
  <2>8. Core(f)
    BY <2>4, <2>7 DEF Core, AckExact, FinKnown, EarlyClean, RegisteredOnce, DeregisteredOnce
  <2>9. f.state = "SynReceived" /\ f.panic = c.panic /\ f.routed = c.routed
        /\ f.pending = c.pending /\ f.interests = c.interests
    BY <2>3, <2>4, <2>7 DEF SameButLink, SameShell
  <2>10. WantsNoMore(f, c)
    BY <2>9 DEF WantsNoMore, WantedInterests, MayRead, Handshake
  <2> QED BY <2>1, <2>8, <2>9, <2>10 DEF d
<1> QED BY <1>1, <1>2

\* w bytes leave for the network: the acknowledgement number moves by exactly w.
LEMMA WriteCore ==
    ASSUME NEW c, Core(c), c.state \notin {"Init", "SynSent"}, NEW w \in 1 .. c.size
    PROVE  LET d == [c EXCEPT !.ack = Add(@, w), !.size = @ - w, !.written = @ + w] IN
           /\ Core(d) /\ d.state = c.state /\ d.closed = c.closed /\ d.seq = c.seq
           /\ d.size = c.size - w /\ d.theirAck = c.theirAck /\ d.window = c.window
           /\ SameShell(d, c) /\ d.finReceived = c.finReceived
<1> DEFINE d == [c EXCEPT !.ack = Add(@, w), !.size = @ - w, !.written = @ + w]
<1>1. c \in FlowType
  BY DEF Core
<1>2. /\ c.ack \in Nat /\ c.fins \in Nat /\ c.written \in Nat /\ c.synSeq \in Nat
      /\ c.size \in 0 .. UpCapacity /\ w \in Nat
  BY <1>1, FieldTypes, NumbersAreNat, LengthAssumption
<1>3. Add(c.ack, w) \in Numbers /\ c.size - w \in 0 .. UpCapacity /\ c.written + w \in Nat
  BY <1>2, AddType, LengthAssumption
<1>4. /\ d \in FlowType /\ d.ack = Add(c.ack, w) /\ d.size = c.size - w
      /\ d.written = c.written + w /\ d.state = c.state /\ d.closed = c.closed
      /\ d.deregs = c.deregs /\ d.synSeq = c.synSeq /\ d.fins = c.fins
      /\ d.finSeq = c.finSeq /\ d.registered = c.registered /\ d.seq = c.seq
      /\ d.theirAck = c.theirAck /\ d.window = c.window /\ SameShell(d, c)
      /\ d.finReceived = c.finReceived
  BY <1>1, <1>3, ZenonT(60) DEF FlowType, SameShell
<1> HIDE DEF d
<1>5. d.ack = (d.synSeq + 1 + d.written + d.fins) % Modulus
  <2> DEFINE x == c.synSeq + 1 + c.written + c.fins
  <2>1. x \in Nat /\ c.ack = x % Modulus
    BY <1>2 DEF Core, AckExact
  <2>2. Add(c.ack, w) = (x + w) % Modulus
    BY <1>2, <2>1, ModAdd, ModulusAssumption DEF Add
  <2>3. d.synSeq + 1 + d.written + d.fins = x + w
    BY <1>2, <1>4
  <2> QED BY <1>4, <2>2, <2>3
<1>6. Core(d)
  BY <1>4, <1>5 DEF Core, SameShell, AckExact, FinKnown, EarlyClean, RegisteredOnce,
                    DeregisteredOnce
<1> QED BY <1>4, <1>6 DEF d

\* process_send on an open flow past its handshake with the backend.
LEMMA ProcessSendCore ==
    ASSUME NEW c, Core(c), c.closed = FALSE, c.state \notin {"Init", "SynSent"},
           NEW o \in Answer
    PROVE  LET d == ProcessSend(c, o) IN
           /\ Core(d) /\ d.state # "Init" /\ d.panic = c.panic
           /\ d.routed = c.routed /\ d.pending = c.pending
           /\ d.closed = FALSE => (d.interests = c.interests /\ WantsNoMore(d, c))
<1> DEFINE w == Min(o.taken, c.size)
           e == [c EXCEPT !.ack = Add(@, w), !.size = @ - w, !.written = @ + w]
           d == ProcessSend(c, o)
<1>1. c \in FlowType /\ c.size \in 0 .. UpCapacity /\ o.taken \in 1 .. UpCapacity
  BY FieldTypes DEF Core, Answer
<1>2. d = IF c.size = 0 THEN Close(c)
          ELSE IF o.write = "error" THEN Close(Reply(c, {"RST"}))
          ELSE IF e.finReceived /\ e.size = 0 THEN DoHandleFin(e)
          ELSE Reply(e, {"ACK"})
  BY DEF ProcessSend
<1> HIDE DEF d
<1>3. CASE c.size = 0
  <2>1. d = Close(c)
    BY <1>2, <1>3
  <2>2. /\ Core(d) /\ d.closed = TRUE /\ d.state = c.state /\ d.routed = c.routed
        /\ d.panic = c.panic /\ d.pending = c.pending
    BY <2>1, CloseCore
  <2> QED BY <2>2 DEF d
<1>4. CASE c.size # 0 /\ o.write = "error"
  <2>1. d = Close(Reply(c, {"RST"}))
    BY <1>2, <1>4
  <2>2. /\ Core(d) /\ d.closed = TRUE /\ d.state = c.state
        /\ d.panic = c.panic /\ d.routed = c.routed /\ d.pending = c.pending
    BY <2>1, RefuseCore
  <2> QED BY <2>2 DEF d
<1>5. ASSUME c.size # 0
      PROVE  /\ Core(e) /\ e.state = c.state /\ e.closed = FALSE /\ e.seq = c.seq
             /\ e.size \in Nat /\ e.theirAck = c.theirAck /\ e.window = c.window
             /\ SameShell(e, c) /\ e.finReceived \in BOOLEAN
  <2>1. w \in 1 .. c.size
    BY <1>1, <1>5 DEF Min
  <2> HIDE DEF w
  <2>2. /\ Core(e) /\ e.state = c.state /\ e.closed = FALSE /\ e.seq = c.seq
        /\ e.theirAck = c.theirAck /\ e.window = c.window /\ SameShell(e, c)
    BY <2>1, WriteCore
  <2> HIDE DEF e
  <2>3. e.size \in Nat /\ e.finReceived \in BOOLEAN
    BY <2>2, FieldTypes, LengthAssumption DEF Core
  <2> QED BY <2>2, <2>3
<1> HIDE DEF e
<1>6. CASE c.size # 0 /\ o.write # "error" /\ e.finReceived /\ e.size = 0
  <2>1. d = DoHandleFin(e)
    BY <1>2, <1>6
  <2>2. /\ Core(d) /\ SameShell(d, e) /\ d.size = e.size /\ d.state # "Init"
        /\ d.state # "Established" /\ d.state # "SynSent"
    BY <1>5, <1>6, <2>1, DoHandleFinCore
  <2>3. d.state # "CloseWait" /\ d.state \in States
    BY <2>2, FieldTypes DEF Core, EarlyClean
  <2>4. WantedInterests(d) = {}
    BY <1>6, <2>2, <2>3 DEF WantedInterests, MayRead, MayWrite, States
  <2> QED BY <1>5, <1>6, <2>2, <2>4 DEF d, SameShell, WantsNoMore
<1>7. CASE c.size # 0 /\ o.write # "error" /\ ~(e.finReceived /\ e.size = 0)
  <2>1. d = Reply(e, {"ACK"})
    BY <1>2, <1>7
  <2>2. Core(d) /\ SameButLink(d, e)
    BY <1>5, <1>7, <2>1, ReplyCore DEF FlagSets
  <2>3. WantsNoMore(d, c)
    <3>1. /\ d.state = c.state /\ d.pending = c.pending /\ d.seq = c.seq
          /\ d.theirAck = c.theirAck /\ d.window = c.window
      BY <1>5, <1>7, <2>2 DEF SameButLink, SameShell
    <3>2. c.size > 0
      BY <1>1, <1>7
    <3> QED BY <3>1, <3>2
        DEF WantsNoMore, WantedInterests, MayRead, MayWrite, RemainingClientWindow
  <2> QED BY <1>5, <1>7, <2>2, <2>3 DEF d, SameButLink, SameShell
<1> QED BY <1>3, <1>4, <1>6, <1>7

\* eof: the relay's FIN.
LEMMA EofCore ==
    ASSUME NEW c, Core(c), c.closed = FALSE, c.state # "Init"
    PROVE  LET d == Eof(c) IN
           /\ Core(d) /\ d.state = "FinWait1" /\ d.closed = FALSE
           /\ SameShell(d, c)
<1>1. c.state # "CloseWait"
  BY DEF Core, EarlyClean
<1>2. Eof(c) = [Reply(c, {"FIN", "ACK"}) EXCEPT !.finSeq = c.seq,
                                !.seq = Add(c.seq, 1), !.state = "FinWait1"]
  BY <1>1 DEF Eof
<1> QED BY <1>2, SendFinCore

\* A data packet goes to the link, or is kept and registered once.
LEMMA DeliverCore ==
    ASSUME NEW c, Core(c), c.closed = FALSE, c.state # "Init", c.pending = None,
           NEW n \in Nat
    PROVE  LET d == Deliver(c, n) IN
           /\ Core(d) /\ d.state = c.state /\ d.closed = FALSE
           /\ d.routed = c.routed /\ d.panic = c.panic
<1> DEFINE b == Build(c, n)
           e == Push(b, n)
           f == [e EXCEPT !.seq = Add(c.seq, n), !.sent = @ + n]
           g == [b EXCEPT !.pending = HeaderLength + n, !.registered = @ + 1]
           d == Deliver(c, n)
<1>1. c \in FlowType /\ c.seq \in Int /\ c.sent \in Nat /\ c.registered = 0
  BY FieldTypes, NumbersAreNat DEF Core, RegisteredOnce
<1>2. b \in FlowType /\ SameButLink(b, c)
  <2>1. {} \in FlagSets
    BY DEF FlagSets
  <2> QED BY <1>1, <2>1, HeadersSame
<1>3. Core(b)
  BY <1>2, CoreOfSame
<1>4. d = IF Fits(b, HeaderLength + n) THEN f ELSE g
  BY DEF Deliver
<1> HIDE DEF b, d
<1>5. CASE Fits(b, HeaderLength + n)
  <2>1. e \in FlowType /\ SameButLink(e, b)
    BY <1>2, <1>5, PushSame
  <2> HIDE DEF e
  <2>2. Core(e) /\ e.sent = c.sent
    BY <1>2, <1>3, <2>1, CoreOfSame DEF SameButLink
  <2>3. Add(c.seq, n) \in Numbers /\ e.sent + n \in Nat
    BY <1>1, <2>2, AddType
  <2>4. /\ f \in FlowType /\ f.state = e.state /\ f.closed = e.closed
        /\ f.deregs = e.deregs /\ f.ack = e.ack /\ f.synSeq = e.synSeq
        /\ f.written = e.written /\ f.fins = e.fins /\ f.finSeq = e.finSeq
        /\ f.pending = e.pending /\ f.registered = e.registered /\ f.panic = e.panic
        /\ f.routed = e.routed
    BY <2>1, <2>3, ZenonT(60) DEF FlowType
  <2> HIDE DEF f
  <2>5. Core(f)
    BY <2>2, <2>4 DEF Core, AckExact, FinKnown, EarlyClean, RegisteredOnce, DeregisteredOnce
  <2>6. d = f
    BY <1>4, <1>5
  <2> QED BY <1>2, <2>1, <2>4, <2>5, <2>6 DEF SameButLink, d
<1>6. CASE ~Fits(b, HeaderLength + n)
  <2>1. /\ HeaderLength + n \in Nat /\ HeaderLength + n # None
        /\ HeaderLength <= HeaderLength + n
    BY LengthAssumption DEF None
  <2>2. b.registered + 1 \in Nat /\ b.registered + 1 = 1
    BY <1>1, <1>2 DEF SameButLink
  <2> DEFINE k == HeaderLength + n
             r == b.registered + 1
  <2>3. k \in Nat \cup {None} /\ r \in Nat /\ g = [b EXCEPT !.pending = k, !.registered = r]
    BY <2>1, <2>2
  <2> HIDE DEF k, r, g
  <2>4. /\ g \in FlowType /\ g.state = b.state /\ g.closed = b.closed
        /\ g.deregs = b.deregs /\ g.ack = b.ack /\ g.synSeq = b.synSeq
        /\ g.written = b.written /\ g.fins = b.fins /\ g.finSeq = b.finSeq
        /\ g.pending = k /\ g.registered = r
        /\ g.panic = b.panic /\ g.routed = b.routed
    BY <1>2, <2>3, ZenonT(60) DEF FlowType
  <2>5. g.state # "Init"
    BY <1>2, <2>4 DEF SameButLink
  <2>6. Core(g)
    BY <1>3, <2>1, <2>2, <2>4, <2>5
    DEF k, r, Core, AckExact, FinKnown, EarlyClean, RegisteredOnce, DeregisteredOnce
  <2>7. d = g
    BY <1>4, <1>6 DEF g
  <2> QED BY <1>2, <2>4, <2>6, <2>7 DEF SameButLink, d
<1> QED BY <1>5, <1>6

\* process_receive on an open flow without a deferred packet: only the assertion
\* on the window can fail, and WouldBlock leaves the flow as it was.
LEMMA ProcessReceiveCore ==
    ASSUME NEW c, Core(c), c.closed = FALSE, c.state # "Init", c.pending = None,
           c.panic = "none", NEW o \in Answer
    PROVE  LET d == ProcessReceive(c, o) IN
           /\ Core(d) /\ d.state # "Init" /\ d.routed = c.routed
           /\ d.panic \in {"none", "receive with window 0"}
           /\ d.panic # "none" => d.closed = FALSE
           /\ (o.read = "block" /\ d.panic = "none") => SameButLink(d, c)
<1> DEFINE win == RemainingClientWindow(c)
           h == UpdateHeaders(c, {"ACK", "PSH"})
           n == Min(o.length, Min(win, MaxPayload))
           x == [c EXCEPT !.panic = "receive with window 0"]
           d == ProcessReceive(c, o)
<1>1. /\ c \in FlowType /\ c.theirAck \in Nat /\ c.seq \in Nat /\ c.window \in Nat
      /\ o.read \in {"data", "eof", "error", "block"} /\ o.length \in Nat
  BY FieldTypes, NumbersAreNat, LengthAssumption DEF Core, Answer
<1>2. win \in Nat
  BY <1>1, ModulusAssumption DEF RemainingClientWindow
<1>3. h \in FlowType /\ SameButLink(h, c)
  BY <1>1, HeadersSame DEF FlagSets
<1>4. Core(h) /\ h.closed = FALSE /\ h.state # "Init" /\ h.pending = None
  BY <1>3, CoreOfSame DEF SameButLink
<1>5. d = IF win = 0 THEN x
          ELSE CASE o.read = "data"  -> Deliver(h, n)
                 [] o.read = "eof"   -> Eof(h)
                 [] o.read = "error" -> Close(Reply(h, {"RST"}))
                 [] o.read = "block" -> h
  BY DEF ProcessReceive
<1> HIDE DEF win, h, d
<1>6. n \in Nat
  BY <1>1, <1>2, LengthAssumption DEF Min
<1> HIDE DEF n
<1>7. CASE win = 0
  <2>1. "receive with window 0" \in Panics
    BY DEF Panics
  <2>2. /\ x \in FlowType /\ x.state = c.state /\ x.closed = c.closed
        /\ x.deregs = c.deregs /\ x.ack = c.ack /\ x.synSeq = c.synSeq
        /\ x.written = c.written /\ x.fins = c.fins /\ x.finSeq = c.finSeq
        /\ x.pending = c.pending /\ x.registered = c.registered
        /\ x.panic = "receive with window 0" /\ x.routed = c.routed
    BY <1>1, <2>1, ZenonT(60) DEF FlowType
  <2> HIDE DEF x
  <2>3. Core(x)
    BY <2>2 DEF Core, AckExact, FinKnown, EarlyClean, RegisteredOnce, DeregisteredOnce
  <2>4. d = x
    BY <1>5, <1>7
  <2> QED BY <2>2, <2>3, <2>4 DEF d
<1>8. CASE win # 0 /\ o.read = "data"
  <2>1. d = Deliver(h, n)
    BY <1>5, <1>8
  <2>2. /\ Core(d) /\ d.state = h.state /\ d.closed = FALSE
        /\ d.routed = h.routed /\ d.panic = h.panic
    BY <1>4, <1>6, <2>1, DeliverCore
  <2> QED BY <1>3, <1>8, <2>2 DEF d, SameButLink
<1>9. CASE win # 0 /\ o.read = "eof"
  <2>1. d = Eof(h)
    BY <1>5, <1>9
  <2>2. /\ Core(d) /\ d.state = "FinWait1" /\ d.closed = FALSE /\ SameShell(d, h)
    BY <1>4, <2>1, EofCore
  <2> QED BY <1>3, <1>9, <2>2 DEF d, SameButLink, SameShell
<1>10. CASE win # 0 /\ o.read = "error"
  <2>1. d = Close(Reply(h, {"RST"}))
    BY <1>5, <1>10
  <2>2. /\ Core(d) /\ d.closed = TRUE /\ d.state = h.state
        /\ d.panic = h.panic /\ d.routed = h.routed
    BY <1>4, <2>1, RefuseCore
  <2> QED BY <1>3, <1>10, <2>2 DEF d, SameButLink
<1>11. CASE win # 0 /\ o.read = "block"
  <2>1. d = h
    BY <1>5, <1>11
  <2> QED BY <1>3, <1>4, <1>11, <2>1 DEF d, SameButLink
<1> QED BY <1>1, <1>7, <1>8, <1>9, <1>10, <1>11

\* Settled does not depend on the link.
LEMMA SettledOfSame ==
    ASSUME NEW c, NEW d \in FlowType, Settled(c), SameButLink(d, c)
    PROVE  Settled(d)
<1>1. Core(d)
  BY CoreOfSame DEF Settled
<1>2. WantedInterests(d) = WantedInterests(c)
  BY DEF SameButLink, WantedInterests, MayRead, MayWrite, RemainingClientWindow
<1> QED BY <1>1, <1>2
    DEF SameButLink, Settled, RoutedWhileOpen, Watched, QuietWhilePending, NoPendingPanic

\* The writable half of process on an open flow.
LEMMA WritableCore ==
    ASSUME NEW c, Core(c), c.closed = FALSE, c.state # "Init", NEW ev, NEW o \in Answer
    PROVE  LET d == IF "w" \notin ev THEN c
                    ELSE IF c.state = "SynSent" THEN ProcessConnect(c, o)
                    ELSE ProcessSend(c, o) IN
           /\ Core(d) /\ d.state # "Init" /\ d.panic = c.panic
           /\ d.routed = c.routed /\ d.pending = c.pending
           /\ d.closed = FALSE => (d.interests = c.interests /\ WantsNoMore(d, c))
<1>1. CASE "w" \notin ev
  BY <1>1 DEF WantsNoMore
<1>2. CASE "w" \in ev /\ c.state = "SynSent"
  <2> DEFINE d == ProcessConnect(c, o)
  <2>1. /\ Core(d) /\ d.state # "Init" /\ d.panic = c.panic
        /\ d.routed = c.routed /\ d.pending = c.pending
        /\ d.interests = c.interests /\ WantsNoMore(d, c)
    BY <1>2, ProcessConnectCore
  <2> HIDE DEF d
  <2> QED BY <1>2, <2>1 DEF d
<1>3. CASE "w" \in ev /\ c.state # "SynSent"
  <2> DEFINE d == ProcessSend(c, o)
  <2>1. /\ Core(d) /\ d.state # "Init" /\ d.panic = c.panic
        /\ d.routed = c.routed /\ d.pending = c.pending
        /\ d.closed = FALSE => (d.interests = c.interests /\ WantsNoMore(d, c))
    BY <1>3, ProcessSendCore
  <2> HIDE DEF d
  <2> QED BY <1>3, <2>1 DEF d
<1> QED BY <1>1, <1>2, <1>3

\* process for readiness of an open flow: unless it was readable with a packet
\* deferred, the flow is settled again on every path, WouldBlock included.
LEMMA ProcessReadySettled ==
    ASSUME NEW c, Settled(c), c.closed = FALSE, c.panic = "none", c.state # "Init",
           NEW ev, "r" \in ev => c.pending = None, NEW o \in Answer
    PROVE  LET f == ProcessReady(c, ev, o) IN Settled(f) /\ f.state # "Init"
<1> DEFINE d == IF "w" \notin ev THEN c
                ELSE IF c.state = "SynSent" THEN ProcessConnect(c, o)
                ELSE ProcessSend(c, o)
           receives == ~d.closed /\ "r" \in ev
           e == IF receives THEN ProcessReceive(d, o) ELSE d
           f == ProcessReady(c, ev, o)
<1>1. Core(c) /\ c.routed = TRUE
  BY DEF Settled, RoutedWhileOpen
<1>2. /\ Core(d) /\ d.state # "Init" /\ d.panic = "none" /\ d.routed = TRUE
      /\ d.pending = c.pending
      /\ d.closed = FALSE => (d.interests = c.interests /\ WantsNoMore(d, c))
  BY <1>1, WritableCore
<1>3. f = IF "w" \in ev /\ c.state # "SynSent" /\ c.size > 0 /\ o.write = "block" THEN c
          ELSE IF e.panic # "none" \/ (receives /\ o.read = "block") THEN e
          ELSE IF e.closed THEN Unroute(e)
          ELSE UpdateInterests(e)
  BY DEF ProcessReady
<1> HIDE DEF d, f
<1>4. d.closed \in BOOLEAN
  BY <1>2, FieldTypes DEF Core
<1>5. /\ Core(e) /\ e.state # "Init" /\ e.routed = TRUE
      /\ e.panic \in {"none", "receive with window 0"}
      /\ e.panic # "none" => e.closed = FALSE
      /\ (receives /\ o.read = "block" /\ e.panic = "none") => SameButLink(e, d)
  <2>1. CASE receives
    <3>1. e = ProcessReceive(d, o) /\ d.closed = FALSE /\ d.pending = None
      BY <1>2, <1>4, <2>1
    <3> HIDE DEF e, receives
    <3>2. /\ Core(e) /\ e.state # "Init" /\ e.routed = d.routed
          /\ e.panic \in {"none", "receive with window 0"}
          /\ e.panic # "none" => e.closed = FALSE
          /\ (o.read = "block" /\ e.panic = "none") => SameButLink(e, d)
      BY <1>2, <3>1, ProcessReceiveCore
    <3> QED BY <1>2, <3>2
  <2>2. CASE ~receives
    <3>1. e = d
      BY <2>2
    <3> HIDE DEF e
    <3> QED BY <1>2, <2>2, <3>1
  <2> QED BY <2>1, <2>2
<1>6. receives => d.closed = FALSE /\ d.pending = None
  BY <1>2, <1>4
<1> HIDE DEF e, receives
<1>7. e.closed \in BOOLEAN /\ NoPendingPanic(e)
  BY <1>5, FieldTypes DEF Core, NoPendingPanic
<1>8. CASE "w" \in ev /\ c.state # "SynSent" /\ c.size > 0 /\ o.write = "block"
  <2>1. f = c
    BY <1>3, <1>8
  <2> QED BY <2>1 DEF f
<1>9. ASSUME ~("w" \in ev /\ c.state # "SynSent" /\ c.size > 0 /\ o.write = "block")
      PROVE  Settled(f) /\ f.state # "Init"
  <2>1. CASE e.panic # "none"
    <3>1. f = e
      BY <1>3, <1>9, <2>1
    <3>2. Settled(e)
      BY <1>5, <1>7, <2>1 DEF Settled, RoutedWhileOpen, Watched, QuietWhilePending
    <3> QED BY <1>5, <3>1, <3>2
  <2>2. CASE e.panic = "none" /\ receives /\ o.read = "block"
    <3>1. f = e
      BY <1>3, <1>9, <2>2
    <3>2. SameButLink(e, d) /\ d.closed = FALSE /\ d.pending = None
      BY <1>5, <1>6, <2>2
    <3>3. WantedInterests(e) = WantedInterests(d)
      BY <3>2 DEF SameButLink, WantedInterests, MayRead, MayWrite, RemainingClientWindow
    <3>4. WantedInterests(c) \subseteq c.interests
      BY <1>1 DEF Settled, Watched
    <3>5. WantedInterests(e) \subseteq e.interests
      BY <1>2, <3>2, <3>3, <3>4 DEF SameButLink, WantsNoMore
    <3>6. e.closed = FALSE /\ e.pending = None
      BY <3>2 DEF SameButLink
    <3>7. Settled(e)
      BY <1>5, <1>7, <3>5, <3>6 DEF Settled, RoutedWhileOpen, Watched, QuietWhilePending
    <3> QED BY <1>5, <3>1, <3>7
  <2>3. CASE e.panic = "none" /\ ~(receives /\ o.read = "block") /\ e.closed = TRUE
    <3>1. f = Unroute(e)
      BY <1>3, <1>9, <2>3
    <3> QED BY <1>5, <1>7, <2>3, <3>1, UnrouteSettled
  <2>4. CASE e.panic = "none" /\ ~(receives /\ o.read = "block") /\ e.closed = FALSE
    <3>1. f = UpdateInterests(e)
      BY <1>3, <1>9, <2>4
    <3> QED BY <1>5, <1>7, <2>4, <3>1, UpdateInterestsSettled
  <2> QED BY <1>5, <1>7, <2>1, <2>2, <2>3, <2>4
<1> QED BY <1>8, <1>9 DEF f

\* Closing an open flow and removing it from the router, with or without a RST.
LEMMA GiveUpSettled ==
    ASSUME NEW c, Settled(c), c.closed = FALSE, NEW refuse \in BOOLEAN
    PROVE  LET f == Unroute(Close(IF refuse THEN Reply(c, {"RST"}) ELSE c)) IN
           Settled(f) /\ f.closed = TRUE /\ f.state = c.state
<1> DEFINE e == IF refuse THEN Reply(c, {"RST"}) ELSE c
           d == Close(e)
<1>1. Core(c)
  BY DEF Settled
<1>2. Core(e) /\ e.closed = FALSE /\ e.panic = c.panic /\ e.state = c.state
  <2>1. CASE refuse
    <3> DEFINE r == Reply(c, {"RST"})
    <3>1. Core(r) /\ SameButLink(r, c)
      BY <1>1, ReplyCore DEF FlagSets
    <3>2. e = r
      BY <2>1
    <3> HIDE DEF r, e
    <3> QED BY <3>1, <3>2 DEF SameButLink
  <2>2. CASE ~refuse
    BY <1>1, <2>2
  <2> QED BY <2>1, <2>2
<1> HIDE DEF e
<1>3. Core(d) /\ d.closed = TRUE /\ d.panic = e.panic /\ d.state = e.state
  BY <1>2, CloseCore
<1> HIDE DEF d
<1>4. NoPendingPanic(d)
  BY <1>2, <1>3 DEF Settled, NoPendingPanic
<1>5. Settled(Unroute(d)) /\ Unroute(d).state = d.state
  BY <1>3, <1>4, UnrouteSettled
<1>6. Unroute(d).closed = d.closed
  BY <1>3, ZenonT(60) DEF Unroute, Core, FlowType
<1> QED BY <1>2, <1>3, <1>5, <1>6 DEF d, e

\* on_ready of the flow.
LEMMA ProcessSettled ==
    ASSUME NEW c, Settled(c), c.panic = "none", NEW ev, NEW o \in Answer,
           c.closed = FALSE => c.state # "Init",
           (c.closed = FALSE /\ "r" \in ev) => c.pending = None
    PROVE  Settled(Process(c, ev, o))
<1> DEFINE f == Process(c, ev, o)
<1>1. c.closed \in BOOLEAN
  BY FieldTypes DEF Settled, Core
<1>2. CASE c.closed = TRUE
  BY <1>2 DEF Process
<1>3. CASE c.closed = FALSE /\ ev = {"hup"}
  <2>1. f = Unroute(Close(IF c.state \in Handshake THEN Reply(c, {"RST"}) ELSE c))
    BY <1>3 DEF Process, ProcessHup
  <2>2. (c.state \in Handshake) \in BOOLEAN
    OBVIOUS
  <2> HIDE DEF f
  <2> QED BY <1>3, <2>1, <2>2, GiveUpSettled DEF f
<1>4. CASE c.closed = FALSE /\ ev # {"hup"}
  <2>1. f = ProcessReady(c, ev, o)
    BY <1>4 DEF Process
  <2> HIDE DEF f
  <2> QED BY <1>4, <2>1, ProcessReadySettled DEF f
<1> QED BY <1>1, <1>2, <1>3, <1>4

-------------------------------------------------------------------------------
(* The client's side of the flow. *)

\* The client pulls a deferred packet once it fits: an open flow asks for
\* readiness again; a closed one fails the assertion of update_interests.
LEMMA ProcessPendingSettled ==
    ASSUME NEW c, Settled(c), c.panic = "none"
    PROVE  LET f == ProcessPending(c) IN
           /\ Settled(f) /\ f.closed = c.closed /\ f.state = c.state
           /\ f.pending # None => f.pending = c.pending
<1> DEFINE n == c.pending - HeaderLength
           b == Push(c, n)
           e == [b EXCEPT !.registered = @ - 1, !.sent = @ + n]
           g == [e EXCEPT !.seq = Add(@, e.pending), !.pending = None]
           f == ProcessPending(c)
<1>1. /\ c \in FlowType /\ c.pending \in Nat \cup {None} /\ c.closed \in BOOLEAN
      /\ c.registered = IF c.pending = None THEN 0 ELSE 1
      /\ c.pending # None => HeaderLength <= c.pending
      /\ Core(c)
  BY FieldTypes DEF Settled, Core, RegisteredOnce
<1>2. CASE c.registered = 0 \/ ~Fits(c, c.pending)
  <2>1. f = c
    BY <1>1, <1>2 DEF ProcessPending
  <2> HIDE DEF f
  <2> QED BY <2>1 DEF f
<1>3. CASE c.registered # 0 /\ Fits(c, c.pending)
  <2>1. /\ c.registered = 1 /\ c.pending # None /\ n \in Nat
        /\ HeaderLength + n = c.pending
    BY <1>1, <1>3, LengthAssumption DEF None
  <2>2. f = UpdateInterests(g)
    BY <1>3, <2>1 DEF ProcessPending, NextPacket
  <2> HIDE DEF n, f
  <2>3. b \in FlowType /\ SameButLink(b, c)
    BY <1>1, <1>3, <2>1, PushSame
  <2> HIDE DEF b
  <2>4. Core(b) /\ b.registered = 1 /\ b.pending = c.pending /\ b.state # "Init"
    BY <1>1, <2>1, <2>3, CoreOfSame DEF SameButLink, Core, EarlyClean
  <2>5. b.registered - 1 \in Nat /\ b.sent + n \in Nat
    BY <2>1, <2>3, <2>4, FieldTypes
  <2>6. /\ e \in FlowType /\ e.registered = b.registered - 1 /\ e.pending = b.pending
        /\ e.state = b.state /\ e.closed = b.closed /\ e.seq = b.seq
        /\ e.deregs = b.deregs /\ e.ack = b.ack /\ e.synSeq = b.synSeq
        /\ e.written = b.written /\ e.fins = b.fins /\ e.finSeq = b.finSeq
        /\ e.panic = b.panic /\ e.routed = b.routed
    BY <2>3, <2>5, ZenonT(60) DEF FlowType
  <2> HIDE DEF e
  <2>7. Add(e.seq, e.pending) \in Numbers
    <3>1. e.seq \in Int /\ e.pending \in Int
      BY <1>1, <2>1, <2>3, <2>4, <2>6, FieldTypes, NumbersAreNat
    <3> QED BY <3>1, AddType
  <2>8. /\ g \in FlowType /\ g.registered = e.registered /\ g.pending = None
        /\ g.state = e.state /\ g.closed = e.closed
        /\ g.deregs = e.deregs /\ g.ack = e.ack /\ g.synSeq = e.synSeq
        /\ g.written = e.written /\ g.fins = e.fins /\ g.finSeq = e.finSeq
        /\ g.panic = e.panic /\ g.routed = e.routed
    BY <2>6, <2>7, ZenonT(60) DEF FlowType
  <2> HIDE DEF g
  <2>9. Core(g)
    BY <2>4, <2>6, <2>8
    DEF Core, AckExact, FinKnown, EarlyClean, RegisteredOnce, DeregisteredOnce
  <2>10. /\ g.closed = c.closed /\ g.state = c.state /\ g.routed = c.routed
         /\ g.panic = "none" /\ g.state # "Init"
    BY <2>3, <2>4, <2>6, <2>8 DEF SameButLink
  <2>11. CASE c.closed = FALSE
    <3>1. g.routed = TRUE /\ g.closed = FALSE /\ NoPendingPanic(g)
      BY <2>10, <2>11 DEF Settled, RoutedWhileOpen, NoPendingPanic
    <3>2. Settled(f) /\ f.state = g.state
      BY <2>2, <2>9, <2>10, <3>1, UpdateInterestsSettled
    <3>3. f.closed = g.closed /\ f.pending = g.pending
      BY <2>2, <2>8, <3>1, ZenonT(60) DEF UpdateInterests, FlowType
    <3> QED BY <2>8, <2>10, <3>2, <3>3 DEF f
  <2>12. CASE c.closed = TRUE
    <3> DEFINE x == [g EXCEPT !.panic = "interests of a closed flow"]
    <3>1. f = x
      BY <2>2, <2>10, <2>12 DEF UpdateInterests
    <3>2. "interests of a closed flow" \in Panics
      BY DEF Panics
    <3>3. /\ x \in FlowType /\ x.registered = g.registered /\ x.pending = g.pending
          /\ x.state = g.state /\ x.closed = g.closed
          /\ x.deregs = g.deregs /\ x.ack = g.ack /\ x.synSeq = g.synSeq
          /\ x.written = g.written /\ x.fins = g.fins /\ x.finSeq = g.finSeq
          /\ x.panic = "interests of a closed flow" /\ x.routed = g.routed
      BY <2>8, <3>2, ZenonT(60) DEF FlowType
    <3> HIDE DEF x
    <3>4. Core(x)
      BY <2>9, <3>3
      DEF Core, AckExact, FinKnown, EarlyClean, RegisteredOnce, DeregisteredOnce
    <3>5. Settled(x)
      BY <2>10, <3>3, <3>4
      DEF Settled, RoutedWhileOpen, Watched, QuietWhilePending, NoPendingPanic
    <3> QED BY <2>8, <2>10, <3>1, <3>3, <3>5 DEF f
  <2> QED BY <1>1, <2>11, <2>12
<1> QED BY <1>2, <1>3

\* Every packet a client may send is a segment, every answer of the socket one of
\* the answers the handlers know.
LEMMA EnvironmentTypes ==
    ASSUME NEW c \in FlowType
    PROVE  /\ Packets(c) \subseteq Segment
           /\ SocketAnswers(c) \subseteq Answer
<1>1. /\ c.ack \in Int /\ c.size \in Int /\ c.seq \in Int
  BY FieldTypes, NumbersAreNat, LengthAssumption
<1>2. ExpectedPacket(c) \in Numbers /\ Add(ExpectedPacket(c), -1) \in Numbers
  <2>1. ExpectedPacket(c) \in Numbers
    BY <1>1, AddType DEF ExpectedPacket
  <2>2. ExpectedPacket(c) \in Int /\ -1 \in Int
    BY <2>1, NumbersAreNat
  <2> QED BY <2>1, <2>2, AddType
<1>3. ASSUME NEW lag \in AckLags
      PROVE  Add(c.seq, -lag) \in Numbers
  <2>1. -lag \in Int
    BY NumberAssumption
  <2> QED BY <1>1, <2>1, AddType
<1>4. /\ ClientIsns \cup {ExpectedPacket(c), Add(ExpectedPacket(c), -1)} \subseteq Numbers
      /\ {Add(c.seq, -lag) : lag \in AckLags} \subseteq Numbers
      /\ Windows \subseteq Nat /\ 0 .. MaxSegment \subseteq Nat
  <2>1. ClientIsns \subseteq Numbers
    BY NumberAssumption DEF Numbers
  <2>2. ClientIsns \cup {ExpectedPacket(c), Add(ExpectedPacket(c), -1)} \subseteq Numbers
    BY <1>2, <2>1, Zenon
  <2>3. {Add(c.seq, -lag) : lag \in AckLags} \subseteq Numbers
    BY <1>3, Zenon
  <2>4. Windows \subseteq Nat /\ 0 .. MaxSegment \subseteq Nat
    BY NumberAssumption, LengthAssumption
  <2> QED BY <2>2, <2>3, <2>4
<1>5. Packets(c) \subseteq Segment
  BY <1>4, Zenon DEF Packets, Segment
<1>6. SocketAnswers(c) \subseteq Answer
  BY DEF SocketAnswers, Answer
<1> QED BY <1>5, <1>6

-------------------------------------------------------------------------------
(***************************************************************************)
(* The inductive invariant. The flow is settled, and readiness that poll    *)
(* returned earlier in the batch is still safe to use: it belongs to a flow *)
(* past its SYN, and it never says "readable" for a flow that holds a       *)
(* deferred packet. The last part is why the assertion of process_receive   *)
(* on a pending packet cannot fail although readiness is polled before the  *)
(* other handlers of the batch run.                                         *)
(***************************************************************************)
EventIsFresh ==
    flow.closed = FALSE =>
        /\ event # {} => flow.state # "Init"
        /\ (flow.panic = "none" /\ flow.pending # None) => "r" \notin event

LoopType == /\ event \in (SUBSET {"r", "w"}) \cup {{"hup"}}
            /\ client \in {"idle", "ready", "busy", "closed"}
            /\ loop \in {"poll", "run"}
            /\ due \in BOOLEAN
            /\ age \in 0 .. ConnectTimeout + 1
            /\ idle \in 0 .. IdleTimeout + 1

IndInv == LoopType /\ Settled(flow) /\ EventIsFresh

\* A new flow is settled.
LEMMA InitIndInv == Init => IndInv
<1> SUFFICES ASSUME Init PROVE IndInv
  OBVIOUS
<1>1. NewFlow \in FlowType
  <2>1. /\ "Init" \in States /\ 0 \in Numbers /\ "none" \in Panics /\ {} \in FlagSets
        /\ 0 \in 0 .. UpCapacity /\ 0 \in 0 .. LinkCapacity /\ 0 \in Nat
        /\ {"w"} \in SUBSET {"r", "w"}
    BY ModulusAssumption, LengthAssumption DEF States, Numbers, Panics, FlagSets
  <2> QED BY <2>1, ZenonT(60) DEF NewFlow, FlowType
<1> DEFINE d == NewFlow
<1>2. /\ d.state = "Init" /\ d.written = 0 /\ d.fins = 0 /\ d.pending = None
      /\ d.registered = 0 /\ d.deregs = 0 /\ d.closed = FALSE /\ d.finSeq = None
      /\ d.routed = FALSE /\ d.panic = "none"
  BY Zenon DEF NewFlow
<1> HIDE DEF d
<1>3. Core(d)
  BY <1>1, <1>2 DEF d, Core, AckExact, FinKnown, EarlyClean, RegisteredOnce,
                    DeregisteredOnce, FinSent
<1>4. Settled(d)
  BY <1>2, <1>3 DEF Settled, RoutedWhileOpen, Watched, QuietWhilePending, NoPendingPanic
<1>5. LoopType
  <2>1. age \in 0 .. ConnectTimeout + 1 /\ idle \in 0 .. IdleTimeout + 1
    BY TimeAssumption DEF Init
  <2>2. event \in (SUBSET {"r", "w"}) \cup {{"hup"}}
    BY Zenon DEF Init
  <2> QED BY <2>1, <2>2 DEF Init, LoopType
<1>6. EventIsFresh
  BY DEF Init, EventIsFresh
<1> QED BY <1>4, <1>5, <1>6 DEF Init, IndInv, d

\* Every step of the event loop keeps the invariant.
LEMMA NextIndInv == IndInv /\ [Next]_vars => IndInv'
<1> SUFFICES ASSUME IndInv, [Next]_vars PROVE IndInv'
  OBVIOUS
<1>1. /\ LoopType /\ Settled(flow) /\ EventIsFresh
      /\ flow \in FlowType /\ flow.closed \in BOOLEAN /\ flow.routed \in BOOLEAN
  BY FieldTypes DEF IndInv, Settled, Core
<1>2. ASSUME flow.routed = TRUE
      PROVE  flow.state # "Init" /\ flow.closed = FALSE
  BY <1>1, <1>2 DEF Settled, RoutedWhileOpen
<1>3. CASE Poll
  <2>1. LoopType'
    <3>1. flow.interests \in SUBSET {"r", "w"}
      BY <1>1, FieldTypes
    <3>2. event' \in (SUBSET {"r", "w"}) \cup {{"hup"}}
      BY <1>3, <3>1 DEF Poll
    <3> QED BY <1>1, <1>3, <3>2 DEF Poll, LoopType
  <2>2. EventIsFresh'
    <3> SUFFICES ASSUME flow.closed = FALSE
                 PROVE  /\ event' # {} => flow.state # "Init"
                        /\ (flow.panic = "none" /\ flow.pending # None) => "r" \notin event'
      BY <1>3 DEF Poll, EventIsFresh
    <3>1. event' # {} => flow.routed = TRUE
      BY <1>1, <1>3 DEF Poll, Polled
    <3>2. (flow.panic = "none" /\ flow.pending # None) => "r" \notin flow.interests
      BY <1>1 DEF Settled, QuietWhilePending
    <3>3. event' \subseteq flow.interests \/ event' = {"hup"}
      BY <1>3 DEF Poll
    <3>4. "r" \in event' => "r" \in flow.interests
      BY <3>3
    <3>5. event' # {} => flow.state # "Init"
      BY <1>2, <3>1
    <3> QED BY <3>2, <3>4, <3>5
  <2> QED BY <1>1, <1>3, <2>1, <2>2 DEF Poll, IndInv
<1>4. CASE CleanUp
  <2>1. LoopType'
    BY <1>1, <1>4 DEF CleanUp, LoopType
  <2>2. CASE flow.routed = TRUE /\ IsExpired(flow)
    <3>1. flow' = Unroute(Close(IF ~flow.closed /\ flow.state \in Handshake
                                THEN Reply(flow, {"RST"}) ELSE flow))
      BY <1>4, <2>2 DEF CleanUp, Expire
    <3>2. (~flow.closed /\ flow.state \in Handshake) \in BOOLEAN
      OBVIOUS
    <3>3. Settled(flow') /\ flow'.closed = TRUE
      BY <1>1, <1>2, <2>2, <3>1, <3>2, GiveUpSettled
    <3> QED BY <2>1, <3>3 DEF IndInv, EventIsFresh, Settled
  <2>3. CASE ~(flow.routed = TRUE /\ IsExpired(flow))
    <3>1. flow' = flow /\ event' = event
      BY <1>1, <1>4, <2>3 DEF CleanUp
    <3> QED BY <1>1, <2>1, <3>1 DEF IndInv, EventIsFresh
  <2> QED BY <2>2, <2>3
<1>5. CASE OnReady
  <2>1. LoopType' /\ event' = {}
    BY <1>1, <1>5, TimeAssumption DEF OnReady, LoopType
  <2>2. PICK o \in SocketAnswers(flow) : flow' = Process(flow, event, o)
    BY <1>5 DEF OnReady
  <2>3. o \in Answer
    BY <1>1, EnvironmentTypes
  <2>4. flow.panic = "none" /\ event # {}
    BY <1>5 DEF OnReady, Running, Alive
  <2>5. Settled(flow')
    BY <1>1, <2>2, <2>3, <2>4, ProcessSettled DEF EventIsFresh
  <2> QED BY <2>1, <2>5 DEF IndInv, EventIsFresh
<1>6. CASE ClientSend
  <2>1. LoopType' /\ event' = event
    BY <1>1, <1>6 DEF ClientSend, LoopType
  <2>2. CASE flow' = flow
    BY <1>1, <2>1, <2>2 DEF IndInv, EventIsFresh
  <2>3. ASSUME NEW w \in 1 .. flow.used,
               flow' = ProcessPending([flow EXCEPT !.used = @ - w])
        PROVE  IndInv'
    <3> DEFINE d == [flow EXCEPT !.used = @ - w]
    <3>1. flow.used - w \in 0 .. LinkCapacity
      BY <1>1, FieldTypes, LengthAssumption
    <3>2. d \in FlowType /\ SameButLink(d, flow)
      BY <1>1, <3>1, ZenonT(60) DEF FlowType, SameButLink
    <3>3. flow' = ProcessPending(d) /\ flow.panic = "none"
      BY <1>6, <2>3 DEF ClientSend, Running, Alive
    <3> HIDE DEF d
    <3>4. Settled(d) /\ d.panic = "none"
      BY <1>1, <3>2, <3>3, SettledOfSame DEF SameButLink
    <3>5. /\ Settled(flow') /\ flow'.closed = d.closed /\ flow'.state = d.state
          /\ flow'.pending # None => flow'.pending = d.pending
      BY <3>3, <3>4, ProcessPendingSettled
    <3>6. EventIsFresh'
      BY <1>1, <2>1, <3>2, <3>3, <3>5 DEF EventIsFresh, SameButLink
    <3> QED BY <2>1, <3>5, <3>6 DEF IndInv
  <2> QED BY <1>6, <2>2, <2>3 DEF ClientSend
<1>7. CASE ClientPacket
  <2>1. LoopType' /\ event' = event
    BY <1>1, <1>7, TimeAssumption DEF ClientPacket, LoopType
  <2>2. PICK p \in Packets(flow), isn \in RelayIsns : flow' = SendToNetwork(flow, p, isn)
    BY <1>7 DEF ClientPacket
  <2>3. p \in Segment /\ isn \in Numbers
    BY <1>1, EnvironmentTypes, NumberAssumption DEF Numbers
  <2>4. flow.closed = FALSE /\ flow.panic = "none"
    BY <1>1, <1>2, <1>7 DEF ClientPacket, Running, Alive
  <2>5. /\ Settled(flow') /\ flow'.pending = flow.pending
        /\ flow'.closed = FALSE => flow'.state # "Init"
    BY <1>1, <2>2, <2>3, <2>4, SendToNetworkSettled
  <2>6. EventIsFresh'
    BY <1>1, <2>1, <2>4, <2>5 DEF EventIsFresh
  <2> QED BY <2>1, <2>5, <2>6 DEF IndInv
<1>8. CASE ClientDone
  <2>1. LoopType' /\ flow' = flow /\ event' = event
    BY <1>1, <1>8 DEF ClientDone, LoopType
  <2> QED BY <1>1, <2>1 DEF IndInv, EventIsFresh
<1>9. CASE ClientClose
  <2>1. LoopType' /\ event' = event
    BY <1>1, <1>9 DEF ClientClose, LoopType
  <2>2. CASE flow.routed = TRUE
    <3>1. flow' = Unroute(Close(IF FALSE THEN Reply(flow, {"RST"}) ELSE flow))
      BY <1>9, <2>2 DEF ClientClose
    <3>2. Settled(flow') /\ flow'.closed = TRUE
      BY <1>1, <1>2, <2>2, <3>1, GiveUpSettled
    <3> QED BY <2>1, <3>2 DEF IndInv, EventIsFresh, Settled
  <2>3. CASE flow.routed = FALSE
    <3>1. flow' = flow
      BY <1>9, <2>3 DEF ClientClose
    <3> QED BY <1>1, <2>1, <3>1 DEF IndInv, EventIsFresh
  <2> QED BY <1>1, <2>2, <2>3
<1>10. CASE OtherFlows
  <2>1. LoopType' /\ event' = event
    BY <1>1, <1>10 DEF OtherFlows, LoopType
  <2>2. PICK n \in 1 .. LinkCapacity - flow.used : flow' = [flow EXCEPT !.used = @ + n]
    BY <1>10 DEF OtherFlows
  <2>3. flow.used + n \in 0 .. LinkCapacity
    BY <1>1, FieldTypes, LengthAssumption
  <2>4. flow' \in FlowType /\ SameButLink(flow', flow)
    BY <1>1, <2>2, <2>3, ZenonT(60) DEF FlowType, SameButLink
  <2>5. Settled(flow')
    BY <1>1, <2>4, SettledOfSame
  <2>6. EventIsFresh'
    BY <1>1, <2>1, <2>4 DEF EventIsFresh, SameButLink
  <2> QED BY <2>1, <2>5, <2>6 DEF IndInv
<1>11. CASE EndBatch
  <2>1. LoopType' /\ flow' = flow /\ event' = event
    BY <1>1, <1>11 DEF EndBatch, LoopType
  <2> QED BY <1>1, <2>1 DEF IndInv, EventIsFresh
<1>12. CASE Tick
  <2>1. LoopType' /\ flow' = flow /\ event' = event
    BY <1>1, <1>12, TimeAssumption DEF Tick, LoopType, Min
  <2> QED BY <1>1, <2>1 DEF IndInv, EventIsFresh
<1>13. CASE UNCHANGED vars
  <2>1. LoopType' /\ flow' = flow /\ event' = event
    BY <1>1, <1>13 DEF vars, LoopType
  <2> QED BY <1>1, <2>1 DEF IndInv, EventIsFresh
<1> QED BY <1>3, <1>4, <1>5, <1>6, <1>7, <1>8, <1>9, <1>10, <1>11, <1>12, <1>13 DEF Next

\* IndInv holds in every reachable state.
THEOREM Invariance == Spec => []IndInv
BY InitIndInv, NextIndInv, PTL DEF Spec

\* Every reachable state is well typed, whatever the constants: sequence numbers
\* stay below the modulus, client_to_network and the client's link within their
\* capacities, although each handler adds to them before it checks the rest.
THEOREM TypeCorrect == Spec => []TypeOK
<1>1. IndInv => TypeOK
  BY DEF IndInv, Settled, Core, LoopType, TypeOK
<1> QED BY <1>1, Invariance, PTL

\* The relay acknowledges exactly what the network socket accepted, for any
\* modulus, any buffer size and any client.
THEOREM AckExactness == Spec => []AckCountsWrittenBytes
<1>1. IndInv => AckCountsWrittenBytes
  BY DEF IndInv, Settled, Core, AckExact, AckCountsWrittenBytes
<1> QED BY <1>1, Invariance, PTL

\* No handler leaves a flow in the router without the readiness it waits for.
THEOREM WakeupSafety == Spec => []NoLostWakeup
<1>1. IndInv => NoLostWakeup
  BY DEF IndInv, Settled, Watched, NoLostWakeup, Alive
<1> QED BY <1>1, Invariance, PTL

\* A deferred packet is registered with the client exactly once, and neither
\* assertion on it fails.
THEOREM PendingRegistration == Spec => []PendingRegisteredOnce
<1>1. IndInv => PendingRegisteredOnce
  BY DEF IndInv, Settled, Core, RegisteredOnce, NoPendingPanic, PendingRegisteredOnce
<1> QED BY <1>1, Invariance, PTL

\* A flow is deregistered once and leaves the router with it.
THEOREM CloseDiscipline == Spec => []ClosedOnceAndUnrouted
<1>1. IndInv => ClosedOnceAndUnrouted
  <2> SUFFICES ASSUME IndInv PROVE ClosedOnceAndUnrouted
    OBVIOUS
  <2>1. flow.closed \in BOOLEAN /\ flow.routed \in BOOLEAN
    BY FieldTypes DEF IndInv, Settled, Core
  <2> QED BY <2>1 DEF IndInv, Settled, Core, DeregisteredOnce, RoutedWhileOpen,
                      ClosedOnceAndUnrouted
<1> QED BY <1>1, Invariance, PTL

-------------------------------------------------------------------------------
(***************************************************************************)
(* A half-open flow is refused with a RST. It would close silently only if  *)
(* process_send meets an empty buffer or process_receive does not read an   *)
(* error; QuietHandshake says why neither happens: readiness asked for or   *)
(* polled during the handshake is never "readable", and after the backend   *)
(* connected it is "writable" only for a flow that has something to write.  *)
(***************************************************************************)
QuietHandshake(c, ready) ==
    (c.panic = "none" /\ c.closed = FALSE /\ c.state \in Handshake)
        => /\ "r" \notin ready
           /\ (c.state = "SynReceived" /\ "w" \in ready) => c.size # 0

\* From c to d a handshake neither began nor went on, and no byte was written.
Steady(d, c) == d.state \in Handshake => d.state = c.state /\ (c.size # 0 => d.size # 0)

\* A packet to the client carries the flags it was built with, and is on the link
\* afterwards if the link had room for it.
LEMMA ReplyFlags ==
    ASSUME NEW c \in FlowType, NEW flags \in FlagSets
    PROVE  /\ Reply(c, flags).header.flags = flags
           /\ Fits(c, HeaderLength) => Reply(c, flags).used = c.used + HeaderLength
<1> DEFINE e == UpdateHeaders(c, flags)
           d == Build(e, 0)
<1>1. /\ e \in FlowType /\ e.used = c.used
      /\ d \in FlowType /\ d.used = e.used
  BY HeadersSame, LengthAssumption
<1>2. e.header.flags = flags
  BY ZenonT(60) DEF UpdateHeaders, FlowType
<1>3. HeaderLength + 0 \in Nat
  BY LengthAssumption
<1>4. Reply(c, flags) = IF Fits(d, HeaderLength) THEN Push(d, 0) ELSE d
  BY DEF Reply
<1> HIDE DEF e
<1>5. d.header.flags = e.header.flags
  BY <1>1, ZenonT(60) DEF Build, FlowType
<1> HIDE DEF d
<1>6. Push(d, 0).header = d.header /\ Push(d, 0).used = d.used + HeaderLength + 0
  BY <1>1, ZenonT(60) DEF Push, FlowType
<1>7. d.used + HeaderLength + 0 = c.used + HeaderLength
  BY <1>1, FieldTypes, LengthAssumption
<1>8. Fits(c, HeaderLength) => Fits(d, HeaderLength)
  BY <1>1 DEF Fits
<1> QED BY <1>2, <1>4, <1>5, <1>6, <1>7, <1>8

\* close() and the removal from the router leave the header and the link alone.
LEMMA CloseSame ==
    ASSUME NEW c \in FlowType
    PROVE  /\ Close(c).header = c.header /\ Close(c).size = c.size
           /\ Close(c).state = c.state
           /\ Close(c).used = c.used /\ Unroute(c).used = c.used
           /\ Unroute(c).header = c.header /\ Unroute(c).routed = FALSE
BY ZenonT(60) DEF Close, Unroute, FlowType

\* A refusal ends with a RST.
LEMMA RefuseFlags ==
    ASSUME NEW c, Core(c), c.closed = FALSE
    PROVE  /\ Refused(Close(Reply(c, {"RST"})), c)
           /\ Refused(Unroute(Close(Reply(c, {"RST"}))), c)
<1> DEFINE r == Reply(c, {"RST"})
           d == Close(r)
<1>1. c \in FlowType /\ {"RST"} \in FlagSets
  BY DEF Core, FlagSets
<1>2. r \in FlowType /\ Refused(r, c)
  BY <1>1, ReplySame, ReplyFlags DEF Refused
<1> HIDE DEF r
<1>3. d.header = r.header /\ d.used = r.used
  BY <1>2, CloseSame
<1>4. Core(d)
  BY RefuseCore DEF r
<1> HIDE DEF d
<1>5. Unroute(d).header = d.header /\ Unroute(d).used = d.used
  BY <1>4, CloseSame DEF Core
<1> QED BY <1>2, <1>3, <1>5 DEF d, r, Refused

\* update_interests asks a half-open flow for "readable" never, and for "writable"
\* after the backend connected only with bytes to write.
LEMMA UpdateInterestsQuiet ==
    ASSUME NEW c \in FlowType, c.closed = FALSE
    PROVE  LET d == UpdateInterests(c) IN
           /\ QuietHandshake(d, d.interests)
           /\ d.state = c.state /\ d.size = c.size /\ d.routed = c.routed
           /\ d.closed = FALSE /\ d.panic = c.panic
<1> DEFINE w == WantedInterests(c)
           d == [c EXCEPT !.interests = w]
<1>1. UpdateInterests(c) = d
  BY DEF UpdateInterests
<1>2. c.state \in Handshake => "r" \notin w
  BY DEF WantedInterests, MayRead
<1>3. c.state = "SynReceived" /\ "w" \in w => c.size # 0
  <2>1. c.size \in Int
    BY FieldTypes, LengthAssumption
  <2> QED BY <2>1 DEF WantedInterests, MayWrite
<1> HIDE DEF w
<1>4. /\ d.interests = w /\ d.state = c.state /\ d.size = c.size /\ d.routed = c.routed
      /\ d.closed = c.closed /\ d.panic = c.panic
  BY ZenonT(60) DEF FlowType
<1> HIDE DEF d
<1> QED BY <1>1, <1>2, <1>3, <1>4 DEF QuietHandshake

\* do_handle_fin: FINs count, and leave a handshake as it is.
LEMMA DoHandleFinSteady ==
    ASSUME NEW c, Core(c), c.closed = FALSE
    PROVE  LET d == DoHandleFin(c) IN
           /\ Steady(d, c)
           /\ c.state \in Handshake => d.closed = FALSE
<1> DEFINE e == [c EXCEPT !.ack = Add(@, 1), !.fins = @ + 1]
           x == [Reply(e, {"FIN", "ACK"}) EXCEPT !.finSeq = e.seq, !.seq = Add(e.seq, 1),
                                                 !.state = "LastAck"]
           y == [Reply(e, {"ACK"}) EXCEPT !.state = "Closing"]
           z == Reply(e, {"ACK"})
<1>1. /\ e \in FlowType /\ e.state = c.state /\ e.closed = c.closed /\ e.size = c.size
  BY CountFin
<1>2. DoHandleFin(c) = CASE e.state = "Established" -> x
                         [] e.state = "FinWait1" -> y
                         [] e.state = "FinWait2" -> Close(z)
                         [] OTHER -> e
  BY DEF DoHandleFin
<1> HIDE DEF e
<1>3. {"FIN", "ACK"} \in FlagSets /\ {"ACK"} \in FlagSets
  BY DEF FlagSets
<1>4. /\ Reply(e, {"FIN", "ACK"}) \in FlowType
      /\ z \in FlowType /\ SameButLink(z, e)
  BY <1>1, <1>3, ReplySame
<1>5. x.state = "LastAck"
  BY <1>4, ZenonT(60) DEF FlowType
<1>6. y.state = "Closing"
  BY <1>4, ZenonT(60) DEF FlowType
<1>7. Close(z).state = e.state
  BY <1>4, CloseSame DEF SameButLink
<1> HIDE DEF x, y, z
<1>8. CASE e.state \in {"Established", "FinWait1", "FinWait2"}
  BY <1>1, <1>2, <1>5, <1>6, <1>7, <1>8 DEF Steady, Handshake
<1>9. CASE e.state \notin {"Established", "FinWait1", "FinWait2"}
  <2>1. DoHandleFin(c) = e
    BY <1>2, <1>9
  <2> QED BY <1>1, <2>1 DEF Steady
<1> QED BY <1>8, <1>9

-------------------------------------------------------------------------------
(* Packets of the client during a handshake. *)

\* handle_ack ends a handshake or stores a payload.
LEMMA HandleAckSteady ==
    ASSUME NEW c, Core(c), NEW p, p.length \in Nat
    PROVE  Steady(HandleAck(c, p), c)
<1>1. c \in FlowType /\ c.size \in Nat
  BY FieldTypes, LengthAssumption DEF Core
<1>2. CASE c.state = "SynReceived"
  <2>1. HandleAck(c, p) = [c EXCEPT !.state = "Established"]
    BY <1>2 DEF HandleAck
  <2>2. [c EXCEPT !.state = "Established"].state = "Established"
    BY <1>1, ZenonT(60) DEF FlowType
  <2> QED BY <2>1, <2>2 DEF Steady, Handshake
<1>3. CASE c.state # "SynReceived" /\ UpCapacity - c.size < p.length
  BY <1>3 DEF HandleAck, Steady
<1>4. CASE c.state # "SynReceived" /\ ~(UpCapacity - c.size < p.length)
  <2> DEFINE n == c.size + p.length
             d == [c EXCEPT !.size = n]
  <2>1. HandleAck(c, p) = d
    BY <1>4 DEF HandleAck
  <2>2. c.size # 0 => n # 0
    BY <1>1
  <2> HIDE DEF n
  <2>3. d.state = c.state /\ d.size = n
    BY <1>1, ZenonT(60) DEF FlowType
  <2> QED BY <2>1, <2>2, <2>3 DEF Steady
<1> QED BY <1>2, <1>3, <1>4

\* handle_fin remembers the FIN, or acts on it.
LEMMA HandleFinSteady ==
    ASSUME NEW c, Core(c), c.closed = FALSE, c.state # "Init",
           NEW p, p.seq \in Numbers, p.length \in Nat
    PROVE  Steady(HandleFin(c, p), c)
<1> DEFINE e == [c EXCEPT !.finReceived = TRUE, !.finPos = Add(p.seq, p.length)]
<1>0. p.seq \in Int /\ p.length \in Int
  BY NumbersAreNat
<1>1. c \in FlowType /\ Add(p.seq, p.length) \in Numbers
  BY <1>0, AddType DEF Core
<1>2. /\ e \in FlowType /\ SameShell(e, c) /\ e.size = c.size /\ e.closed = c.closed
      /\ e.state = c.state /\ e.finSeq = c.finSeq /\ e.deregs = c.deregs
      /\ e.ack = c.ack /\ e.synSeq = c.synSeq /\ e.written = c.written
      /\ e.fins = c.fins /\ e.registered = c.registered
  BY <1>1, ZenonT(60) DEF FlowType, SameShell
<1>3. HandleFin(c, p) = IF e.size = 0 THEN DoHandleFin(e) ELSE e
  BY DEF HandleFin
<1> HIDE DEF e
<1>4. Core(e)
  BY <1>2 DEF Core, SameShell, AckExact, FinKnown, EarlyClean, RegisteredOnce, DeregisteredOnce
<1>5. Steady(DoHandleFin(e), e)
  BY <1>2, <1>4, DoHandleFinSteady
<1> QED BY <1>2, <1>3, <1>5 DEF Steady

\* handle_fin_ack acts only on a flow that has sent its FIN.
LEMMA HandleFinAckSteady ==
    ASSUME NEW c \in FlowType
    PROVE  Steady(HandleFinAck(c), c)
<1>1. Close(c).state = c.state /\ Close(c).size = c.size
  BY CloseSame
<1>2. [c EXCEPT !.state = "FinWait2"].state = "FinWait2"
  BY ZenonT(60) DEF FlowType
<1> QED BY <1>1, <1>2 DEF HandleFinAck, Steady, Handshake

\* handle_duplicate_syn leaves the handshake where it is.
LEMMA HandleDuplicateSynSteady ==
    ASSUME NEW c, Core(c), NEW p
    PROVE  Steady(HandleDuplicateSyn(c, p), c)
<1> DEFINE d == [c EXCEPT !.synSeq = p.seq, !.ack = Add(p.seq, 1), !.fins = 0]
           r == Reply(c, {"RST"})
<1>1. c \in FlowType
  BY DEF Core
<1>2. d.state = c.state /\ d.size = c.size
  BY <1>1, ZenonT(60) DEF FlowType
<1>3. r \in FlowType /\ SameButLink(r, c)
  BY <1>1, ReplySame DEF FlagSets
<1>4. HandleDuplicateSyn(c, p) \in {c, d, Close(r)}
  BY DEF HandleDuplicateSyn
<1> HIDE DEF d, r
<1>5. Close(r).state = c.state /\ Close(r).size = c.size
  BY <1>3, CloseSame DEF SameButLink
<1> QED BY <1>2, <1>4, <1>5 DEF Steady

\* handle_packet once the sequence number is the expected one.
LEMMA HandleExpectedPacketSteady ==
    ASSUME NEW c, Core(c), c.closed = FALSE, c.state # "Init", NEW p \in Segment
    PROVE  Steady(HandleExpectedPacket(c, p), c)
<1> DEFINE d == [c EXCEPT !.window = p.window, !.theirAck = p.ack]
           e == IF "ACK" \in p.flags THEN HandleAck(d, p) ELSE d
           f == IF "FIN" \in p.flags THEN HandleFin(e, p) ELSE e
<1>1. c \in FlowType /\ p.window \in Nat /\ p.ack \in Numbers /\ p.seq \in Numbers
      /\ p.length \in Nat
  BY DEF Core, Segment
<1>2. /\ d \in FlowType /\ SameShell(d, c) /\ d.closed = c.closed
      /\ d.state = c.state /\ d.finSeq = c.finSeq /\ d.deregs = c.deregs
      /\ d.ack = c.ack /\ d.synSeq = c.synSeq /\ d.written = c.written
      /\ d.fins = c.fins /\ d.registered = c.registered /\ d.size = c.size
  BY <1>1, ZenonT(60) DEF FlowType, SameShell
<1>3. HandleExpectedPacket(c, p) \in {Close(d), HandleFinAck(f), f}
  BY DEF HandleExpectedPacket
<1> HIDE DEF d
<1>4. Core(d) /\ d.closed = FALSE /\ d.state # "Init"
  BY <1>2 DEF Core, SameShell, AckExact, FinKnown, EarlyClean, RegisteredOnce, DeregisteredOnce
<1>5. Core(e) /\ e.closed = FALSE /\ e.state # "Init" /\ Steady(e, d)
  <2>1. CASE "ACK" \in p.flags
    BY <1>1, <1>4, <2>1, HandleAckCore, HandleAckSteady
  <2>2. CASE "ACK" \notin p.flags
    BY <1>4, <2>2 DEF Steady
  <2> QED BY <2>1, <2>2
<1> HIDE DEF e
<1>6. Core(f) /\ Steady(f, e)
  <2>1. CASE "FIN" \in p.flags
    BY <1>1, <1>5, <2>1, HandleFinCore, HandleFinSteady
  <2>2. CASE "FIN" \notin p.flags
    BY <1>5, <2>2 DEF Steady
  <2> QED BY <2>1, <2>2
<1> HIDE DEF f
<1>7. Steady(f, c)
  BY <1>2, <1>5, <1>6 DEF Steady
<1>8. Steady(HandleFinAck(f), f)
  BY <1>6, HandleFinAckSteady DEF Core
<1>9. Steady(HandleFinAck(f), c)
  BY <1>7, <1>8 DEF Steady
<1>10. Steady(Close(d), c)
  BY <1>2, CloseSame DEF Steady
<1> QED BY <1>3, <1>7, <1>9, <1>10

\* No packet of the client begins or advances a handshake once its SYN arrived.
LEMMA HandlePacketSteady ==
    ASSUME NEW c, Core(c), c.closed = FALSE, c.state # "Init", NEW p \in Segment, NEW isn
    PROVE  Steady(HandlePacket(c, p, isn), c)
<1>1. HandlePacket(c, p, isn) \in {HandleDuplicateSyn(c, p), c, HandleExpectedPacket(c, p)}
  BY DEF HandlePacket
<1>2. Steady(c, c)
  BY DEF Steady
<1> QED BY <1>1, <1>2, HandleDuplicateSynSteady, HandleExpectedPacketSteady

\* The router hands a client packet to the flow: what it asks for is quiet, and
\* readiness polled before the packet stays quiet.
LEMMA SendToNetworkQuiet ==
    ASSUME NEW c, Settled(c), c.closed = FALSE, c.panic = "none",
           NEW p \in Segment, NEW isn \in Numbers
    PROVE  LET f == SendToNetwork(c, p, isn) IN
           /\ QuietHandshake(f, f.interests)
           /\ \A ev : (c.state # "Init" /\ QuietHandshake(c, ev)) => QuietHandshake(f, ev)
<1> DEFINE e == [c EXCEPT !.routed = TRUE]
           d == HandlePacket(e, p, isn)
           f == SendToNetwork(c, p, isn)
<1>1. c \in FlowType
  BY DEF Settled, Core
<1>2. /\ e \in FlowType /\ e.routed = TRUE /\ e.state = c.state /\ e.closed = c.closed
      /\ e.deregs = c.deregs /\ e.ack = c.ack /\ e.synSeq = c.synSeq
      /\ e.written = c.written /\ e.fins = c.fins /\ e.finSeq = c.finSeq
      /\ e.pending = c.pending /\ e.registered = c.registered /\ e.panic = c.panic
      /\ e.size = c.size
  BY <1>1, ZenonT(60) DEF FlowType
<1>3. f = IF d.closed THEN Unroute(d) ELSE UpdateInterests(d)
  BY DEF SendToNetwork
<1> HIDE DEF e, f
<1>4. Core(e)
  BY <1>2 DEF Settled, Core, AckExact, FinKnown, EarlyClean, RegisteredOnce, DeregisteredOnce
<1>5. Core(d)
  BY <1>2, <1>4, HandlePacketCore
<1>6. c.state # "Init" => Steady(d, c)
  <2>1. c.state # "Init" => Steady(d, e)
    BY <1>2, <1>4, HandlePacketSteady
  <2> HIDE DEF d
  <2> QED BY <1>2, <2>1 DEF Steady
<1> HIDE DEF d
<1>7. d.closed \in BOOLEAN /\ d \in FlowType
  BY <1>5, FieldTypes DEF Core
<1>8. CASE d.closed = TRUE
  <2>1. Unroute(d).closed = d.closed
    BY <1>7, ZenonT(60) DEF Unroute, FlowType
  <2>2. f.closed = TRUE
    BY <1>3, <1>8, <2>1
  <2> QED BY <2>2 DEF QuietHandshake, f
<1>9. CASE d.closed = FALSE
  <2>1. f = UpdateInterests(d)
    BY <1>3, <1>9
  <2>2. QuietHandshake(f, f.interests) /\ f.state = d.state /\ f.size = d.size
    BY <1>7, <1>9, <2>1, UpdateInterestsQuiet
  <2>3. ASSUME NEW ev, c.state # "Init", QuietHandshake(c, ev)
        PROVE  QuietHandshake(f, ev)
    <3>1. f.state \in Handshake => f.state = c.state /\ (c.size # 0 => f.size # 0)
      BY <1>6, <2>2, <2>3 DEF Steady
    <3> QED BY <2>3, <3>1 DEF QuietHandshake
  <2> QED BY <2>2, <2>3 DEF f
<1> QED BY <1>7, <1>8, <1>9

-------------------------------------------------------------------------------
(* The flow's own socket during a handshake. *)

\* process_connect closes a flow with a RST only.
LEMMA ConnectRefused ==
    ASSUME NEW c, Core(c), c.closed = FALSE, NEW o \in Answer,
           ProcessConnect(c, o).closed = TRUE
    PROVE  Refused(ProcessConnect(c, o), c)
<1>1. CASE o.write = "error"
  <2>1. ProcessConnect(c, o) = Close(Reply(c, {"RST"}))
    BY <1>1 DEF ProcessConnect
  <2> QED BY <2>1, RefuseFlags
<1>2. CASE o.write # "error"
  <2> DEFINE e == [c EXCEPT !.state = "SynReceived"]
             r == Reply(e, {"SYN", "ACK"})
             f == [r EXCEPT !.seq = Add(e.seq, 1)]
  <2>1. ProcessConnect(c, o) = f
    BY <1>2 DEF ProcessConnect
  <2>2. c \in FlowType /\ "SynReceived" \in States /\ {"SYN", "ACK"} \in FlagSets
    BY DEF Core, States, Handshake, FlagSets
  <2>3. e \in FlowType /\ e.closed = FALSE
    BY <2>2, ZenonT(60) DEF FlowType
  <2> HIDE DEF e
  <2>4. r \in FlowType /\ r.closed = FALSE
    BY <2>2, <2>3, ReplySame DEF SameButLink
  <2> HIDE DEF r
  <2>5. f.closed = r.closed
    BY <2>4, ZenonT(60) DEF FlowType
  <2> QED BY <2>1, <2>4, <2>5
<1> QED BY <1>1, <1>2

\* process_send never puts a flow into a handshake, and closes a half-open flow that
\* has something to write with a RST only.
LEMMA SendRefused ==
    ASSUME NEW c, Core(c), c.closed = FALSE, c.state \notin {"Init", "SynSent"},
           NEW o \in Answer
    PROVE  LET d == ProcessSend(c, o) IN
           /\ d.state \in Handshake => c.state \in Handshake
           /\ (c.state \in Handshake /\ c.size # 0 /\ d.closed = TRUE)
                  => Refused(d, c)
<1> DEFINE w == Min(o.taken, c.size)
           e == [c EXCEPT !.ack = Add(@, w), !.size = @ - w, !.written = @ + w]
           d == ProcessSend(c, o)
           r == Close(Reply(c, {"RST"}))
<1>1. c \in FlowType /\ c.size \in 0 .. UpCapacity /\ o.taken \in 1 .. UpCapacity
  BY FieldTypes DEF Core, Answer
<1>2. d = IF c.size = 0 THEN Close(c)
          ELSE IF o.write = "error" THEN r
          ELSE IF e.finReceived /\ e.size = 0 THEN DoHandleFin(e)
          ELSE Reply(e, {"ACK"})
  BY DEF ProcessSend
<1>3. r.state = c.state /\ Refused(r, c)
  BY RefuseCore, RefuseFlags
<1> HIDE DEF d, r
<1>4. CASE c.size = 0
  <2>1. d.state = c.state
    BY <1>1, <1>2, <1>4, CloseSame
  <2> QED BY <1>4, <2>1 DEF d
<1>5. CASE c.size # 0 /\ o.write = "error"
  <2>1. d = r
    BY <1>2, <1>5
  <2> QED BY <1>3, <2>1 DEF d
<1>6. CASE c.size # 0 /\ o.write # "error"
  <2>1. w \in 1 .. c.size
    BY <1>1, <1>6 DEF Min
  <2> HIDE DEF w
  <2>2. Core(e) /\ e.state = c.state /\ e.closed = FALSE
    BY <2>1, WriteCore
  <2> HIDE DEF e
  <2>3. /\ Steady(DoHandleFin(e), e)
        /\ e.state \in Handshake => DoHandleFin(e).closed = FALSE
    BY <2>2, DoHandleFinSteady
  <2>4. Reply(e, {"ACK"}).state = e.state /\ Reply(e, {"ACK"}).closed = FALSE
    BY <2>2, ReplySame DEF Core, FlagSets, SameButLink
  <2>5. d \in {DoHandleFin(e), Reply(e, {"ACK"})}
    BY <1>2, <1>6
  <2> QED BY <2>2, <2>3, <2>4, <2>5 DEF Steady, d
<1> QED BY <1>4, <1>5, <1>6

\* process for quiet readiness of an open flow asks for quiet readiness again, and
\* takes a half-open flow out of the router with a RST only.
LEMMA ReadyQuiet ==
    ASSUME NEW c, Settled(c), c.closed = FALSE, c.panic = "none", c.state # "Init",
           NEW ev, "r" \in ev => c.pending = None, NEW o \in Answer,
           QuietHandshake(c, ev), QuietHandshake(c, c.interests)
    PROVE  LET f == ProcessReady(c, ev, o) IN
           /\ QuietHandshake(f, f.interests)
           /\ (c.state \in Handshake /\ f.routed = FALSE) => Refused(f, c)
<1> DEFINE d == IF "w" \notin ev THEN c
                ELSE IF c.state = "SynSent" THEN ProcessConnect(c, o)
                ELSE ProcessSend(c, o)
           receives == ~d.closed /\ "r" \in ev
           e == IF receives THEN ProcessReceive(d, o) ELSE d
           f == ProcessReady(c, ev, o)
<1>1. Core(c) /\ c.routed = TRUE
  BY DEF Settled, RoutedWhileOpen
<1>2. /\ Core(d) /\ d.state # "Init" /\ d.panic = "none" /\ d.routed = TRUE
      /\ d.pending = c.pending
      /\ d.closed = FALSE => d.interests = c.interests
  BY <1>1, WritableCore
<1>3. c.state \notin Handshake => d.state \notin Handshake
  <2>1. ASSUME c.state \notin Handshake, "w" \in ev
        PROVE  d = ProcessSend(c, o) /\ d.state \notin Handshake
    BY <1>1, <2>1, SendRefused DEF Handshake
  <2> HIDE DEF d
  <2>2. "w" \notin ev => d = c
    BY DEF d
  <2> QED BY <2>1, <2>2
<1>4. (c.state \in Handshake /\ d.closed = TRUE) => Refused(d, c)
  <2> SUFFICES ASSUME c.state \in Handshake, d.closed = TRUE
               PROVE  Refused(d, c)
    OBVIOUS
  <2>1. "w" \in ev
    OBVIOUS
  <2>2. CASE c.state = "SynSent"
    <3>1. d = ProcessConnect(c, o)
      BY <2>1, <2>2
    <3> HIDE DEF d
    <3> QED BY <1>1, <3>1, ConnectRefused
  <2>3. CASE c.state = "SynReceived"
    <3>1. d = ProcessSend(c, o) /\ c.size # 0
      BY <2>1, <2>3 DEF QuietHandshake
    <3> HIDE DEF d
    <3> QED BY <1>1, <2>3, <3>1, SendRefused
  <2> QED BY <2>2, <2>3 DEF Handshake
<1>5. f = IF "w" \in ev /\ c.state # "SynSent" /\ c.size > 0 /\ o.write = "block" THEN c
          ELSE IF e.panic # "none" \/ (receives /\ o.read = "block") THEN e
          ELSE IF e.closed THEN Unroute(e)
          ELSE UpdateInterests(e)
  BY DEF ProcessReady
<1> HIDE DEF d, f
<1>6. d.closed \in BOOLEAN
  BY <1>2, FieldTypes DEF Core
<1>7. /\ receives => c.state \notin Handshake /\ d.closed = FALSE
      /\ ~receives => e = d
  BY <1>6 DEF QuietHandshake
<1>8. /\ Core(e) /\ e.routed = TRUE
      /\ (receives /\ o.read = "block" /\ e.panic = "none") => SameButLink(e, d)
  <2>1. CASE receives
    <3>1. e = ProcessReceive(d, o) /\ d.closed = FALSE /\ d.pending = None
      BY <1>2, <1>6, <2>1
    <3> HIDE DEF e, receives
    <3>2. /\ Core(e) /\ e.routed = d.routed
          /\ (o.read = "block" /\ e.panic = "none") => SameButLink(e, d)
      BY <1>2, <3>1, ProcessReceiveCore
    <3> QED BY <1>2, <3>2
  <2>2. CASE ~receives
    <3> HIDE DEF e, receives
    <3> QED BY <1>2, <1>7, <2>2
  <2> QED BY <2>1, <2>2
<1> HIDE DEF e, receives
<1>9. e.closed \in BOOLEAN /\ e \in FlowType
  BY <1>8, FieldTypes DEF Core
<1>10. CASE f = c
  BY <1>1, <1>10 DEF f
<1>11. CASE f = e /\ (e.panic # "none" \/ (receives /\ o.read = "block"))
  <2>1. QuietHandshake(e, e.interests)
    <3>1. CASE e.panic # "none"
      BY <3>1 DEF QuietHandshake
    <3>2. CASE e.panic = "none"
      <4>1. SameButLink(e, d) /\ d.state \notin Handshake
        BY <1>3, <1>7, <1>8, <1>11, <3>2
      <4> QED BY <4>1 DEF SameButLink, QuietHandshake
    <3> QED BY <3>1, <3>2
  <2> QED BY <1>8, <1>11, <2>1 DEF f
<1>12. CASE f = Unroute(e) /\ e.closed = TRUE
  <2>1. Unroute(e).closed = e.closed
    BY <1>9, ZenonT(60) DEF Unroute, FlowType
  <2>2. QuietHandshake(f, f.interests)
    BY <1>12, <2>1 DEF QuietHandshake
  <2>3. c.state \in Handshake => Refused(e, c)
    BY <1>4, <1>7, <1>12
  <2>4. f.header = e.header /\ f.used = e.used
    BY <1>9, <1>12, CloseSame
  <2> QED BY <2>2, <2>3, <2>4 DEF f, Refused
<1>13. CASE f = UpdateInterests(e) /\ e.closed = FALSE
  <2>1. QuietHandshake(f, f.interests) /\ f.routed = e.routed
    BY <1>9, <1>13, UpdateInterestsQuiet
  <2> QED BY <1>8, <2>1 DEF f
<1> QED BY <1>5, <1>9, <1>10, <1>11, <1>12, <1>13

\* A flow given up by the reaper or by a hang-up of its socket.
LEMMA GiveUpQuiet ==
    ASSUME NEW c, Core(c), c.closed = FALSE, NEW refuse \in BOOLEAN,
           c.state \in Handshake => refuse = TRUE
    PROVE  LET f == Unroute(Close(IF refuse THEN Reply(c, {"RST"}) ELSE c)) IN
           c.state \in Handshake => Refused(f, c)
BY RefuseFlags

\* on_ready of the flow.
LEMMA ProcessQuiet ==
    ASSUME NEW c, Settled(c), c.panic = "none", NEW ev, NEW o \in Answer,
           c.closed = FALSE => c.state # "Init",
           (c.closed = FALSE /\ "r" \in ev) => c.pending = None,
           QuietHandshake(c, ev), QuietHandshake(c, c.interests)
    PROVE  LET f == Process(c, ev, o) IN
           /\ QuietHandshake(f, f.interests)
           /\ (c.closed = FALSE /\ c.state \in Handshake /\ f.routed = FALSE)
                  => Refused(f, c)
<1> DEFINE f == Process(c, ev, o)
<1>1. c.closed \in BOOLEAN /\ Core(c)
  BY FieldTypes DEF Settled, Core
<1>2. CASE c.closed = TRUE
  BY <1>2 DEF Process
<1>3. CASE c.closed = FALSE /\ ev = {"hup"}
  <2>1. f = Unroute(Close(IF c.state \in Handshake THEN Reply(c, {"RST"}) ELSE c))
    BY <1>3 DEF Process, ProcessHup
  <2>2. (c.state \in Handshake) \in BOOLEAN
    OBVIOUS
  <2> HIDE DEF f
  <2>3. f.closed = TRUE
    BY <1>3, <2>1, <2>2, GiveUpSettled
  <2>4. c.state \in Handshake => Refused(f, c)
    BY <1>1, <1>3, <2>1, <2>2, GiveUpQuiet
  <2> QED BY <2>3, <2>4 DEF QuietHandshake, f
<1>4. CASE c.closed = FALSE /\ ev # {"hup"}
  <2>1. f = ProcessReady(c, ev, o)
    BY <1>4 DEF Process
  <2> HIDE DEF f
  <2>2. c.state # "Init" /\ ("r" \in ev => c.pending = None)
    BY <1>4
  <2>3. LET g == ProcessReady(c, ev, o) IN
        /\ QuietHandshake(g, g.interests)
        /\ (c.state \in Handshake /\ g.routed = FALSE) => Refused(g, c)
    BY <1>4, <2>2, ReadyQuiet
  <2> QED BY <2>1, <2>3 DEF f
<1> QED BY <1>1, <1>2, <1>3, <1>4

\* Pulling a deferred packet leaves state, buffer and route alone.
LEMMA ProcessPendingQuiet ==
    ASSUME NEW c, Settled(c), c.panic = "none", QuietHandshake(c, c.interests)
    PROVE  LET f == ProcessPending(c) IN
           /\ QuietHandshake(f, f.interests)
           /\ f.routed = c.routed
           /\ f.panic = "none" => f.size = c.size
<1> DEFINE n == c.pending - HeaderLength
           b == Push(c, n)
           e == [b EXCEPT !.registered = @ - 1, !.sent = @ + n]
           g == [e EXCEPT !.seq = Add(@, e.pending), !.pending = None]
           f == ProcessPending(c)
<1>1. /\ c \in FlowType /\ c.pending \in Nat \cup {None} /\ c.closed \in BOOLEAN
      /\ c.registered = IF c.pending = None THEN 0 ELSE 1
      /\ c.pending # None => HeaderLength <= c.pending
  BY FieldTypes DEF Settled, Core, RegisteredOnce
<1>2. CASE c.registered = 0 \/ ~Fits(c, c.pending)
  <2>1. f = c
    BY <1>1, <1>2 DEF ProcessPending
  <2> HIDE DEF f
  <2> QED BY <2>1 DEF f
<1>3. CASE c.registered # 0 /\ Fits(c, c.pending)
  <2>1. /\ c.registered = 1 /\ c.pending # None /\ n \in Nat
        /\ HeaderLength + n = c.pending
    BY <1>1, <1>3, LengthAssumption DEF None
  <2>2. f = UpdateInterests(g)
    BY <1>3, <2>1 DEF ProcessPending, NextPacket
  <2> HIDE DEF n, f
  <2>3. b \in FlowType /\ SameButLink(b, c)
    BY <1>1, <1>3, <2>1, PushSame
  <2> HIDE DEF b
  <2>4. b.registered - 1 \in Nat /\ b.sent + n \in Nat /\ b.pending = c.pending
    BY <2>1, <2>3, FieldTypes DEF SameButLink
  <2>5. /\ e \in FlowType /\ e.pending = b.pending /\ e.state = b.state
        /\ e.closed = b.closed /\ e.size = b.size /\ e.panic = b.panic
        /\ e.routed = b.routed
    BY <2>3, <2>4, ZenonT(60) DEF FlowType
  <2> HIDE DEF e
  <2>6. Add(e.seq, e.pending) \in Numbers
    <3>1. e.seq \in Int /\ e.pending \in Int
      BY <1>1, <2>1, <2>4, <2>5, FieldTypes, NumbersAreNat
    <3> QED BY <3>1, AddType
  <2>7. /\ g \in FlowType /\ g.state = e.state /\ g.closed = e.closed
        /\ g.size = e.size /\ g.panic = e.panic /\ g.routed = e.routed
    BY <2>5, <2>6, ZenonT(60) DEF FlowType
  <2> HIDE DEF g
  <2>8. /\ g.closed = c.closed /\ g.routed = c.routed /\ g.size = c.size
        /\ g.panic = "none"
    BY <2>3, <2>5, <2>7 DEF SameButLink
  <2>9. CASE c.closed = FALSE
    BY <2>2, <2>7, <2>8, <2>9, UpdateInterestsQuiet DEF f
  <2>10. CASE c.closed = TRUE
    <3> DEFINE x == [g EXCEPT !.panic = "interests of a closed flow"]
    <3>1. f = x
      BY <2>2, <2>8, <2>10 DEF UpdateInterests
    <3>2. x.panic = "interests of a closed flow" /\ x.routed = g.routed
      BY <2>7, ZenonT(60) DEF FlowType
    <3> HIDE DEF x
    <3> QED BY <2>8, <3>1, <3>2 DEF f, QuietHandshake
  <2> QED BY <1>1, <2>9, <2>10
<1> QED BY <1>2, <1>3

-------------------------------------------------------------------------------
(* The event loop keeps a handshake quiet. *)

\* What the selector watches for, and what it returned earlier in the batch.
HalfOpenQuiet == QuietHandshake(flow, flow.interests) /\ QuietHandshake(flow, event)

\* The action of HalfOpenRefusedIfRoom.
RefusesWithRst ==
    (flow.routed /\ flow.state \in Handshake /\ ~flow'.routed
        /\ client # "busy" /\ client' # "closed")
    => Refused(flow', flow)

\* No readiness is quiet.
LEMMA NothingIsQuiet ==
    ASSUME NEW c
    PROVE  QuietHandshake(c, {}) /\ QuietHandshake(c, {"hup"})
BY DEF QuietHandshake

\* A flow that closes is quiet.
LEMMA ClosedIsQuiet ==
    ASSUME NEW c, NEW ready, c.closed = TRUE
    PROVE  QuietHandshake(c, ready)
BY DEF QuietHandshake

\* Nothing is polled for a new flow, which has no handshake yet.
LEMMA InitHalfOpenQuiet == Init => HalfOpenQuiet
<1> SUFFICES ASSUME Init PROVE HalfOpenQuiet
  OBVIOUS
<1>1. flow.state = "Init"
  BY Zenon DEF Init, NewFlow
<1> QED BY <1>1 DEF HalfOpenQuiet, QuietHandshake, Handshake

\* Every step of the event loop keeps the handshake quiet, and a step that takes a
\* half-open flow out of the router refuses it with a RST, unless it is the
\* client's own packet or the end of its tunnel.
LEMMA NextHalfOpenQuiet ==
    IndInv /\ HalfOpenQuiet /\ [Next]_vars => HalfOpenQuiet' /\ RefusesWithRst
<1> SUFFICES ASSUME IndInv, HalfOpenQuiet, [Next]_vars
             PROVE  HalfOpenQuiet' /\ RefusesWithRst
  OBVIOUS
<1>1. /\ Settled(flow) /\ EventIsFresh /\ Core(flow)
      /\ flow \in FlowType /\ flow.closed \in BOOLEAN /\ flow.routed \in BOOLEAN
  BY FieldTypes DEF IndInv, Settled, Core
<1>2. flow.routed = TRUE => flow.state # "Init" /\ flow.closed = FALSE
  BY <1>1 DEF Settled, RoutedWhileOpen
<1>3. /\ QuietHandshake(flow, flow.interests) /\ QuietHandshake(flow, event)
  BY DEF HalfOpenQuiet
<1>4. CASE Poll
  <2>1. flow' = flow /\ (event' \subseteq flow.interests \/ event' = {"hup"})
    BY <1>4 DEF Poll
  <2>2. QuietHandshake(flow, event')
    BY <1>3, <2>1, NothingIsQuiet DEF QuietHandshake
  <2> QED BY <1>1, <1>3, <2>1, <2>2 DEF HalfOpenQuiet, RefusesWithRst
<1>5. CASE CleanUp
  <2>1. event' = event
    BY <1>5 DEF CleanUp
  <2>2. CASE flow.routed = TRUE /\ IsExpired(flow)
    <3> DEFINE refuse == ~flow.closed /\ flow.state \in Handshake
    <3>1. flow' = Unroute(Close(IF refuse THEN Reply(flow, {"RST"}) ELSE flow))
      BY <1>5, <2>2 DEF CleanUp, Expire
    <3>2. refuse \in BOOLEAN /\ (flow.state \in Handshake => refuse = TRUE)
      BY <1>2, <2>2
    <3> HIDE DEF refuse
    <3>3. flow'.closed = TRUE
      BY <1>1, <1>2, <2>2, <3>1, <3>2, GiveUpSettled
    <3>4. flow.state \in Handshake => Refused(flow', flow)
      BY <1>1, <1>2, <2>2, <3>1, <3>2, GiveUpQuiet
    <3> QED BY <3>3, <3>4, ClosedIsQuiet DEF HalfOpenQuiet, RefusesWithRst
  <2>3. CASE ~(flow.routed = TRUE /\ IsExpired(flow))
    <3>1. flow' = flow
      BY <1>1, <1>5, <2>3 DEF CleanUp
    <3> QED BY <1>3, <2>1, <3>1 DEF HalfOpenQuiet, RefusesWithRst
  <2> QED BY <2>2, <2>3
<1>6. CASE OnReady
  <2>1. PICK o \in SocketAnswers(flow) : flow' = Process(flow, event, o)
    BY <1>6 DEF OnReady
  <2>2. o \in Answer
    BY <1>1, EnvironmentTypes
  <2>3. flow.panic = "none" /\ event # {} /\ event' = {}
    BY <1>6 DEF OnReady, Running, Alive
  <2>4. /\ flow.closed = FALSE => flow.state # "Init"
        /\ (flow.closed = FALSE /\ "r" \in event) => flow.pending = None
    BY <1>1, <2>3 DEF EventIsFresh
  <2>5. /\ QuietHandshake(flow', flow'.interests)
        /\ (flow.closed = FALSE /\ flow.state \in Handshake /\ flow'.routed = FALSE)
               => Refused(flow', flow)
    BY <1>1, <1>3, <2>1, <2>2, <2>3, <2>4, ProcessQuiet
  <2>6. Settled(flow')
    BY <1>1, <2>1, <2>2, <2>3, <2>4, ProcessSettled
  <2>7. flow'.routed \in BOOLEAN
    BY <2>6, FieldTypes DEF Settled, Core
  <2> QED BY <1>1, <1>2, <2>3, <2>5, <2>7, NothingIsQuiet DEF HalfOpenQuiet, RefusesWithRst
<1>7. CASE ClientSend
  <2>1. event' = event
    BY <1>7 DEF ClientSend
  <2>2. CASE flow' = flow
    BY <1>3, <2>1, <2>2 DEF HalfOpenQuiet, RefusesWithRst
  <2>3. ASSUME NEW w \in 1 .. flow.used,
               flow' = ProcessPending([flow EXCEPT !.used = @ - w])
        PROVE  HalfOpenQuiet' /\ RefusesWithRst
    <3> DEFINE d == [flow EXCEPT !.used = @ - w]
    <3>1. flow.used - w \in 0 .. LinkCapacity
      BY <1>1, FieldTypes, LengthAssumption
    <3>2. d \in FlowType /\ SameButLink(d, flow)
      BY <1>1, <3>1, ZenonT(60) DEF FlowType, SameButLink
    <3>3. flow' = ProcessPending(d) /\ flow.panic = "none"
      BY <1>7, <2>3 DEF ClientSend, Running, Alive
    <3> HIDE DEF d
    <3>4. Settled(d) /\ d.panic = "none"
      BY <1>1, <3>2, <3>3, SettledOfSame DEF SameButLink
    <3>5. QuietHandshake(d, d.interests) /\ QuietHandshake(d, event)
      BY <1>3, <3>2 DEF SameButLink, QuietHandshake
    <3>6. /\ QuietHandshake(flow', flow'.interests) /\ flow'.routed = d.routed
          /\ flow'.panic = "none" => flow'.size = d.size
      BY <3>3, <3>4, <3>5, ProcessPendingQuiet
    <3>7. flow'.closed = d.closed /\ flow'.state = d.state
      BY <3>3, <3>4, ProcessPendingSettled
    <3>8. QuietHandshake(flow', event)
      BY <3>4, <3>5, <3>6, <3>7 DEF QuietHandshake
    <3>9. flow'.routed = flow.routed
      BY <3>2, <3>6 DEF SameButLink
    <3> QED BY <2>1, <3>6, <3>8, <3>9 DEF HalfOpenQuiet, RefusesWithRst
  <2> QED BY <1>7, <2>2, <2>3 DEF ClientSend
<1>8. CASE ClientPacket
  <2>1. event' = event /\ client = "busy"
    BY <1>8 DEF ClientPacket
  <2>2. PICK p \in Packets(flow), isn \in RelayIsns : flow' = SendToNetwork(flow, p, isn)
    BY <1>8 DEF ClientPacket
  <2>3. p \in Segment /\ isn \in Numbers
    BY <1>1, EnvironmentTypes, NumberAssumption DEF Numbers
  <2>4. flow.closed = FALSE /\ flow.panic = "none"
    BY <1>1, <1>2, <1>8 DEF ClientPacket, Running, Alive
  <2>5. /\ QuietHandshake(flow', flow'.interests)
        /\ \A ev : (flow.state # "Init" /\ QuietHandshake(flow, ev))
                      => QuietHandshake(flow', ev)
    BY <1>1, <2>2, <2>3, <2>4, SendToNetworkQuiet
  <2>6. flow.state = "Init" => event = {}
    BY <1>1, <2>4 DEF EventIsFresh
  <2>7. QuietHandshake(flow', event)
    BY <1>3, <2>5, <2>6, NothingIsQuiet
  <2> QED BY <2>1, <2>5, <2>7 DEF HalfOpenQuiet, RefusesWithRst
<1>9. CASE ClientClose
  <2>1. event' = event /\ client' = "closed"
    BY <1>9 DEF ClientClose
  <2>2. CASE flow.routed = TRUE
    <3>1. flow' = Unroute(Close(IF FALSE THEN Reply(flow, {"RST"}) ELSE flow))
      BY <1>9, <2>2 DEF ClientClose
    <3>2. flow'.closed = TRUE
      BY <1>1, <1>2, <2>2, <3>1, GiveUpSettled
    <3> QED BY <2>1, <3>2, ClosedIsQuiet DEF HalfOpenQuiet, RefusesWithRst
  <2>3. CASE flow.routed = FALSE
    <3>1. flow' = flow
      BY <1>9, <2>3 DEF ClientClose
    <3> QED BY <1>3, <2>1, <3>1 DEF HalfOpenQuiet, RefusesWithRst
  <2> QED BY <1>1, <2>2, <2>3
<1>10. CASE OtherFlows
  <2>1. event' = event
    BY <1>10 DEF OtherFlows
  <2>2. PICK n \in 1 .. LinkCapacity - flow.used : flow' = [flow EXCEPT !.used = @ + n]
    BY <1>10 DEF OtherFlows
  <2>3. flow.used + n \in 0 .. LinkCapacity
    BY <1>1, FieldTypes, LengthAssumption
  <2>4. SameButLink(flow', flow)
    BY <1>1, <2>2, <2>3, ZenonT(60) DEF FlowType, SameButLink
  <2> QED BY <1>3, <2>1, <2>4 DEF HalfOpenQuiet, QuietHandshake, SameButLink, RefusesWithRst
<1>11. CASE ClientDone \/ EndBatch \/ Tick \/ UNCHANGED vars
  <2>1. flow' = flow /\ event' = event
    BY <1>11 DEF ClientDone, EndBatch, Tick, vars
  <2> QED BY <1>3, <2>1 DEF HalfOpenQuiet, RefusesWithRst
<1> QED BY <1>4, <1>5, <1>6, <1>7, <1>8, <1>9, <1>10, <1>11 DEF Next

\* Readiness stays quiet during every handshake.
THEOREM HalfOpenQuietness == Spec => []HalfOpenQuiet
BY Invariance, InitHalfOpenQuiet, NextHalfOpenQuiet, PTL DEF Spec

\* Whatever the constants, the client and the socket, a half-open flow leaves the
\* router with a RST on the link if the link has room for it, unless the client
\* itself ended the flow.
THEOREM HalfOpenRefusal == Spec => HalfOpenRefusedIfRoom
<1>1. IndInv /\ HalfOpenQuiet /\ [Next]_vars => [RefusesWithRst]_vars
  BY NextHalfOpenQuiet
<1>2. [][RefusesWithRst]_vars => HalfOpenRefusedIfRoom
  BY PTL DEF HalfOpenRefusedIfRoom, RefusesWithRst
<1> QED BY <1>1, <1>2, Invariance, HalfOpenQuietness, PTL DEF Spec
-------------------------------------------------------------------------------
(***************************************************************************)
(* Nothing follows the relay's FIN: the handlers that could number a FIN or *)
(* move the sequence number do so in states before it, but for a read and a *)
(* pull of a deferred packet.                                               *)
(***************************************************************************)
KeepsFin(d, c) == c.finSeq # None => d.finSeq = c.finSeq /\ d.seq = c.seq

\* The ends of a handler touch neither number.
LEMMA EndsKeepFin ==
    ASSUME NEW c \in FlowType
    PROVE  /\ KeepsFin(Close(c), c) /\ KeepsFin(Unroute(c), c)
           /\ KeepsFin(UpdateInterests(c), c)
<1>1. Close(c).finSeq = c.finSeq /\ Close(c).seq = c.seq
  BY ZenonT(60) DEF Close, FlowType
<1>2. Unroute(c).finSeq = c.finSeq /\ Unroute(c).seq = c.seq
  BY ZenonT(60) DEF Unroute, FlowType
<1>3. UpdateInterests(c).finSeq = c.finSeq /\ UpdateInterests(c).seq = c.seq
  BY ZenonT(60) DEF UpdateInterests, FlowType
<1> QED BY <1>1, <1>2, <1>3 DEF KeepsFin

\* A packet without payload, and the close after it, touch neither number.
LEMMA ReplyKeepsFin ==
    ASSUME NEW c \in FlowType, NEW flags \in FlagSets
    PROVE  KeepsFin(Reply(c, flags), c) /\ KeepsFin(Close(Reply(c, flags)), c)
<1>1. Reply(c, flags) \in FlowType /\ SameButLink(Reply(c, flags), c)
  BY ReplySame
<1> QED BY <1>1, EndsKeepFin DEF SameButLink, KeepsFin

\* do_handle_fin numbers a FIN in Established only, where none is out.
LEMMA DoHandleFinKeepsFin ==
    ASSUME NEW c, Core(c)
    PROVE  KeepsFin(DoHandleFin(c), c)
<1> DEFINE e == [c EXCEPT !.ack = Add(@, 1), !.fins = @ + 1]
           y == [Reply(e, {"ACK"}) EXCEPT !.state = "Closing"]
           z == Reply(e, {"ACK"})
<1>1. e \in FlowType /\ e.state = c.state
  BY CountFin
<1>2. c.finSeq # None => e.state # "Established"
  BY <1>1 DEF Core, FinKnown, FinSent
<1>3. c \in FlowType
  BY DEF Core
<1>4. e.finSeq = c.finSeq /\ e.seq = c.seq
  BY <1>3, ZenonT(60) DEF FlowType
<1>5. e.state # "Established" => DoHandleFin(c) \in {y, Close(z), e}
  BY DEF DoHandleFin
<1> HIDE DEF e
<1>6. z \in FlowType /\ KeepsFin(z, e) /\ KeepsFin(Close(z), e)
  BY <1>1, ReplySame, ReplyKeepsFin DEF FlagSets
<1>7. y.finSeq = z.finSeq /\ y.seq = z.seq
  BY <1>6, ZenonT(60) DEF FlowType
<1> HIDE DEF y, z
<1> QED BY <1>2, <1>4, <1>5, <1>6, <1>7 DEF KeepsFin

\* handle_ack stores a payload or ends the handshake.
LEMMA HandleAckKeepsFin ==
    ASSUME NEW c \in FlowType, NEW p
    PROVE  KeepsFin(HandleAck(c, p), c)
<1> DEFINE d == [c EXCEPT !.state = "Established"]
           e == [c EXCEPT !.size = @ + p.length]
<1>1. d.finSeq = c.finSeq /\ d.seq = c.seq /\ e.finSeq = c.finSeq /\ e.seq = c.seq
  BY ZenonT(60) DEF FlowType
<1>2. HandleAck(c, p) \in {c, d, e}
  BY DEF HandleAck
<1> HIDE DEF d, e
<1> QED BY <1>1, <1>2 DEF KeepsFin

\* handle_fin remembers the FIN, or acts on it.
LEMMA HandleFinKeepsFin ==
    ASSUME NEW c, Core(c), NEW p, p.seq \in Numbers, p.length \in Nat
    PROVE  KeepsFin(HandleFin(c, p), c)
<1> DEFINE e == [c EXCEPT !.finReceived = TRUE, !.finPos = Add(p.seq, p.length)]
<1>0. p.seq \in Int /\ p.length \in Int
  BY NumbersAreNat
<1>1. c \in FlowType /\ Add(p.seq, p.length) \in Numbers
  BY <1>0, AddType DEF Core
<1>2. /\ e \in FlowType /\ SameShell(e, c) /\ e.closed = c.closed
      /\ e.state = c.state /\ e.finSeq = c.finSeq /\ e.deregs = c.deregs
      /\ e.ack = c.ack /\ e.synSeq = c.synSeq /\ e.written = c.written
      /\ e.fins = c.fins /\ e.registered = c.registered /\ e.seq = c.seq
  BY <1>1, ZenonT(60) DEF FlowType, SameShell
<1>3. HandleFin(c, p) \in {DoHandleFin(e), e}
  BY DEF HandleFin
<1> HIDE DEF e
<1>4. Core(e)
  BY <1>2 DEF Core, SameShell, AckExact, FinKnown, EarlyClean, RegisteredOnce, DeregisteredOnce
<1>5. KeepsFin(DoHandleFin(e), e)
  BY <1>4, DoHandleFinKeepsFin
<1> QED BY <1>2, <1>3, <1>5 DEF KeepsFin

\* handle_fin_ack closes the flow or moves its state.
LEMMA HandleFinAckKeepsFin ==
    ASSUME NEW c \in FlowType
    PROVE  KeepsFin(HandleFinAck(c), c)
<1> DEFINE d == [c EXCEPT !.state = "FinWait2"]
<1>1. d.finSeq = c.finSeq /\ d.seq = c.seq
  BY ZenonT(60) DEF FlowType
<1>2. HandleFinAck(c) \in {Close(c), d, c}
  BY DEF HandleFinAck
<1> HIDE DEF d
<1> QED BY <1>1, <1>2, EndsKeepFin DEF KeepsFin

\* handle_duplicate_syn rewrites the client's numbers only.
LEMMA HandleDuplicateSynKeepsFin ==
    ASSUME NEW c \in FlowType, NEW p
    PROVE  KeepsFin(HandleDuplicateSyn(c, p), c)
<1> DEFINE d == [c EXCEPT !.synSeq = p.seq, !.ack = Add(p.seq, 1), !.fins = 0]
           r == Close(Reply(c, {"RST"}))
<1>1. d.finSeq = c.finSeq /\ d.seq = c.seq
  BY ZenonT(60) DEF FlowType
<1>2. KeepsFin(r, c)
  BY ReplyKeepsFin DEF FlagSets
<1>3. HandleDuplicateSyn(c, p) \in {c, d, r}
  BY DEF HandleDuplicateSyn
<1> HIDE DEF d, r
<1> QED BY <1>1, <1>2, <1>3 DEF KeepsFin

\* handle_packet once the sequence number is the expected one.
LEMMA HandleExpectedPacketKeepsFin ==
    ASSUME NEW c, Core(c), c.closed = FALSE, c.state # "Init", NEW p \in Segment
    PROVE  KeepsFin(HandleExpectedPacket(c, p), c)
<1> DEFINE d == [c EXCEPT !.window = p.window, !.theirAck = p.ack]
           e == IF "ACK" \in p.flags THEN HandleAck(d, p) ELSE d
           f == IF "FIN" \in p.flags THEN HandleFin(e, p) ELSE e
<1>1. c \in FlowType /\ p.window \in Nat /\ p.ack \in Numbers /\ p.seq \in Numbers
      /\ p.length \in Nat
  BY DEF Core, Segment
<1>2. /\ d \in FlowType /\ SameShell(d, c) /\ d.closed = c.closed
      /\ d.state = c.state /\ d.finSeq = c.finSeq /\ d.deregs = c.deregs
      /\ d.ack = c.ack /\ d.synSeq = c.synSeq /\ d.written = c.written
      /\ d.fins = c.fins /\ d.registered = c.registered /\ d.seq = c.seq
  BY <1>1, ZenonT(60) DEF FlowType, SameShell
<1>3. HandleExpectedPacket(c, p) \in {Close(d), HandleFinAck(f), f}
  BY DEF HandleExpectedPacket
<1> HIDE DEF d
<1>4. Core(d) /\ d.closed = FALSE /\ d.state # "Init" /\ KeepsFin(d, c)
  BY <1>2 DEF Core, SameShell, AckExact, FinKnown, EarlyClean, RegisteredOnce,
              DeregisteredOnce, KeepsFin
<1>5. Core(e) /\ e.closed = FALSE /\ e.state # "Init" /\ KeepsFin(e, d)
  <2>1. CASE "ACK" \in p.flags
    BY <1>1, <1>2, <1>4, <2>1, HandleAckCore, HandleAckKeepsFin
  <2>2. CASE "ACK" \notin p.flags
    BY <1>4, <2>2 DEF KeepsFin
  <2> QED BY <2>1, <2>2
<1> HIDE DEF e
<1>6. Core(f) /\ KeepsFin(f, e)
  <2>1. CASE "FIN" \in p.flags
    BY <1>1, <1>5, <2>1, HandleFinCore, HandleFinKeepsFin
  <2>2. CASE "FIN" \notin p.flags
    BY <1>5, <2>2 DEF KeepsFin
  <2> QED BY <2>1, <2>2
<1> HIDE DEF f
<1>7. KeepsFin(f, c)
  BY <1>4, <1>5, <1>6 DEF KeepsFin
<1>8. KeepsFin(HandleFinAck(f), f)
  BY <1>6, HandleFinAckKeepsFin DEF Core
<1>9. KeepsFin(HandleFinAck(f), c)
  BY <1>7, <1>8 DEF KeepsFin
<1>10. KeepsFin(Close(d), c)
  BY <1>2, EndsKeepFin DEF KeepsFin
<1> QED BY <1>3, <1>7, <1>9, <1>10

\* Whatever the client sends, the relay's FIN stays the last thing numbered.
LEMMA SendToNetworkKeepsFin ==
    ASSUME NEW c, Core(c), c.closed = FALSE, NEW p \in Segment, NEW isn \in Numbers
    PROVE  KeepsFin(SendToNetwork(c, p, isn), c)
<1> DEFINE e == [c EXCEPT !.routed = TRUE]
           d == HandlePacket(e, p, isn)
<1>1. c \in FlowType
  BY DEF Core
<1>2. /\ e \in FlowType /\ e.state = c.state /\ e.closed = c.closed
      /\ e.deregs = c.deregs /\ e.ack = c.ack /\ e.synSeq = c.synSeq
      /\ e.written = c.written /\ e.fins = c.fins /\ e.finSeq = c.finSeq
      /\ e.pending = c.pending /\ e.registered = c.registered /\ e.seq = c.seq
  BY <1>1, ZenonT(60) DEF FlowType
<1>3. SendToNetwork(c, p, isn) \in {Unroute(d), UpdateInterests(d)}
  BY DEF SendToNetwork
<1> HIDE DEF e
<1>4. Core(e)
  BY <1>2 DEF Core, AckExact, FinKnown, EarlyClean, RegisteredOnce, DeregisteredOnce
<1>5. Core(d)
  BY <1>2, <1>4, HandlePacketCore
<1>6. KeepsFin(d, e)
  <2> SUFFICES ASSUME e.finSeq # None PROVE KeepsFin(d, e)
    BY DEF KeepsFin
  <2>1. e.state # "Init"
    BY <1>4 DEF Core, FinKnown, FinSent
  <2>2. d \in {HandleDuplicateSyn(e, p), e, HandleExpectedPacket(e, p)}
    BY <2>1 DEF HandlePacket
  <2> HIDE DEF d
  <2>3. KeepsFin(HandleDuplicateSyn(e, p), e)
    BY <1>2, HandleDuplicateSynKeepsFin
  <2>4. KeepsFin(HandleExpectedPacket(e, p), e)
    BY <1>2, <1>4, <2>1, HandleExpectedPacketKeepsFin
  <2> QED BY <2>2, <2>3, <2>4 DEF KeepsFin
<1> HIDE DEF d
<1>7. KeepsFin(Unroute(d), d) /\ KeepsFin(UpdateInterests(d), d)
  BY <1>5, EndsKeepFin DEF Core
<1> QED BY <1>2, <1>3, <1>6, <1>7 DEF KeepsFin

\* process_send acknowledges, closes, or acts on a FIN that was waiting.
LEMMA ProcessSendKeepsFin ==
    ASSUME NEW c, Core(c), c.state \notin {"Init", "SynSent"}, NEW o \in Answer
    PROVE  KeepsFin(ProcessSend(c, o), c)
<1> DEFINE w == Min(o.taken, c.size)
           e == [c EXCEPT !.ack = Add(@, w), !.size = @ - w, !.written = @ + w]
           d == ProcessSend(c, o)
           r == Close(Reply(c, {"RST"}))
<1>1. c \in FlowType /\ c.size \in 0 .. UpCapacity /\ o.taken \in 1 .. UpCapacity
  BY FieldTypes DEF Core, Answer
<1>2. d \in {Close(c), r} \/ (c.size # 0 /\ d \in {DoHandleFin(e), Reply(e, {"ACK"})})
  BY DEF ProcessSend
<1> HIDE DEF d
<1>3. KeepsFin(Close(c), c) /\ KeepsFin(r, c)
  BY <1>1, EndsKeepFin, ReplyKeepsFin DEF FlagSets
<1> HIDE DEF r
<1>4. CASE c.size # 0
  <2>1. w \in 1 .. c.size
    BY <1>1, <1>4 DEF Min
  <2>2. e.finSeq = c.finSeq /\ e.seq = c.seq
    BY <1>1, ZenonT(60) DEF FlowType
  <2> HIDE DEF w
  <2>3. Core(e)
    BY <2>1, WriteCore
  <2> HIDE DEF e
  <2>4. KeepsFin(DoHandleFin(e), e) /\ KeepsFin(Reply(e, {"ACK"}), e)
    BY <2>3, DoHandleFinKeepsFin, ReplyKeepsFin DEF Core, FlagSets
  <2> QED BY <1>2, <1>3, <2>2, <2>4 DEF KeepsFin, d
<1>5. CASE c.size = 0
  BY <1>2, <1>3, <1>5 DEF KeepsFin, d
<1> QED BY <1>4, <1>5

\* on_ready of the flow, for readiness without "readable".
LEMMA ProcessKeepsFin ==
    ASSUME NEW c, Core(c), c.closed = FALSE => c.routed = TRUE, c.panic = "none",
           NEW ev, "r" \notin ev, NEW o \in Answer
    PROVE  KeepsFin(Process(c, ev, o), c)
<1> SUFFICES ASSUME c.finSeq # None PROVE KeepsFin(Process(c, ev, o), c)
  BY DEF KeepsFin
<1> DEFINE d == IF "w" \notin ev THEN c
                ELSE IF c.state = "SynSent" THEN ProcessConnect(c, o)
                ELSE ProcessSend(c, o)
<1>1. c \in FlowType /\ c.closed \in BOOLEAN
  BY FieldTypes DEF Core
<1>2. c.state \notin {"Init", "SynSent"}
  BY DEF Core, FinKnown, FinSent
<1>3. CASE c.closed = TRUE
  BY <1>3 DEF Process, KeepsFin
<1>4. CASE c.closed = FALSE /\ ev = {"hup"}
  <2>1. c.state \notin Handshake
    BY DEF Core, FinKnown, FinSent, Handshake
  <2>2. Process(c, ev, o) = Unroute(Close(c))
    BY <1>4, <2>1 DEF Process, ProcessHup
  <2>3. Close(c) \in FlowType
    BY <1>4, CloseCore DEF Core
  <2>4. KeepsFin(Unroute(Close(c)), Close(c)) /\ KeepsFin(Close(c), c)
    BY <1>1, <2>3, EndsKeepFin
  <2> QED BY <2>2, <2>4 DEF KeepsFin
<1>5. CASE c.closed = FALSE /\ ev # {"hup"}
  <2>1. Process(c, ev, o) \in {c, d, Unroute(d), UpdateInterests(d)}
    BY <1>5 DEF Process, ProcessReady
  <2>2. Core(d)
    BY <1>2, <1>5, WritableCore
  <2>3. KeepsFin(d, c)
    BY <1>2, ProcessSendKeepsFin DEF KeepsFin
  <2> HIDE DEF d
  <2>4. KeepsFin(Unroute(d), d) /\ KeepsFin(UpdateInterests(d), d)
    BY <2>2, EndsKeepFin DEF Core
  <2> QED BY <2>1, <2>3, <2>4 DEF KeepsFin
<1> QED BY <1>1, <1>3, <1>4, <1>5

\* The action of NothingFollowsFin.
FinIsLast ==
    flow.finSeq # None /\ "r" \notin event /\ flow.pending = None
        => flow'.finSeq = flow.finSeq /\ flow'.seq = flow.seq

LEMMA NextFinIsLast == IndInv /\ [Next]_vars => FinIsLast
<1> SUFFICES ASSUME IndInv, [Next]_vars, flow.finSeq # None, "r" \notin event,
                    flow.pending = None
             PROVE  KeepsFin(flow', flow)
  BY DEF FinIsLast, KeepsFin
<1>1. /\ Settled(flow) /\ Core(flow)
      /\ flow \in FlowType /\ flow.closed \in BOOLEAN /\ flow.routed \in BOOLEAN
  BY FieldTypes DEF IndInv, Settled, Core
<1>2. flow.state \in FinSent
  BY <1>1 DEF Core, FinKnown
<1>3. flow.routed = TRUE <=> flow.closed = FALSE
  BY <1>1, <1>2 DEF Settled, RoutedWhileOpen, FinSent
<1>4. CASE CleanUp
  <2>1. CASE flow' = flow
    BY <2>1 DEF KeepsFin
  <2>2. CASE flow' # flow
    <3>1. flow' = Unroute(Close(flow)) /\ flow.closed = FALSE
      BY <1>2, <1>3, <1>4, <2>2 DEF CleanUp, Expire, Handshake, FinSent
    <3>2. Close(flow) \in FlowType
      BY <1>1, <3>1, CloseCore DEF Core
    <3> QED BY <1>1, <3>1, <3>2, EndsKeepFin DEF KeepsFin
  <2> QED BY <2>1, <2>2
<1>5. CASE OnReady
  <2>1. PICK o \in SocketAnswers(flow) : flow' = Process(flow, event, o)
    BY <1>5 DEF OnReady
  <2>2. o \in Answer
    BY <1>1, EnvironmentTypes
  <2>3. flow.panic = "none"
    BY <1>5 DEF OnReady, Running, Alive
  <2> QED BY <1>1, <1>3, <2>1, <2>2, <2>3, ProcessKeepsFin
<1>6. CASE ClientSend
  <2>1. CASE flow' = flow
    BY <2>1 DEF KeepsFin
  <2>2. ASSUME NEW w \in 1 .. flow.used,
               flow' = ProcessPending([flow EXCEPT !.used = @ - w])
        PROVE  KeepsFin(flow', flow)
    <3> DEFINE d == [flow EXCEPT !.used = @ - w]
    <3>1. d.registered = flow.registered /\ d.finSeq = flow.finSeq /\ d.seq = flow.seq
      BY <1>1, ZenonT(60) DEF FlowType
    <3>2. flow.registered = 0
      BY <1>1 DEF Core, RegisteredOnce
    <3>3. flow' = ProcessPending(d)
      BY <2>2
    <3> HIDE DEF d
    <3>4. flow' = d
      BY <3>1, <3>2, <3>3 DEF ProcessPending
    <3> QED BY <3>1, <3>4 DEF KeepsFin
  <2> QED BY <1>6, <2>1, <2>2 DEF ClientSend
<1>7. CASE ClientPacket
  <2>1. PICK p \in Packets(flow), isn \in RelayIsns : flow' = SendToNetwork(flow, p, isn)
    BY <1>7 DEF ClientPacket
  <2>2. p \in Segment /\ isn \in Numbers
    BY <1>1, EnvironmentTypes, NumberAssumption DEF Numbers
  <2>3. flow.closed = FALSE
    BY <1>1, <1>3, <1>7 DEF ClientPacket
  <2> QED BY <1>1, <2>1, <2>2, <2>3, SendToNetworkKeepsFin
<1>8. CASE ClientClose
  <2>1. flow' = flow \/ (flow' = Unroute(Close(flow)) /\ flow.closed = FALSE)
    BY <1>1, <1>3, <1>8 DEF ClientClose
  <2>2. flow.closed = FALSE => Close(flow) \in FlowType
    BY <1>1, CloseCore DEF Core
  <2> QED BY <1>1, <2>1, <2>2, EndsKeepFin DEF KeepsFin
<1>9. CASE OtherFlows
  <2>1. PICK n \in 1 .. LinkCapacity - flow.used : flow' = [flow EXCEPT !.used = @ + n]
    BY <1>9 DEF OtherFlows
  <2>2. flow'.finSeq = flow.finSeq /\ flow'.seq = flow.seq
    BY <1>1, <2>1, ZenonT(60) DEF FlowType
  <2> QED BY <2>2 DEF KeepsFin
<1>10. CASE Poll \/ ClientDone \/ EndBatch \/ Tick \/ UNCHANGED vars
  <2>1. flow' = flow
    BY <1>10 DEF Poll, ClientDone, EndBatch, Tick, vars
  <2> QED BY <2>1 DEF KeepsFin
<1> QED BY <1>4, <1>5, <1>6, <1>7, <1>8, <1>9, <1>10 DEF Next

\* Whatever the client sends and the socket takes, the relay's FIN is numbered once
\* and nothing behind it, except by a read polled before it or the pull of a packet
\* deferred before it.
THEOREM FinEndsTheStream == Spec => NothingFollowsFin
<1>1. [][FinIsLast]_vars => NothingFollowsFin
  BY PTL DEF NothingFollowsFin, FinIsLast
<1>2. IndInv /\ [Next]_vars => [FinIsLast]_vars
  BY NextFinIsLast
<1> QED BY <1>1, <1>2, Invariance, PTL DEF Spec
===============================================================================
