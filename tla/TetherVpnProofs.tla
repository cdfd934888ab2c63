--------------------------- MODULE TetherVpnProofs ----------------------------
(***************************************************************************)
(* The safety properties of TetherVpn for any number of abilities and of   *)
(* attempts.                                                               *)
(*                                                                         *)
(* A handler is a composition of operators on worlds: the fields of one    *)
(* ability, the shared state and the tasks. What is known of an ability is *)
(* therefore stated of such parts. Ownership and Standing hold of every    *)
(* intermediate world of a handler; Control holds between handlers.        *)
(***************************************************************************)
EXTENDS TetherVpn, FiniteSetTheorems, WellFoundedInduction, TLAPS

\* The descriptors an ability remembers are exactly those that are open for it.
Ownership(i, s, o) ==
    /\ s.socketFd # NoFd => o.fds[s.socketFd] = <<i, "sock">>
    /\ s.tunFd # NoFd => o.fds[s.tunFd] = <<i, "tun">>
    /\ \A f \in Fds : /\ o.fds[f] = <<i, "sock">> => s.socketFd = f
                      /\ o.fds[f] = <<i, "tun">> => s.tunFd = f

\* How an ability's life, its session and the native module's session go together.
Standing(i, s, o) ==
    /\ s.life # "live" => s.stopped
    /\ s.life = "live" => s.generation <= MaxGeneration
    /\ s.life = "live" /\ s.session > 0 => s.session = o.session
    /\ s.life = "absent" => o.session < i /\ s.session = 0 /\ s.generation = 0
    /\ s.session <= o.session
    /\ o.worker = i => s.session = o.session

NoTaskOf(i, ts) == \A t \in ts : t.owner # i

HoldsNothing(s) == s.socketFd = NoFd /\ s.tunFd = NoFd

\* Who has the turn: a task, the retry timer, the worker, or nobody.
Control(i, s, o, ts) ==
    /\ s.session = 0 =>
         s.retry = 0 /\ s.state # "connected" /\ HoldsNothing(s) /\ NoTaskOf(i, ts)
    /\ ~NoTaskOf(i, ts) => s.tunFd = NoFd
    /\ s.stopped => /\ s.retry = 0 /\ s.tunFd = NoFd /\ o.worker # i
                    /\ s.socketFd # NoFd => ~NoTaskOf(i, ts)
    /\ ~s.stopped => /\ s.retry <= 1
                     /\ \A t, u \in ts : t.owner = i /\ u.owner = i => t = u
    /\ s.retry > 0 => HoldsNothing(s) /\ NoTaskOf(i, ts)
    /\ ~s.stopped /\ s.state = "connected" =>
         o.worker = i /\ o.session = s.session /\ s.retry = 0 /\ NoTaskOf(i, ts)

\* Abilities follow one another, and so do their sessions.
Succession ==
    /\ \A i, j \in Instances :
         i < j /\ app[j].life # "absent" => app[i].life \in {"destroyed", "killed"}
    /\ \A i, j \in Instances :
         i # j /\ app[i].session = app[j].session => app[i].session = 0

IndInv ==
    /\ TypeOK
    /\ ~os.stray
    /\ Succession
    /\ StopIsSaved
    /\ \A i \in Instances : /\ Ownership(i, app[i], os)
                            /\ Standing(i, app[i], os)
                            /\ Control(i, app[i], os, tasks)

-------------------------------------------------------------------------------
(* Worlds. *)

Shared == [fds : [Fds -> {Free} \cup (Instances \X {"sock", "tun"})],
           session : 0 .. MaxInstances, worker : 0 .. MaxInstances,
           running : BOOLEAN, saved : AbilityStates, stray : BOOLEAN]

Worlds == [id : Instances, self : Ability, os : Shared, tasks : SUBSET Task]

\* What every intermediate world of a handler satisfies.
Core(w) == /\ w \in Worlds
           /\ ~w.os.stray
           /\ Ownership(w.id, w.self, w.os)
           /\ Standing(w.id, w.self, w.os)

\* What a handler leaves alone: the descriptors, the tasks and the worker of the
\* others. It may take the worker away only with the current session.
Others(w, d) ==
    /\ d.id = w.id
    /\ d.os.session = w.os.session
    /\ \A f \in Fds, j \in Instances, k \in {"sock", "tun"} :
         j # w.id => (d.os.fds[f] = <<j, k>> <=> w.os.fds[f] = <<j, k>>)
    /\ \A t \in Task : t.owner # w.id => (t \in d.tasks <=> t \in w.tasks)
    /\ \/ d.os.worker = w.os.worker
       \/ w.self.session = w.os.session /\ d.os.worker \in {0, w.id}

\* The fields of an ability that only onCreate, onDestroy and the retry timer write.
SameLife(s, r) ==
    /\ r.life = s.life /\ r.stopped = s.stopped /\ r.generation = s.generation
    /\ r.session = s.session /\ r.connection = s.connection

SameFds(s, r) == r.socketFd = s.socketFd /\ r.tunFd = s.tunFd

\* All of the shared state but the status file.
SameShared(o, p) ==
    /\ p.fds = o.fds /\ p.session = o.session /\ p.worker = o.worker
    /\ p.running = o.running /\ p.stray = o.stray

\* One operator of a handler took world w to world d.
Passed(w, d) == Core(d) /\ Others(w, d) /\ SameLife(w.self, d.self)

\* The smallest free descriptor exists.
LEMMA NextFdFacts ==
    ASSUME NEW w \in Worlds, FreeFds(w) # {}
    PROVE  NextFd(w) \in Fds /\ w.os.fds[NextFd(w)] = Free
<1> DEFINE Less == {p \in Nat \X Nat : p[1] < p[2]}
<1>1. FreeFds(w) \subseteq Nat
  BY InstancesAssumption DEF FreeFds, Fds
<1>2. IsWellFoundedOn(Less, Nat)
  BY NatLessThanWellFounded, Zenon DEF OpToRel
<1>3. PICK f \in FreeFds(w) : \A g \in FreeFds(w) : ~(<<g, f>> \in Less)
  <2> HIDE DEF Less
  <2> QED
    BY <1>1, <1>2, WFMin
<1>4. ASSUME NEW g \in FreeFds(w)
      PROVE  f <= g
  <2>1. f \in Nat /\ g \in Nat
    BY <1>1
  <2>2. ~(g < f)
    BY <2>1, <1>3
  <2> QED
    BY <2>1, <2>2
<1>5. NextFd(w) \in FreeFds(w)
  BY <1>4 DEF NextFd
<1> QED
  BY <1>5 DEF FreeFds

\* stopTunnel takes the worker and nothing else.
LEMMA StopTunnelFacts ==
    ASSUME NEW w \in Worlds
    PROVE  LET d == StopTunnel(w) IN
           /\ d \in Worlds
           /\ d.id = w.id /\ d.self = w.self /\ d.tasks = w.tasks
           /\ d.os.fds = w.os.fds /\ d.os.session = w.os.session
           /\ d.os.worker = 0 /\ d.os.running = FALSE
           /\ d.os.saved = w.os.saved /\ d.os.stray = w.os.stray
<1> DEFINE o == [w.os EXCEPT !.worker = 0]
           p == [o EXCEPT !.running = FALSE]
<1>1. o \in Shared
  BY InstancesAssumption DEF Worlds, Shared
<1>2. p \in Shared
  BY <1>1 DEF Shared
<1>3. StopTunnel(w) = [w EXCEPT !.os = p]
  BY DEF StopTunnel, Worlds, Shared
<1>4. /\ p.fds = w.os.fds /\ p.session = w.os.session /\ p.worker = 0
      /\ p.running = FALSE /\ p.saved = w.os.saved /\ p.stray = w.os.stray
  BY DEF Worlds, Shared
<1> HIDE DEF p
<1> QED
  BY <1>2, <1>3, <1>4 DEF Worlds

\* newSession stops whatever runs and gives the caller a number of its own.
LEMMA NumberFacts ==
    ASSUME NEW w \in Worlds, w.os.session + 1 \in 0 .. MaxInstances
    PROVE  LET d == NewSession(w) IN
           /\ d \in Worlds
           /\ d.id = w.id /\ d.tasks = w.tasks
           /\ d.self = [w.self EXCEPT !.session = w.os.session + 1]
           /\ d.os.fds = w.os.fds /\ d.os.session = w.os.session + 1
           /\ d.os.worker = 0 /\ d.os.stray = w.os.stray
<1> DEFINE c == StopTunnel(w)
           o == [c.os EXCEPT !.session = c.os.session + 1]
           s == [c.self EXCEPT !.session = w.os.session + 1]
           v == [c EXCEPT !.os = o]
           d == [v EXCEPT !.self = s]
<1>1. /\ c \in Worlds
      /\ c.id = w.id /\ c.self = w.self /\ c.tasks = w.tasks
      /\ c.os.fds = w.os.fds /\ c.os.session = w.os.session
      /\ c.os.worker = 0 /\ c.os.running = FALSE
      /\ c.os.saved = w.os.saved /\ c.os.stray = w.os.stray
  BY StopTunnelFacts
<1> HIDE DEF c
<1>2. o \in Shared /\ s \in Ability
  BY <1>1 DEF Worlds, Shared, Ability
<1>3. /\ o.fds = w.os.fds /\ o.session = w.os.session + 1 /\ o.worker = 0
      /\ o.stray = w.os.stray
  BY <1>1 DEF Worlds, Shared
<1>4. NewSession(w) = d
  BY <1>1 DEF NewSession, c, Worlds, Shared, Ability
<1> HIDE DEF o
<1>5. d \in Worlds /\ d.id = c.id /\ d.tasks = c.tasks /\ d.self = s /\ d.os = o
  <2> HIDE DEF s
  <2> QED
    BY <1>1, <1>2 DEF Worlds
<1> QED
  BY <1>1, <1>3, <1>4, <1>5

\* closeFd frees one descriptor, and is stray if it was not the caller's.
LEMMA CloseFdFacts ==
    ASSUME NEW w \in Worlds, NEW fd \in Fds, NEW kind
    PROVE  LET d == CloseFd(w, fd, kind) IN
           /\ d \in Worlds
           /\ d.id = w.id /\ d.self = w.self /\ d.tasks = w.tasks
           /\ d.os.fds = [w.os.fds EXCEPT ![fd] = Free]
           /\ d.os.session = w.os.session /\ d.os.worker = w.os.worker
           /\ d.os.saved = w.os.saved
           /\ d.os.stray = (w.os.stray \/ w.os.fds[fd] # <<w.id, kind>>)
BY DEF CloseFd, Worlds, Shared

\* publish() writes the state and the status file, unless the session is stale.
LEMMA PublishFacts ==
    ASSUME NEW w \in Worlds, NEW state \in AbilityStates
    PROVE  LET d == Publish(w, state) IN
           /\ d \in Worlds
           /\ d.id = w.id /\ d.tasks = w.tasks
           /\ SameLife(w.self, d.self) /\ SameFds(w.self, d.self)
           /\ d.self.retry = w.self.retry
           /\ SameShared(w.os, d.os)
           /\ IF w.self.session > 0 /\ w.self.session # w.os.session THEN d = w
              ELSE d.self.state = state /\ d.os.saved = state
<1>1. CASE w.self.session > 0 /\ w.self.session # w.os.session
  BY <1>1 DEF Publish, SameLife, SameFds, SameShared
<1>2. CASE ~(w.self.session > 0 /\ w.self.session # w.os.session)
  <2> DEFINE s == [w.self EXCEPT !.state = state]
             o == [w.os EXCEPT !.saved = state]
             v == [w EXCEPT !.self = s]
             d == [v EXCEPT !.os = o]
  <2>1. s \in Ability /\ o \in Shared
    BY DEF Worlds, Shared, Ability
  <2>2. /\ SameLife(w.self, s) /\ SameFds(w.self, s) /\ s.retry = w.self.retry
        /\ SameShared(w.os, o) /\ s.state = state /\ o.saved = state
    BY DEF Worlds, Shared, Ability, SameLife, SameFds, SameShared
  <2>3. Publish(w, state) = d
    BY <1>2 DEF Publish, Worlds, Shared, Ability
  <2> HIDE DEF s, o
  <2>4. d \in Worlds /\ d.id = w.id /\ d.tasks = w.tasks /\ d.self = s /\ d.os = o
    BY <2>1 DEF Worlds
  <2> QED
    BY <1>2, <2>2, <2>3, <2>4
<1> QED
  BY <1>1, <1>2

\* scheduleRetry() sets one timer more, unless the ability is stopped.
LEMMA ScheduleRetryFacts ==
    ASSUME NEW w \in Worlds
    PROVE  LET d == ScheduleRetry(w) IN
           /\ d \in Worlds
           /\ d.id = w.id /\ d.tasks = w.tasks
           /\ SameLife(w.self, d.self) /\ SameFds(w.self, d.self)
           /\ SameShared(w.os, d.os)
           /\ w.self.stopped => d = w
           /\ d.self.retry \in {w.self.retry, w.self.retry + 1}
           /\ d.self.state \in {w.self.state, "reconnecting"}
<1>1. CASE w.self.stopped
  BY <1>1 DEF ScheduleRetry, SameLife, SameFds, SameShared
<1>2. CASE ~w.self.stopped
  <2> DEFINE s == [w.self EXCEPT !.retry = @ + 1]
             v == [w EXCEPT !.self = s]
  <2>1. s \in Ability
    BY DEF Worlds, Ability
  <2>2. /\ SameLife(w.self, s) /\ SameFds(w.self, s) /\ s.retry = w.self.retry + 1
        /\ s.state = w.self.state
    BY DEF Worlds, Ability, SameLife, SameFds
  <2>3. ScheduleRetry(w) = Publish(v, "reconnecting")
    BY <1>2 DEF ScheduleRetry, Worlds, Ability
  <2> HIDE DEF s
  <2>4. v \in Worlds /\ v.id = w.id /\ v.tasks = w.tasks /\ v.self = s /\ v.os = w.os
    BY <2>1 DEF Worlds
  <2> HIDE DEF v
  <2>5. "reconnecting" \in AbilityStates
    BY DEF AbilityStates
  <2> QED
    BY <1>2, <2>2, <2>3, <2>4, <2>5, PublishFacts DEF SameLife, SameFds, SameShared
<1> QED
  BY <1>1, <1>2

\* Handlers are compositions of operators.
LEMMA PassedTrans ==
    ASSUME NEW w \in Worlds, NEW e, NEW d, Passed(w, e), Passed(e, d)
    PROVE  Passed(w, d)
<1>1. e \in Worlds /\ d \in Worlds
  BY DEF Passed, Core
<1>2. SameLife(w.self, d.self)
  BY DEF Passed, SameLife
<1>3. Others(w, d)
  <2>1. \/ d.os.worker = w.os.worker
        \/ w.self.session = w.os.session /\ d.os.worker \in {0, w.id}
    BY DEF Passed, Others, SameLife
  <2>2. \A t \in Task : t.owner # w.id => (t \in d.tasks <=> t \in w.tasks)
    BY DEF Passed, Others
  <2>3. \A f \in Fds, j \in Instances, k \in {"sock", "tun"} :
          j # w.id => (d.os.fds[f] = <<j, k>> <=> w.os.fds[f] = <<j, k>>)
    BY DEF Passed, Others
  <2> QED
    BY <2>1, <2>2, <2>3 DEF Passed, Others
<1> QED
  BY <1>2, <1>3 DEF Passed

\* A world that differs in the state, the timers or the status file only.
LEMMA PassedSame ==
    ASSUME NEW w, Core(w), NEW d \in Worlds, d.id = w.id, d.tasks = w.tasks,
           SameLife(w.self, d.self), SameFds(w.self, d.self), SameShared(w.os, d.os)
    PROVE  Passed(w, d)
<1>1. Core(d)
  BY DEF Core, Ownership, Standing, SameLife, SameFds, SameShared
<1>2. Others(w, d)
  BY DEF Others, SameShared
<1> QED
  BY <1>1, <1>2 DEF Passed

\* stop() leaves no worker to its caller, and no other's worker is touched.
LEMMA StopFacts ==
    ASSUME NEW w, Core(w)
    PROVE  LET d == Stop(w) IN
           /\ Passed(w, d)
           /\ d.self = w.self /\ d.tasks = w.tasks /\ d.os.saved = w.os.saved
           /\ d.os.worker # w.id
<1>1. CASE w.self.session = w.os.session
  <2> DEFINE d == StopTunnel(w)
  <2>1. w \in Worlds
    BY DEF Core
  <2>2. /\ d \in Worlds
        /\ d.id = w.id /\ d.self = w.self /\ d.tasks = w.tasks
        /\ d.os.fds = w.os.fds /\ d.os.session = w.os.session
        /\ d.os.worker = 0 /\ d.os.saved = w.os.saved /\ d.os.stray = w.os.stray
    BY <2>1, StopTunnelFacts
  <2>3. Stop(w) = d
    BY <1>1 DEF Stop
  <2>4. w.id # 0
    BY <2>1, InstancesAssumption DEF Worlds, Instances
  <2> HIDE DEF d
  <2>5. Core(d)
    BY <2>2, <2>4 DEF Core, Ownership, Standing
  <2>6. Others(w, d)
    BY <2>2, <1>1 DEF Others
  <2> QED
    BY <2>2, <2>3, <2>4, <2>5, <2>6 DEF Passed, SameLife
<1>2. CASE w.self.session # w.os.session
  <2>1. Stop(w) = w
    BY <1>2 DEF Stop
  <2>2. w.os.worker # w.id
    BY <1>2 DEF Core, Standing
  <2>3. Passed(w, w)
    BY DEF Passed, Others, SameLife
  <2> QED
    BY <2>1, <2>2, <2>3
<1> QED
  BY <1>1, <1>2

-------------------------------------------------------------------------------
(* cleanup(). *)

Answers == {"return", "fail", "refused", "retry"}

\* The first part of CleanupEnd.
CloseSocket(w) ==
    IF w.self.socketFd = NoFd THEN w
    ELSE [CloseFd(w, w.self.socketFd, "sock") EXCEPT !.self.socketFd = NoFd]

\* The first part of Cleanup once the worker is stopped.
CloseTun(w) == [CloseFd(w, w.self.tunFd, "tun") EXCEPT !.self.tunFd = NoFd]

\* The rest of CleanupEnd.
AfterClose(d, then, generation) ==
    IF then = "return" \/ (then # "retry" /\ Fenced(d, generation)) THEN d
    ELSE IF then = "refused" THEN Publish(d, "error")
    ELSE ScheduleRetry(d)

\* A descriptor that its owner closes and forgets: the ability still remembers
\* exactly what is open for it, and the close is not stray.
LEMMA ForgetFacts ==
    ASSUME NEW w, Core(w), NEW fd \in Fds, NEW kind \in {"sock", "tun"},
           w.os.fds[fd] = <<w.id, kind>>, NEW d \in Worlds,
           d.id = w.id, d.tasks = w.tasks, SameLife(w.self, d.self),
           d.os.fds = [w.os.fds EXCEPT ![fd] = Free],
           d.os.session = w.os.session, d.os.worker = w.os.worker, ~d.os.stray,
           IF kind = "sock" THEN d.self.socketFd = NoFd /\ d.self.tunFd = w.self.tunFd
           ELSE d.self.tunFd = NoFd /\ d.self.socketFd = w.self.socketFd
    PROVE  Passed(w, d)
<1>1. w.os.fds \in [Fds -> {Free} \cup (Instances \X {"sock", "tun"})] /\ w.id \in Instances
  BY DEF Core, Worlds, Shared
<1>2. \A j \in Instances, k \in {"sock", "tun"} : Free # <<j, k>>
  BY DEF Free
<1>3. \A f \in Fds : f # fd => d.os.fds[f] = w.os.fds[f]
  BY <1>1
<1>4. d.os.fds[fd] = Free
  BY <1>1
<1>5. Others(w, d)
  BY <1>1, <1>2, <1>3, <1>4 DEF Others
<1>6. NoFd \notin Fds
  BY InstancesAssumption DEF NoFd, Fds
<1>7. w.self \in Ability /\ d.self \in Ability
  BY DEF Core, Worlds
<1>8. Ownership(w.id, d.self, d.os)
  <2>1. w.self.socketFd \in Fds \cup {NoFd} /\ w.self.tunFd \in Fds \cup {NoFd}
    BY <1>7 DEF Ability
  <2>2. Ownership(w.id, w.self, w.os)
    BY DEF Core
  <2>3. CASE kind = "sock"
    <3>1. w.self.socketFd = fd
      BY <2>2, <2>3 DEF Ownership
    <3>2. w.self.tunFd # fd
      BY <2>2, <2>3, <1>6 DEF Ownership
    <3>3. d.self.socketFd = NoFd /\ d.self.tunFd = w.self.tunFd
      BY <2>3
    <3>4. d.self.tunFd # NoFd => d.os.fds[d.self.tunFd] = <<w.id, "tun">>
      BY <1>3, <2>1, <2>2, <3>2, <3>3 DEF Ownership
    <3>5. ASSUME NEW f \in Fds
          PROVE  /\ d.os.fds[f] = <<w.id, "sock">> => d.self.socketFd = f
                 /\ d.os.fds[f] = <<w.id, "tun">> => d.self.tunFd = f
      <4>1. f = fd => d.os.fds[f] # <<w.id, "sock">> /\ d.os.fds[f] # <<w.id, "tun">>
        BY <1>1, <1>2, <1>4
      <4>2. f # fd => d.os.fds[f] = w.os.fds[f]
        BY <1>3
      <4>3. f # fd => w.os.fds[f] # <<w.id, "sock">>
        BY <2>2, <3>1 DEF Ownership
      <4>4. w.os.fds[f] = <<w.id, "tun">> => w.self.tunFd = f
        BY <2>2 DEF Ownership
      <4> QED
        BY <4>1, <4>2, <4>3, <4>4, <3>3
    <3> QED
      BY <3>3, <3>4, <3>5 DEF Ownership
  <2>4. CASE kind = "tun"
    <3>1. w.self.tunFd = fd
      BY <2>2, <2>4 DEF Ownership
    <3>2. w.self.socketFd # fd
      BY <2>2, <2>4, <1>6 DEF Ownership
    <3>3. d.self.tunFd = NoFd /\ d.self.socketFd = w.self.socketFd
      BY <2>4
    <3>4. d.self.socketFd # NoFd => d.os.fds[d.self.socketFd] = <<w.id, "sock">>
      BY <1>3, <2>1, <2>2, <3>2, <3>3 DEF Ownership
    <3>5. ASSUME NEW f \in Fds
          PROVE  /\ d.os.fds[f] = <<w.id, "tun">> => d.self.tunFd = f
                 /\ d.os.fds[f] = <<w.id, "sock">> => d.self.socketFd = f
      <4>1. f = fd => d.os.fds[f] # <<w.id, "sock">> /\ d.os.fds[f] # <<w.id, "tun">>
        BY <1>1, <1>2, <1>4
      <4>2. f # fd => d.os.fds[f] = w.os.fds[f]
        BY <1>3
      <4>3. f # fd => w.os.fds[f] # <<w.id, "tun">>
        BY <2>2, <3>1 DEF Ownership
      <4>4. w.os.fds[f] = <<w.id, "sock">> => w.self.socketFd = f
        BY <2>2 DEF Ownership
      <4> QED
        BY <4>1, <4>2, <4>3, <4>4, <3>3
    <3> QED
      BY <3>3, <3>4, <3>5 DEF Ownership
  <2> QED
    BY <2>3, <2>4
<1>9. Standing(w.id, d.self, d.os)
  BY DEF Core, Standing, SameLife
<1> QED
  BY <1>5, <1>8, <1>9 DEF Passed, Core

\* closeSocket: nothing is left in the field.
LEMMA CloseSocketFacts ==
    ASSUME NEW w, Core(w)
    PROVE  LET d == CloseSocket(w) IN
           /\ Passed(w, d)
           /\ d.tasks = w.tasks /\ d.os.worker = w.os.worker /\ d.os.saved = w.os.saved
           /\ d.self.socketFd = NoFd /\ d.self.tunFd = w.self.tunFd
           /\ d.self.retry = w.self.retry /\ d.self.state = w.self.state
<1>0. w \in Worlds /\ Passed(w, w)
  BY DEF Passed, Others, SameLife, Core
<1>1. CASE w.self.socketFd = NoFd
  BY <1>0, <1>1 DEF CloseSocket
<1>2. CASE w.self.socketFd # NoFd
  <2> DEFINE fd == w.self.socketFd
             c == CloseFd(w, fd, "sock")
             s == [w.self EXCEPT !.socketFd = NoFd]
             d == [c EXCEPT !.self = s]
  <2>1. fd \in Fds /\ w.os.fds[fd] = <<w.id, "sock">>
    BY <1>0, <1>2 DEF Worlds, Ability, Core, Ownership
  <2> HIDE DEF fd
  <2>2. /\ c \in Worlds
        /\ c.id = w.id /\ c.self = w.self /\ c.tasks = w.tasks
        /\ c.os.fds = [w.os.fds EXCEPT ![fd] = Free]
        /\ c.os.session = w.os.session /\ c.os.worker = w.os.worker
        /\ c.os.saved = w.os.saved
        /\ c.os.stray = (w.os.stray \/ w.os.fds[fd] # <<w.id, "sock">>)
    BY <1>0, <2>1, CloseFdFacts
  <2>3. ~c.os.stray
    BY <2>1, <2>2 DEF Core
  <2>4. s \in Ability
    BY <1>0 DEF Worlds, Ability
  <2>5. /\ SameLife(w.self, s) /\ s.socketFd = NoFd /\ s.tunFd = w.self.tunFd
        /\ s.retry = w.self.retry /\ s.state = w.self.state
    BY <1>0 DEF Worlds, Ability, SameLife
  <2>6. CloseSocket(w) = d
    <3> HIDE DEF c
    <3> QED
      BY <1>0, <1>2, <2>2 DEF CloseSocket, c, fd, Worlds, Ability
  <2> HIDE DEF c, s
  <2>7. d \in Worlds /\ d.id = c.id /\ d.tasks = c.tasks /\ d.self = s /\ d.os = c.os
    BY <2>2, <2>4 DEF Worlds
  <2> HIDE DEF d
  <2>8. /\ d \in Worlds /\ d.id = w.id /\ d.tasks = w.tasks
        /\ SameLife(w.self, d.self) /\ ~d.os.stray
        /\ d.os.fds = [w.os.fds EXCEPT ![fd] = Free]
        /\ d.os.session = w.os.session /\ d.os.worker = w.os.worker
        /\ d.self.socketFd = NoFd /\ d.self.tunFd = w.self.tunFd
    BY <2>2, <2>3, <2>5, <2>7
  <2>9. Passed(w, d)
    BY <2>1, <2>8, ForgetFacts
  <2> QED
    BY <2>2, <2>5, <2>6, <2>7, <2>9
<1> QED
  BY <1>1, <1>2

\* The same for the descriptor of the interface.
LEMMA CloseTunFacts ==
    ASSUME NEW w, Core(w), w.self.tunFd # NoFd
    PROVE  LET d == CloseTun(w) IN
           /\ Passed(w, d)
           /\ d.tasks = w.tasks /\ d.os.worker = w.os.worker /\ d.os.saved = w.os.saved
           /\ d.self.tunFd = NoFd /\ d.self.socketFd = w.self.socketFd
           /\ d.self.retry = w.self.retry /\ d.self.state = w.self.state
<1>0. w \in Worlds
  BY DEF Core
<1> DEFINE fd == w.self.tunFd
           c == CloseFd(w, fd, "tun")
           s == [w.self EXCEPT !.tunFd = NoFd]
           d == [c EXCEPT !.self = s]
<1>1. fd \in Fds /\ w.os.fds[fd] = <<w.id, "tun">>
  BY <1>0 DEF Worlds, Ability, Core, Ownership
<1> HIDE DEF fd
<1>2. /\ c \in Worlds
      /\ c.id = w.id /\ c.self = w.self /\ c.tasks = w.tasks
      /\ c.os.fds = [w.os.fds EXCEPT ![fd] = Free]
      /\ c.os.session = w.os.session /\ c.os.worker = w.os.worker
      /\ c.os.saved = w.os.saved
      /\ c.os.stray = (w.os.stray \/ w.os.fds[fd] # <<w.id, "tun">>)
  BY <1>0, <1>1, CloseFdFacts
<1>3. ~c.os.stray
  BY <1>1, <1>2 DEF Core
<1>4. s \in Ability
  BY <1>0 DEF Worlds, Ability
<1>5. /\ SameLife(w.self, s) /\ s.tunFd = NoFd /\ s.socketFd = w.self.socketFd
      /\ s.retry = w.self.retry /\ s.state = w.self.state
  BY <1>0 DEF Worlds, Ability, SameLife
<1>6. CloseTun(w) = d
  <2> HIDE DEF c
  <2> QED
    BY <1>0, <1>2 DEF CloseTun, c, fd, Worlds, Ability
<1> HIDE DEF c, s
<1>7. d \in Worlds /\ d.id = c.id /\ d.tasks = c.tasks /\ d.self = s /\ d.os = c.os
  BY <1>2, <1>4 DEF Worlds
<1> HIDE DEF d
<1>8. /\ d \in Worlds /\ d.id = w.id /\ d.tasks = w.tasks
      /\ SameLife(w.self, d.self) /\ ~d.os.stray
      /\ d.os.fds = [w.os.fds EXCEPT ![fd] = Free]
      /\ d.os.session = w.os.session /\ d.os.worker = w.os.worker
      /\ d.self.tunFd = NoFd /\ d.self.socketFd = w.self.socketFd
  BY <1>2, <1>3, <1>5, <1>7
<1>9. Passed(w, d)
  BY <1>1, <1>8, ForgetFacts
<1> QED
  BY <1>2, <1>5, <1>6, <1>7, <1>9

\* Who has the turn may start cleanup(): no retry timer is set and, unless the
\* ability is stopped, nothing of it is suspended and it does not say "connected".
Quiet(w) ==
    /\ Core(w)
    /\ w.self.retry = 0
    /\ ~w.self.stopped => NoTaskOf(w.id, w.tasks) /\ w.self.state # "connected"
    /\ w.self.session = 0 => /\ w.self.stopped /\ w.self.state # "connected"
                             /\ HoldsNothing(w.self) /\ NoTaskOf(w.id, w.tasks)

\* The end of a handler that began in w.
Closed(w, d) ==
    /\ Passed(w, d)
    /\ Control(d.id, d.self, d.os, d.tasks)
    /\ w.self.stopped => d.os.saved = w.os.saved

\* The answer of cleanup()'s caller sets at most one timer, and nothing at all for
\* an ability that is stopped.
LEMMA AfterCloseFacts ==
    ASSUME NEW w, Core(w), NEW then, NEW generation
    PROVE  LET d == AfterClose(w, then, generation) IN
           /\ d \in Worlds
           /\ d.id = w.id /\ d.tasks = w.tasks
           /\ SameLife(w.self, d.self) /\ SameFds(w.self, d.self)
           /\ SameShared(w.os, d.os)
           /\ w.self.stopped => d = w
           /\ d.self.retry \in {w.self.retry, w.self.retry + 1}
           /\ d.self.state \in {w.self.state, "reconnecting", "error"}
<1>1. w \in Worlds
  BY DEF Core
<1>2. CASE AfterClose(w, then, generation) = w
  BY <1>1, <1>2 DEF SameLife, SameFds, SameShared
<1>3. CASE AfterClose(w, then, generation) = ScheduleRetry(w)
  BY <1>1, <1>3, ScheduleRetryFacts
<1>4. CASE AfterClose(w, then, generation) = Publish(w, "error") /\ ~w.self.stopped
  <2>1. "error" \in AbilityStates
    BY DEF AbilityStates
  <2> QED
    BY <1>1, <1>4, <2>1, PublishFacts
<1>5. \/ AfterClose(w, then, generation) = w
      \/ AfterClose(w, then, generation) = ScheduleRetry(w)
      \/ AfterClose(w, then, generation) = Publish(w, "error") /\ ~w.self.stopped
  BY DEF AfterClose, Fenced
<1> QED
  BY <1>2, <1>3, <1>4, <1>5

\* The end of cleanup() with its caller's answer, once the interface is gone.
LEMMA CleanupEndFacts ==
    ASSUME NEW w, Quiet(w), NEW then, NEW generation,
           w.self.tunFd = NoFd, w.self.stopped => w.os.worker # w.id
    PROVE  Closed(w, CleanupEnd(w, then, generation))
<1> DEFINE c == CloseSocket(w)
           d == AfterClose(c, then, generation)
<1>0. Core(w) /\ w \in Worlds
  BY DEF Quiet, Core
<1>1. CleanupEnd(w, then, generation) = d
  BY DEF CleanupEnd, CloseSocket, AfterClose
<1>2. /\ Passed(w, c)
      /\ c.tasks = w.tasks /\ c.os.worker = w.os.worker /\ c.os.saved = w.os.saved
      /\ c.self.socketFd = NoFd /\ c.self.tunFd = w.self.tunFd
      /\ c.self.retry = w.self.retry /\ c.self.state = w.self.state
  BY <1>0, CloseSocketFacts
<1>3. Core(c)
  BY <1>2 DEF Passed
<1> HIDE DEF c
<1>4. /\ d \in Worlds
      /\ d.id = c.id /\ d.tasks = c.tasks
      /\ SameLife(c.self, d.self) /\ SameFds(c.self, d.self)
      /\ SameShared(c.os, d.os)
      /\ c.self.stopped => d = c
      /\ d.self.retry \in {c.self.retry, c.self.retry + 1}
      /\ d.self.state \in {c.self.state, "reconnecting", "error"}
  BY <1>3, AfterCloseFacts
<1> HIDE DEF d
<1>5. Passed(w, d)
  BY <1>0, <1>2, <1>3, <1>4, PassedSame, PassedTrans
<1>6. w.self.stopped => d.os.saved = w.os.saved
  BY <1>2, <1>4 DEF Passed, SameLife
<1>7. Control(d.id, d.self, d.os, d.tasks)
  <2>1. /\ d.id = w.id /\ d.tasks = w.tasks /\ d.os.worker = w.os.worker
        /\ d.self.stopped = w.self.stopped /\ d.self.session = w.self.session
        /\ HoldsNothing(d.self) /\ d.self.retry \in {0, 1}
    BY <1>2, <1>4 DEF Passed, SameLife, SameFds, SameShared, Others, HoldsNothing, Quiet
  <2>2. w.self.stopped => d.self.retry = 0 /\ d.self.state = w.self.state
    BY <1>2, <1>4 DEF Passed, SameLife, Quiet
  <2>3. ~w.self.stopped => d.self.state # "connected" /\ NoTaskOf(w.id, w.tasks)
    BY <1>2, <1>4 DEF Quiet
  <2> QED
    BY <2>1, <2>2, <2>3 DEF Control, Quiet, HoldsNothing, NoTaskOf
<1> QED
  BY <1>1, <1>5, <1>6, <1>7 DEF Closed

\* A task of the handler's own ability is added.
LEMMA AddTaskFacts ==
    ASSUME NEW w, Core(w), NEW t \in Task, t.owner = w.id
    PROVE  LET d == [w EXCEPT !.tasks = @ \cup {t}] IN
           /\ Passed(w, d)
           /\ d.self = w.self /\ d.os = w.os /\ d.id = w.id
           /\ d.tasks = w.tasks \cup {t}
<1> DEFINE d == [w EXCEPT !.tasks = @ \cup {t}]
<1>1. /\ d \in Worlds /\ d.self = w.self /\ d.os = w.os /\ d.id = w.id
      /\ d.tasks = w.tasks \cup {t}
  BY DEF Core, Worlds
<1> HIDE DEF d
<1>2. Others(w, d)
  BY <1>1 DEF Others
<1>3. Core(d)
  BY <1>1 DEF Core
<1> QED
  BY <1>1, <1>2, <1>3 DEF Passed, SameLife, d

\* cleanup() as a whole: it leaves the turn with the task that waits for
\* destroy(), with the retry timer, or with nobody.
LEMMA CleanupFacts ==
    ASSUME NEW w, Quiet(w), NEW then \in Answers,
           NEW generation \in 0 .. MaxGeneration + 1
    PROVE  Closed(w, Cleanup(w, then, generation))
<1> DEFINE d == Stop(w)
<1>0. Core(w) /\ w \in Worlds
  BY DEF Quiet, Core
<1>1. /\ Passed(w, d)
      /\ d.self = w.self /\ d.tasks = w.tasks /\ d.os.saved = w.os.saved
      /\ d.os.worker # w.id
  BY <1>0, StopFacts
<1>2. Core(d) /\ d.id = w.id
  BY <1>1 DEF Passed, Others
<1>3. Quiet(d)
  BY <1>1, <1>2 DEF Quiet
<1>4. CASE d.self.tunFd = NoFd
  <2>1. Cleanup(w, then, generation) = CleanupEnd(d, then, generation)
    BY <1>4 DEF Cleanup
  <2> HIDE DEF d
  <2>2. Closed(d, CleanupEnd(d, then, generation))
    BY <1>1, <1>2, <1>3, <1>4, CleanupEndFacts
  <2> QED
    BY <1>0, <1>1, <2>1, <2>2, PassedTrans DEF Closed
<1>5. CASE d.self.tunFd # NoFd
  <2> DEFINE t == [owner |-> w.id, gen |-> generation, pc |-> "destroy", then |-> then]
             e == CloseTun(d)
             r == [e EXCEPT !.tasks = @ \cup {t}]
  <2>1. d.id = w.id /\ d \in Worlds
    BY <1>2 DEF Core
  <2> HIDE DEF d
  <2>2. /\ Passed(d, e)
        /\ e.tasks = d.tasks /\ e.os.worker = d.os.worker /\ e.os.saved = d.os.saved
        /\ e.self.tunFd = NoFd /\ e.self.socketFd = d.self.socketFd
        /\ e.self.retry = d.self.retry /\ e.self.state = d.self.state
    BY <1>2, <1>5, CloseTunFacts
  <2>3. Cleanup(w, then, generation) = r
    <3> DEFINE c == CloseFd(d, d.self.tunFd, "tun")
    <3>1. c \in Worlds
      <4>1. d.self.tunFd \in Fds
        BY <1>5, <2>1 DEF Worlds, Ability
      <4> QED
        BY <4>1, <2>1, CloseFdFacts
    <3>2. Cleanup(w, then, generation)
            = [c EXCEPT !.self.tunFd = NoFd, !.tasks = @ \cup {t}]
      BY <1>5 DEF Cleanup, d
    <3> HIDE DEF c
    <3>3. e = [c EXCEPT !.self.tunFd = NoFd]
      BY DEF CloseTun, c
    <3> HIDE DEF e, t
    <3> QED
      BY <3>1, <3>2, <3>3 DEF Worlds
  <2>4. t \in Task /\ t.owner = w.id
    BY <1>0 DEF Task, Answers, Worlds
  <2>5. Core(e) /\ e.id = w.id
    BY <2>1, <2>2 DEF Passed, Others
  <2> HIDE DEF t, e
  <2>6. /\ Passed(e, r)
        /\ r.self = e.self /\ r.os = e.os /\ r.id = e.id /\ r.tasks = e.tasks \cup {t}
    BY <2>4, <2>5, AddTaskFacts
  <2> HIDE DEF r
  <2>7. Passed(w, r)
    <3>1. Passed(w, e)
      BY <1>0, <1>1, <2>2, PassedTrans
    <3> QED
      BY <1>0, <2>6, <3>1, PassedTrans
  <2>8. Control(r.id, r.self, r.os, r.tasks)
    <3>1. /\ r.id = w.id /\ r.tasks = w.tasks \cup {t} /\ r.os.worker # w.id
          /\ r.self.stopped = w.self.stopped /\ r.self.session = w.self.session
          /\ r.self.tunFd = NoFd /\ r.self.retry = 0 /\ r.self.state = w.self.state
      BY <1>1, <2>2, <2>5, <2>6 DEF Passed, SameLife, Quiet
    <3>2. w.self.session # 0
      BY <1>1, <1>5 DEF Quiet, HoldsNothing
    <3>3. ~NoTaskOf(w.id, r.tasks)
      BY <2>4, <3>1 DEF NoTaskOf
    <3>4. ~w.self.stopped => \A u, v \in r.tasks : u.owner = w.id /\ v.owner = w.id => u = v
      BY <3>1 DEF Quiet, NoTaskOf
    <3>5. ~w.self.stopped => r.self.state # "connected"
      BY <3>1 DEF Quiet
    <3> QED
      BY <3>1, <3>2, <3>3, <3>4, <3>5 DEF Control
  <2>9. r.os.saved = w.os.saved
    BY <1>1, <2>2, <2>6
  <2> QED
    BY <2>3, <2>7, <2>8, <2>9 DEF Closed
<1> QED
  BY <1>4, <1>5

-------------------------------------------------------------------------------
(* establish(). *)

\* What createSocket() and create() leave behind.
OpenSocket(w) == [w EXCEPT !.os.fds[NextFd(w)] = <<w.id, "sock">>, !.self.socketFd = NextFd(w)]

OpenTun(w) == [w EXCEPT !.os.fds[NextFd(w)] = <<w.id, "tun">>, !.self.tunFd = NextFd(w)]

\* A new descriptor is remembered in a field that was empty.
LEMMA RememberFacts ==
    ASSUME NEW w, Core(w), NEW fd \in Fds, w.os.fds[fd] = Free,
           NEW kind \in {"sock", "tun"}, NEW d \in Worlds,
           d.id = w.id, d.tasks = w.tasks, SameLife(w.self, d.self),
           d.os.fds = [w.os.fds EXCEPT ![fd] = <<w.id, kind>>],
           d.os.session = w.os.session, d.os.worker = w.os.worker, ~d.os.stray,
           IF kind = "sock"
           THEN w.self.socketFd = NoFd /\ d.self.socketFd = fd /\ d.self.tunFd = w.self.tunFd
           ELSE w.self.tunFd = NoFd /\ d.self.tunFd = fd /\ d.self.socketFd = w.self.socketFd
    PROVE  Passed(w, d)
<1>1. w.os.fds \in [Fds -> {Free} \cup (Instances \X {"sock", "tun"})] /\ w.id \in Instances
  BY DEF Core, Worlds, Shared
<1>2. \A j \in Instances, k \in {"sock", "tun"} : Free # <<j, k>>
  BY DEF Free
<1>3. \A f \in Fds : f # fd => d.os.fds[f] = w.os.fds[f]
  BY <1>1
<1>4. d.os.fds[fd] = <<w.id, kind>>
  BY <1>1
<1>5. Others(w, d)
  BY <1>1, <1>2, <1>3, <1>4 DEF Others
<1>6. NoFd \notin Fds
  BY InstancesAssumption DEF NoFd, Fds
<1>7. w.self.socketFd \in Fds \cup {NoFd} /\ w.self.tunFd \in Fds \cup {NoFd}
  BY DEF Core, Worlds, Ability
<1>8. Ownership(w.id, w.self, w.os)
  BY DEF Core
<1>9. w.self.socketFd # fd /\ w.self.tunFd # fd
  BY <1>1, <1>2, <1>6, <1>8 DEF Ownership
<1>10. /\ d.self.socketFd # NoFd => d.os.fds[d.self.socketFd] = <<w.id, "sock">>
       /\ d.self.tunFd # NoFd => d.os.fds[d.self.tunFd] = <<w.id, "tun">>
  <2>1. CASE kind = "sock"
    BY <2>1, <1>3, <1>4, <1>7, <1>8, <1>9 DEF Ownership
  <2>2. CASE kind = "tun"
    BY <2>2, <1>3, <1>4, <1>7, <1>8, <1>9 DEF Ownership
  <2> QED
    BY <2>1, <2>2
<1>11. ASSUME NEW f \in Fds
       PROVE  /\ d.os.fds[f] = <<w.id, "sock">> => d.self.socketFd = f
              /\ d.os.fds[f] = <<w.id, "tun">> => d.self.tunFd = f
  <2>1. CASE f = fd
    BY <2>1, <1>4
  <2>2. CASE f # fd
    <3>1. d.os.fds[f] = w.os.fds[f]
      BY <2>2, <1>3
    <3>2. /\ w.os.fds[f] = <<w.id, "sock">> => w.self.socketFd = f
          /\ w.os.fds[f] = <<w.id, "tun">> => w.self.tunFd = f
      BY <1>8 DEF Ownership
    <3> QED
      BY <3>1, <3>2, <1>6
  <2> QED
    BY <2>1, <2>2
<1>12. Standing(w.id, d.self, d.os)
  BY DEF Core, Standing, SameLife
<1> QED
  BY <1>5, <1>10, <1>11, <1>12 DEF Passed, Core, Ownership

\* establish() takes the number createSocket() returned.
LEMMA OpenSocketFacts ==
    ASSUME NEW w, Core(w), FreeFds(w) # {}, w.self.socketFd = NoFd
    PROVE  LET d == OpenSocket(w) IN
           /\ Passed(w, d)
           /\ d.tasks = w.tasks /\ d.os.saved = w.os.saved
           /\ d.self.tunFd = w.self.tunFd
           /\ d.self.retry = w.self.retry /\ d.self.state = w.self.state
<1>0. w \in Worlds /\ w.id \in Instances
  BY DEF Core, Worlds
<1> DEFINE fd == NextFd(w)
<1>1. fd \in Fds /\ w.os.fds[fd] = Free
  BY <1>0, NextFdFacts
<1> HIDE DEF fd
<1> DEFINE o == [w.os EXCEPT !.fds[fd] = <<w.id, "sock">>]
           s == [w.self EXCEPT !.socketFd = fd]
           v == [w EXCEPT !.os = o]
           d == [v EXCEPT !.self = s]
<1>2. o \in Shared
  BY <1>0, <1>1 DEF Worlds, Shared
<1>3. /\ o.fds = [w.os.fds EXCEPT ![fd] = <<w.id, "sock">>] /\ o.session = w.os.session
      /\ o.worker = w.os.worker /\ o.stray = w.os.stray /\ o.saved = w.os.saved
  BY <1>0 DEF Worlds, Shared
<1>4. s \in Ability
  BY <1>0, <1>1 DEF Worlds, Ability
<1>5. /\ SameLife(w.self, s) /\ s.socketFd = fd /\ s.tunFd = w.self.tunFd
      /\ s.retry = w.self.retry /\ s.state = w.self.state
  BY <1>0 DEF Worlds, Ability, SameLife
<1>6. d = OpenSocket(w)
  BY <1>0 DEF OpenSocket, fd, Worlds, Shared, Ability
<1> HIDE DEF o, s
<1>7. d \in Worlds /\ d.id = w.id /\ d.tasks = w.tasks /\ d.self = s /\ d.os = o
  BY <1>0, <1>2, <1>4 DEF Worlds
<1> HIDE DEF d
<1>8. ~d.os.stray
  BY <1>3, <1>7 DEF Core
<1>9. Passed(w, d)
  BY <1>1, <1>3, <1>5, <1>7, <1>8, RememberFacts
<1> QED
  BY <1>3, <1>5, <1>6, <1>7, <1>9

\* The same for the descriptor of the interface.
LEMMA OpenTunFacts ==
    ASSUME NEW w, Core(w), FreeFds(w) # {}, w.self.tunFd = NoFd
    PROVE  LET d == OpenTun(w) IN
           /\ Passed(w, d)
           /\ d.tasks = w.tasks /\ d.os.saved = w.os.saved
           /\ d.self.retry = w.self.retry /\ d.self.state = w.self.state
<1>0. w \in Worlds /\ w.id \in Instances
  BY DEF Core, Worlds
<1> DEFINE fd == NextFd(w)
<1>1. fd \in Fds /\ w.os.fds[fd] = Free
  BY <1>0, NextFdFacts
<1> HIDE DEF fd
<1> DEFINE o == [w.os EXCEPT !.fds[fd] = <<w.id, "tun">>]
           s == [w.self EXCEPT !.tunFd = fd]
           v == [w EXCEPT !.os = o]
           d == [v EXCEPT !.self = s]
<1>2. o \in Shared
  BY <1>0, <1>1 DEF Worlds, Shared
<1>3. /\ o.fds = [w.os.fds EXCEPT ![fd] = <<w.id, "tun">>] /\ o.session = w.os.session
      /\ o.worker = w.os.worker /\ o.stray = w.os.stray /\ o.saved = w.os.saved
  BY <1>0 DEF Worlds, Shared
<1>4. s \in Ability
  BY <1>0, <1>1 DEF Worlds, Ability
<1>5. /\ SameLife(w.self, s) /\ s.tunFd = fd /\ s.socketFd = w.self.socketFd
      /\ s.retry = w.self.retry /\ s.state = w.self.state
  BY <1>0 DEF Worlds, Ability, SameLife
<1>6. d = OpenTun(w)
  BY <1>0 DEF OpenTun, fd, Worlds, Shared, Ability
<1> HIDE DEF o, s
<1>7. d \in Worlds /\ d.id = w.id /\ d.tasks = w.tasks /\ d.self = s /\ d.os = o
  BY <1>0, <1>2, <1>4 DEF Worlds
<1> HIDE DEF d
<1>8. ~d.os.stray
  BY <1>3, <1>7 DEF Core
<1>9. Passed(w, d)
  BY <1>1, <1>3, <1>5, <1>7, <1>8, RememberFacts
<1> QED
  BY <1>3, <1>5, <1>6, <1>7, <1>9

\* Tunnel::Start replaces the worker by one of the current session.
LEMMA StartFacts ==
    ASSUME NEW w, Core(w), w.self.session = w.os.session
    PROVE  LET d == Start(w) IN
           /\ Passed(w, d)
           /\ d.self = w.self /\ d.tasks = w.tasks /\ d.os.worker = w.id
<1>0. w \in Worlds /\ w.id \in Instances
  BY DEF Core, Worlds
<1> DEFINE c == StopTunnel(w)
           o == [c.os EXCEPT !.worker = w.id]
           p == [o EXCEPT !.running = TRUE]
           d == [c EXCEPT !.os = p]
<1>1. /\ c \in Worlds
      /\ c.id = w.id /\ c.self = w.self /\ c.tasks = w.tasks
      /\ c.os.fds = w.os.fds /\ c.os.session = w.os.session
      /\ c.os.stray = w.os.stray
  BY <1>0, StopTunnelFacts
<1> HIDE DEF c
<1>2. o \in Shared
  BY <1>0, <1>1, InstancesAssumption DEF Worlds, Shared, Instances
<1>3. p \in Shared
  BY <1>2 DEF Shared
<1>4. /\ p.fds = c.os.fds /\ p.session = c.os.session /\ p.worker = w.id
      /\ p.stray = c.os.stray
  BY <1>1 DEF Worlds, Shared
<1>5. Start(w) = d
  BY <1>1 DEF Start, c, Worlds, Shared
<1> HIDE DEF p
<1>6. d \in Worlds /\ d.id = c.id /\ d.tasks = c.tasks /\ d.self = c.self /\ d.os = p
  BY <1>1, <1>3 DEF Worlds
<1> HIDE DEF d
<1>7. Core(d)
  BY <1>1, <1>4, <1>6 DEF Core, Ownership, Standing
<1>8. Others(w, d)
  BY <1>1, <1>4, <1>6 DEF Others
<1> QED
  BY <1>1, <1>4, <1>5, <1>6, <1>7, <1>8 DEF Passed, SameLife

\* The end of the second part of a handler is the end of the handler.
LEMMA ClosedTrans ==
    ASSUME NEW w \in Worlds, NEW e, NEW d, Passed(w, e), Closed(e, d),
           w.self.stopped => e.os.saved = w.os.saved
    PROVE  Closed(w, d)
BY PassedTrans DEF Closed, Passed, SameLife

\* establish() suspends at one of its awaits: it is the ability's only task.
LEMMA AwaitFacts ==
    ASSUME NEW w, Quiet(w), ~w.self.stopped, w.self.tunFd = NoFd,
           NEW generation \in 0 .. MaxGeneration + 1,
           NEW pc \in {"protect", "connect", "create"}
    PROVE  Closed(w, Await(w, generation, pc))
<1> DEFINE t == [owner |-> w.id, gen |-> generation, pc |-> pc, then |-> "none"]
           d == [w EXCEPT !.tasks = @ \cup {t}]
<1>1. Core(w) /\ w \in Worlds
  BY DEF Quiet, Core
<1>2. t \in Task /\ t.owner = w.id
  BY <1>1 DEF Task, Worlds
<1>3. Await(w, generation, pc) = d
  BY DEF Await
<1> HIDE DEF t
<1>4. /\ Passed(w, d)
      /\ d.self = w.self /\ d.os = w.os /\ d.id = w.id /\ d.tasks = w.tasks \cup {t}
  BY <1>1, <1>2, AddTaskFacts
<1> HIDE DEF d
<1>5. \A u, v \in d.tasks : u.owner = w.id /\ v.owner = w.id => u = v
  BY <1>4 DEF Quiet, NoTaskOf
<1>6. Control(d.id, d.self, d.os, d.tasks)
  BY <1>4, <1>5 DEF Control, Quiet
<1> QED
  BY <1>3, <1>4, <1>6 DEF Closed

\* A report of any state but "connected" leaves who has the turn its turn.
LEMMA PublishQuiet ==
    ASSUME NEW w, Quiet(w), NEW state \in AbilityStates \ {"connected"}
    PROVE  LET d == Publish(w, state) IN
           Quiet(d) /\ Passed(w, d) /\ SameFds(w.self, d.self) /\ d.tasks = w.tasks
<1> DEFINE d == Publish(w, state)
<1>1. w \in Worlds /\ Core(w)
  BY DEF Quiet, Core
<1>2. /\ d \in Worlds
      /\ d.id = w.id /\ d.tasks = w.tasks
      /\ SameLife(w.self, d.self) /\ SameFds(w.self, d.self)
      /\ d.self.retry = w.self.retry
      /\ SameShared(w.os, d.os)
      /\ IF w.self.session > 0 /\ w.self.session # w.os.session THEN d = w
         ELSE d.self.state = state /\ d.os.saved = state
  BY <1>1, PublishFacts
<1> HIDE DEF d
<1>3. Passed(w, d)
  BY <1>1, <1>2, PassedSame
<1>4. d.self.state = w.self.state \/ d.self.state # "connected"
  BY <1>2
<1>5. Quiet(d)
  BY <1>2, <1>3, <1>4 DEF Quiet, Passed, SameLife, SameFds, HoldsNothing
<1> QED
  BY <1>2, <1>3, <1>5 DEF d

\* establish() up to its first await.
LEMMA EstablishFacts ==
    ASSUME NEW w, Quiet(w), ~w.self.stopped, HoldsNothing(w.self), NEW ok
    PROVE  Closed(w, Establish(w, ok))
<1> DEFINE generation == w.self.generation
           d == Publish(w, "connecting")
<1>1. w \in Worlds /\ Core(w) /\ generation \in 0 .. MaxGeneration + 1
  BY DEF Quiet, Core, Worlds, Ability
<1>2. "connecting" \in AbilityStates \ {"connected"}
  BY DEF AbilityStates
<1>3. Quiet(d) /\ Passed(w, d) /\ SameFds(w.self, d.self) /\ d.tasks = w.tasks
  BY <1>2, PublishQuiet
<1>4. ~d.self.stopped /\ HoldsNothing(d.self) /\ d.id = w.id /\ Core(d)
  BY <1>3 DEF Passed, Others, SameLife, SameFds, HoldsNothing
<1>5. CASE ~w.self.connection
  <2>1. Establish(w, ok) = w
    BY <1>5 DEF Establish
  <2>2. Control(w.id, w.self, w.os, w.tasks)
    BY DEF Control, Quiet, HoldsNothing, NoTaskOf
  <2> QED
    BY <1>1, <2>1, <2>2 DEF Closed, Passed, Others, SameLife
<1>6. CASE w.self.connection /\ (~ok \/ FreeFds(d) = {})
  <2>1. Establish(w, ok) = Cleanup(d, "fail", generation)
    BY <1>6 DEF Establish
  <2> HIDE DEF d, generation
  <2>2. Closed(d, Cleanup(d, "fail", generation))
    BY <1>1, <1>3, CleanupFacts DEF Answers
  <2> QED
    BY <1>1, <1>3, <2>1, <2>2, ClosedTrans
<1>7. CASE w.self.connection /\ ok /\ FreeFds(d) # {}
  <2> DEFINE e == OpenSocket(d)
  <2>1. Establish(w, ok) = Await(e, generation, "protect")
    BY <1>4, <1>7 DEF Establish, OpenSocket
  <2> HIDE DEF d, generation
  <2>0. d.self.socketFd = NoFd
    BY <1>4 DEF HoldsNothing
  <2>2. /\ Passed(d, e)
        /\ e.tasks = d.tasks
        /\ e.self.tunFd = d.self.tunFd
        /\ e.self.retry = d.self.retry /\ e.self.state = d.self.state
    BY <1>4, <1>7, <2>0, OpenSocketFacts
  <2> HIDE DEF e
  <2>3. ~e.self.stopped /\ e.self.tunFd = NoFd /\ Core(e) /\ e.id = d.id
    BY <1>4, <2>2 DEF Passed, Others, SameLife, HoldsNothing
  <2>4. Quiet(e)
    BY <1>3, <2>2, <2>3 DEF Quiet, Passed, SameLife
  <2>5. Closed(e, Await(e, generation, "protect"))
    BY <1>1, <2>3, <2>4, AwaitFacts
  <2>6. Passed(w, e)
    BY <1>1, <1>3, <2>2, PassedTrans
  <2> QED
    BY <1>1, <2>1, <2>5, <2>6, ClosedTrans
<1> QED
  BY <1>5, <1>6, <1>7

\* An await of establish() that creates nothing was answered.
LEMMA EstablishNextFacts ==
    ASSUME NEW w, Quiet(w), w.self.tunFd = NoFd,
           NEW generation \in 0 .. MaxGeneration + 1, NEW pc \in {"connect", "create"}
    PROVE  Closed(w, EstablishNext(w, generation, pc))
<1>1. CASE Fenced(w, generation)
  BY <1>1, CleanupFacts DEF EstablishNext, Answers
<1>2. CASE ~Fenced(w, generation)
  BY <1>2, AwaitFacts DEF EstablishNext, Fenced
<1> QED
  BY <1>1, <1>2

\* create() was answered: the fences decide between cleanup() and a tunnel.
LEMMA EstablishEndFacts ==
    ASSUME NEW w, Quiet(w), w.self.tunFd = NoFd, w.self.session # 0, FreeFds(w) # {},
           NEW generation \in 0 .. MaxGeneration + 1, NEW ok
    PROVE  Closed(w, EstablishEnd(w, generation, ok))
<1> DEFINE d == OpenTun(w)
<1>1. w \in Worlds /\ Core(w)
  BY DEF Quiet, Core
<1>2. /\ Passed(w, d)
      /\ d.tasks = w.tasks /\ d.os.saved = w.os.saved
      /\ d.self.retry = w.self.retry /\ d.self.state = w.self.state
  BY <1>1, OpenTunFacts
<1>3. EstablishEnd(w, generation, ok) =
        IF Fenced(d, generation) THEN Cleanup(d, "return", generation)
        ELSE IF d.self.session # d.os.session THEN Cleanup(d, "fail", generation)
        ELSE IF ~ok THEN Cleanup(StopTunnel(d), "fail", generation)
        ELSE Publish(Start(d), "connected")
  BY DEF EstablishEnd, OpenTun
<1> HIDE DEF d
<1>4. Core(d) /\ d \in Worlds /\ d.id = w.id /\ SameLife(w.self, d.self)
  BY <1>2 DEF Passed, Others, Core
<1>5. Quiet(d)
  BY <1>2, <1>4 DEF Quiet, SameLife
<1>6. CASE Fenced(d, generation)
  BY <1>1, <1>2, <1>3, <1>5, <1>6, CleanupFacts, ClosedTrans DEF Answers
<1>7. CASE ~Fenced(d, generation) /\ d.self.session # d.os.session
  BY <1>1, <1>2, <1>3, <1>5, <1>7, CleanupFacts, ClosedTrans DEF Answers
<1>8. CASE ~Fenced(d, generation) /\ d.self.session = d.os.session /\ ~ok
  <2> DEFINE e == Stop(d)
  <2>1. EstablishEnd(w, generation, ok) = Cleanup(e, "fail", generation)
    BY <1>3, <1>8 DEF Stop
  <2>2. /\ Passed(d, e)
        /\ e.self = d.self /\ e.tasks = d.tasks /\ e.os.saved = d.os.saved
    BY <1>4, StopFacts
  <2> HIDE DEF e
  <2>3. Quiet(e)
    BY <1>5, <2>2 DEF Quiet, Passed, Others
  <2>4. Closed(e, Cleanup(e, "fail", generation))
    BY <2>3, CleanupFacts DEF Answers
  <2>5. Passed(w, e)
    BY <1>1, <1>2, <2>2, PassedTrans
  <2> QED
    BY <1>1, <1>2, <2>1, <2>2, <2>4, <2>5, ClosedTrans
<1>9. CASE ~Fenced(d, generation) /\ d.self.session = d.os.session /\ ok
  <2> DEFINE e == Start(d)
             r == Publish(e, "connected")
  <2>1. EstablishEnd(w, generation, ok) = r
    BY <1>3, <1>9
  <2>2. /\ Passed(d, e)
        /\ e.self = d.self /\ e.tasks = d.tasks /\ e.os.worker = d.id
    BY <1>4, <1>9, StartFacts
  <2> HIDE DEF e
  <2>3. Core(e) /\ e \in Worlds /\ e.id = d.id /\ e.os.session = d.os.session
    BY <2>2 DEF Passed, Others, Core
  <2>4. "connected" \in AbilityStates
    BY DEF AbilityStates
  <2>5. /\ r \in Worlds
        /\ r.id = e.id /\ r.tasks = e.tasks
        /\ SameLife(e.self, r.self) /\ SameFds(e.self, r.self)
        /\ r.self.retry = e.self.retry
        /\ SameShared(e.os, r.os)
    BY <2>3, <2>4, PublishFacts
  <2> HIDE DEF r
  <2>6. Passed(e, r)
    BY <2>3, <2>5, PassedSame
  <2>7. Passed(w, r)
    <3>1. Passed(w, e)
      BY <1>1, <1>2, <2>2, PassedTrans
    <3> QED
      BY <1>1, <2>6, <3>1, PassedTrans
  <2>8. ~w.self.stopped /\ ~r.self.stopped
    BY <1>4, <1>9, <2>2, <2>5 DEF Fenced, SameLife
  <2>9. /\ r.id = w.id /\ r.tasks = w.tasks /\ r.self.retry = 0
        /\ r.self.session = w.self.session /\ r.os.session = r.self.session
        /\ r.os.worker = w.id
    BY <1>2, <1>4, <1>9, <2>2, <2>3, <2>5 DEF SameLife, SameShared, Quiet
  <2>10. Control(r.id, r.self, r.os, r.tasks)
    BY <2>8, <2>9 DEF Control, Quiet, NoTaskOf
  <2> QED
    BY <2>1, <2>7, <2>8, <2>10 DEF Closed
<1> QED
  BY <1>6, <1>7, <1>8, <1>9

\* tick(): it watches its own worker, and gives the turn away when that has failed.
LEMMA TickFacts ==
    ASSUME NEW w, Core(w), Control(w.id, w.self, w.os, w.tasks), ~w.self.stopped
    PROVE  Closed(w, TickAbility(w))
<1>1. w \in Worlds /\ w.self.generation \in 0 .. MaxGeneration + 1 /\ w.self.state \in AbilityStates
  BY DEF Core, Worlds, Ability
<1>2. CASE w.self.state = "connected" /\ ~w.os.running
  <2> DEFINE d == Publish(w, "reconnecting")
  <2>1. TickAbility(w) = Cleanup(d, "retry", w.self.generation)
    BY <1>2 DEF TickAbility
  <2>2. "reconnecting" \in AbilityStates
    BY DEF AbilityStates
  <2>3. /\ d \in Worlds
        /\ d.id = w.id /\ d.tasks = w.tasks
        /\ SameLife(w.self, d.self) /\ SameFds(w.self, d.self)
        /\ d.self.retry = w.self.retry
        /\ SameShared(w.os, d.os)
        /\ IF w.self.session > 0 /\ w.self.session # w.os.session THEN d = w
           ELSE d.self.state = "reconnecting" /\ d.os.saved = "reconnecting"
    BY <1>1, <2>2, PublishFacts
  <2> HIDE DEF d
  <2>4. Passed(w, d)
    BY <2>3, PassedSame
  <2>5. w.self.session # 0 /\ w.os.session = w.self.session
    BY <1>2 DEF Control
  <2>6. d.self.state = "reconnecting"
    BY <2>3, <2>5
  <2>7. Quiet(d)
    BY <1>2, <2>3, <2>4, <2>5, <2>6 DEF Quiet, Control, Passed, SameLife
  <2>8. Closed(d, Cleanup(d, "retry", w.self.generation))
    BY <1>1, <2>7, CleanupFacts DEF Answers
  <2> QED
    BY <1>1, <2>1, <2>4, <2>8, ClosedTrans
<1>3. CASE ~(w.self.state = "connected" /\ ~w.os.running)
  <2> DEFINE d == Publish(w, w.self.state)
  <2>1. TickAbility(w) = d
    BY <1>3 DEF TickAbility
  <2>2. /\ d \in Worlds
        /\ d.id = w.id /\ d.tasks = w.tasks
        /\ SameLife(w.self, d.self) /\ SameFds(w.self, d.self)
        /\ d.self.retry = w.self.retry
        /\ SameShared(w.os, d.os)
        /\ IF w.self.session > 0 /\ w.self.session # w.os.session THEN d = w
           ELSE d.self.state = w.self.state /\ d.os.saved = w.self.state
    BY <1>1, PublishFacts
  <2> HIDE DEF d
  <2>3. Passed(w, d)
    BY <2>2, PassedSame
  <2>4. d.self.state = w.self.state
    BY <2>2
  <2>5. Control(d.id, d.self, d.os, d.tasks)
    BY <2>2, <2>4 DEF Control, SameLife, SameFds, SameShared, HoldsNothing, NoTaskOf
  <2> QED
    BY <2>1, <2>3, <2>5 DEF Closed
<1> QED
  BY <1>2, <1>3

\* onDestroy: the stop is published before cleanup(), which adds nothing to it.
LEMMA DestroyFacts ==
    ASSUME NEW w, Core(w), Control(w.id, w.self, w.os, w.tasks), w.self.life = "live"
    PROVE  \E v : /\ Core(v) /\ v.id = w.id /\ v.tasks = w.tasks
                  /\ SameShared(w.os, v.os) /\ v.self.session = w.self.session
                  /\ Closed(v, Destroy(w))
                  /\ Destroy(w).self.life = "destroyed"
                  /\ Destroy(w).os.saved = "stopped"
<1>0. w \in Worlds
  BY DEF Core
<1> DEFINE d == [w EXCEPT !.self.life = "destroyed", !.self.stopped = TRUE,
                          !.self.generation = @ + 1, !.self.retry = 0]
           s == [w.self EXCEPT !.life = "destroyed", !.stopped = TRUE,
                               !.generation = @ + 1, !.retry = 0]
           v == Publish(d, "stopped")
<1>1. w.self.generation + 1 \in 0 .. MaxGeneration + 1
  BY <1>0, GenerationAssumption DEF Core, Standing, Worlds, Ability
<1>2. s \in Ability
  BY <1>0, <1>1 DEF Worlds, Ability
<1>3. /\ s.life = "destroyed" /\ s.stopped = TRUE /\ s.generation = w.self.generation + 1
      /\ s.retry = 0 /\ SameFds(w.self, s) /\ s.session = w.self.session
      /\ s.state = w.self.state
  BY <1>0 DEF Worlds, Ability, SameFds
<1>4. d = [w EXCEPT !.self = s]
  BY <1>0 DEF Worlds, Ability
<1>5. Destroy(w) = Cleanup(v, "return", d.self.generation)
  BY DEF Destroy
<1> HIDE DEF d, s
<1>6. d \in Worlds /\ d.id = w.id /\ d.self = s /\ d.os = w.os /\ d.tasks = w.tasks
  BY <1>0, <1>2, <1>4 DEF Worlds
<1>7. Core(d)
  BY <1>3, <1>6 DEF Core, Ownership, Standing, SameFds
<1>8. Quiet(d)
  BY <1>3, <1>6, <1>7 DEF Quiet, Control, HoldsNothing, SameFds
<1>9. "stopped" \in AbilityStates \ {"connected"}
  BY DEF AbilityStates
<1>10. Quiet(v) /\ Passed(d, v) /\ SameFds(d.self, v.self) /\ v.tasks = d.tasks
  BY <1>8, <1>9, PublishQuiet
<1>11. v.os.saved = "stopped" /\ SameShared(d.os, v.os)
  <2>1. ~(d.self.session > 0 /\ d.self.session # d.os.session)
    BY <1>0, <1>3, <1>6 DEF Core, Standing
  <2> QED
    BY <1>6, <1>9, <2>1, PublishFacts
<1> HIDE DEF v
<1>12. Closed(v, Destroy(w))
  BY <1>1, <1>3, <1>5, <1>6, <1>10, CleanupFacts DEF Answers
<1>13. v.self.stopped /\ v.self.life = "destroyed" /\ v.id = w.id /\ v.self.session = w.self.session
  BY <1>3, <1>6, <1>10 DEF Passed, Others, SameLife
<1>14. Destroy(w).self.life = "destroyed" /\ Destroy(w).os.saved = "stopped"
  BY <1>11, <1>12, <1>13 DEF Closed, Passed, SameLife
<1> QED
  BY <1>6, <1>10, <1>11, <1>12, <1>13, <1>14 DEF Quiet

-------------------------------------------------------------------------------
(* Handlers among the other abilities. *)

\* What is known of every ability but the one whose handler runs.
Surround(w) ==
    \A j \in Instances \ {w.id} : /\ Ownership(j, app[j], w.os)
                                  /\ Standing(j, app[j], w.os)
                                  /\ Control(j, app[j], w.os, w.tasks)

\* Sessions are not shared.
OwnSession(w) ==
    \A j \in Instances \ {w.id} : app[j].session = w.self.session => w.self.session = 0

\* The life of an ability goes on, ends with the stop on record, or is over and
\* writes nothing any more.
Lives(d) ==
    \/ /\ d.self.life = "live" /\ app[d.id].life \in {"absent", "live"}
       /\ \A j \in 1 .. d.id - 1 : app[j].life \in {"destroyed", "killed"}
    \/ app[d.id].life = "live" /\ d.self.life = "destroyed" /\ d.os.saved = "stopped"
    \/ /\ app[d.id].life \in {"destroyed", "killed"} /\ d.self.life = app[d.id].life
       /\ d.os.saved = os.saved

\* A handler preserves what is known of the others.
LEMMA SurroundKept ==
    ASSUME TypeOK, NEW w, Core(w), NEW d, Passed(w, d), Surround(w), OwnSession(w)
    PROVE  Surround(d)
<1>1. /\ w \in Worlds /\ d \in Worlds /\ d.id = w.id /\ d.os.session = w.os.session
      /\ w.id \in Instances
  BY DEF Core, Passed, Others, Worlds
<1> SUFFICES ASSUME NEW j \in Instances, j # w.id
             PROVE  /\ Ownership(j, app[j], d.os)
                    /\ Standing(j, app[j], d.os)
                    /\ Control(j, app[j], d.os, d.tasks)
  BY <1>1 DEF Surround
<1>2. /\ Ownership(j, app[j], w.os)
      /\ Standing(j, app[j], w.os)
      /\ Control(j, app[j], w.os, w.tasks)
  BY DEF Surround
<1>3. \A f \in Fds, k \in {"sock", "tun"} : d.os.fds[f] = <<j, k>> <=> w.os.fds[f] = <<j, k>>
  BY <1>1 DEF Passed, Others
<1>4. app[j] \in Ability
  BY DEF TypeOK
<1>5. Ownership(j, app[j], d.os)
  <2>1. app[j].socketFd \in Fds \cup {NoFd} /\ app[j].tunFd \in Fds \cup {NoFd}
    BY <1>4 DEF Ability
  <2> QED
    BY <1>2, <1>3, <2>1 DEF Ownership
<1>6. \/ d.os.worker = w.os.worker
      \/ w.self.session = w.os.session /\ d.os.worker \in {0, w.id}
  BY DEF Passed, Others
<1>7. j # 0
  BY InstancesAssumption DEF Instances
<1>8. d.os.worker = j => w.os.worker = j
  BY <1>6, <1>7
<1>9. Standing(j, app[j], d.os)
  BY <1>1, <1>2, <1>8 DEF Standing
<1>10. app[j].session # 0 /\ w.os.session = app[j].session
         => d.os.worker = w.os.worker
  BY <1>6 DEF OwnSession
<1>11. \A t \in Task : t.owner = j => (t \in d.tasks <=> t \in w.tasks)
  BY <1>1 DEF Passed, Others
<1>12. w.tasks \subseteq Task /\ d.tasks \subseteq Task
  BY <1>1 DEF Worlds
<1>13. NoTaskOf(j, d.tasks) <=> NoTaskOf(j, w.tasks)
  BY <1>11, <1>12 DEF NoTaskOf
<1>14. (\A t, u \in w.tasks : t.owner = j /\ u.owner = j => t = u)
         => (\A t, u \in d.tasks : t.owner = j /\ u.owner = j => t = u)
  BY <1>11, <1>12
<1>15. Control(j, app[j], d.os, d.tasks)
  BY <1>1, <1>2, <1>8, <1>10, <1>13, <1>14 DEF Control
<1> QED
  BY <1>5, <1>9, <1>15

\* A handler that ends properly and is applied preserves the invariant.
LEMMA Lands ==
    ASSUME IndInv, NEW w, Core(w), Surround(w), OwnSession(w),
           NEW d, Closed(w, d), Lives(d), Apply(d)
    PROVE  IndInv'
<1>1. /\ w \in Worlds /\ d \in Worlds /\ d.id = w.id /\ d.id \in Instances
      /\ Core(d) /\ d.self.session = w.self.session
  BY DEF Core, Closed, Passed, Others, Worlds, SameLife
<1>2. app \in [Instances -> Ability]
  BY DEF IndInv, TypeOK
<1>3. /\ app' = [app EXCEPT ![d.id] = d.self]
      /\ os' = d.os /\ tasks' = d.tasks
  BY DEF Apply
<1>4. app'[d.id] = d.self /\ \A j \in Instances : j # d.id => app'[j] = app[j]
  BY <1>1, <1>2, <1>3
<1>5. TypeOK'
  <2>1. app' \in [Instances -> Ability]
    BY <1>1, <1>2, <1>3 DEF Worlds
  <2> QED
    BY <2>1, <1>1, <1>3 DEF TypeOK, Worlds, Shared
<1>6. Surround(d)
  BY <1>1, SurroundKept DEF IndInv, Closed
<1>7. ASSUME NEW j \in Instances
      PROVE  /\ Ownership(j, app'[j], os')
             /\ Standing(j, app'[j], os')
             /\ Control(j, app'[j], os', tasks')
  <2>1. CASE j = d.id
    BY <2>1, <1>1, <1>3, <1>4 DEF Core, Closed
  <2>2. CASE j # d.id
    BY <2>2, <1>1, <1>3, <1>4, <1>6 DEF Surround
  <2> QED
    BY <2>1, <2>2
<1>8. Succession'
  <2>1. ASSUME NEW i \in Instances, NEW j \in Instances, i < j, app'[j].life # "absent"
        PROVE  app'[i].life \in {"destroyed", "killed"}
    <3>1. app[j].life # "absent" => app[i].life \in {"destroyed", "killed"}
      BY <2>1 DEF IndInv, Succession
    <3>2. CASE i = d.id
      <4>1. j # d.id /\ app'[j] = app[j]
        BY <1>4, <2>1, <3>2 DEF Instances
      <4> QED
        BY <2>1, <3>1, <3>2, <4>1, <1>4 DEF Lives
    <3>3. CASE j = d.id
      <4>1. i # d.id /\ app'[i] = app[i] /\ i \in 1 .. d.id - 1
        BY <1>1, <1>4, <2>1, <3>3, InstancesAssumption DEF Instances
      <4> QED
        BY <2>1, <3>1, <3>3, <4>1, <1>4 DEF Lives
    <3>4. CASE i # d.id /\ j # d.id
      BY <1>4, <2>1, <3>1, <3>4
    <3> QED
      BY <3>2, <3>3, <3>4
  <2>2. ASSUME NEW i \in Instances, NEW j \in Instances, i # j,
               app'[i].session = app'[j].session
        PROVE  app'[i].session = 0
    BY <2>2, <1>1, <1>4 DEF IndInv, Succession, OwnSession
  <2> QED
    BY <2>1, <2>2 DEF Succession
<1>9. StopIsSaved'
  <2> SUFFICES ASSUME NEW i \in Instances, app'[i].life = "destroyed",
                      \A j \in i + 1 .. MaxInstances : app'[j].life = "absent"
               PROVE  os'.saved = "stopped"
    BY DEF StopIsSaved
  <2>1. CASE i = d.id
    <3>1. \A j \in i + 1 .. MaxInstances : app[j].life = "absent"
      <4> TAKE j \in i + 1 .. MaxInstances
      <4>1. j \in Instances /\ j # d.id
        BY <2>1, InstancesAssumption DEF Instances
      <4> QED
        BY <4>1, <1>4
    <3> QED
      BY <2>1, <3>1, <1>3, <1>4 DEF Lives, IndInv, StopIsSaved
  <2>2. CASE i # d.id
    <3>1. app[i].life = "destroyed"
      BY <2>2, <1>4
    <3>2. CASE i < d.id
      <4>1. d.id \in i + 1 .. MaxInstances
        BY <1>1, <3>2, InstancesAssumption DEF Instances
      <4>2. d.self.life = "absent"
        BY <1>4, <4>1
      <4> QED
        BY <4>2 DEF Lives
    <3>3. CASE d.id < i
      <4>1. app[d.id].life \in {"destroyed", "killed"}
        BY <1>1, <3>1, <3>3 DEF IndInv, Succession
      <4>2. d.os.saved = os.saved
        BY <4>1 DEF Lives
      <4>3. \A j \in i + 1 .. MaxInstances : app[j].life = "absent"
        <5> TAKE j \in i + 1 .. MaxInstances
        <5>1. j \in Instances /\ j # d.id
          BY <1>1, <3>3, InstancesAssumption DEF Instances
        <5> QED
          BY <5>1, <1>4
      <4> QED
        BY <3>1, <4>2, <4>3, <1>3 DEF IndInv, StopIsSaved
    <3> QED
      BY <1>1, <2>2, <3>2, <3>3, InstancesAssumption DEF Instances
  <2> QED
    BY <2>1, <2>2
<1>10. ~os'.stray
  BY <1>1, <1>3 DEF Core
<1> QED
  BY <1>5, <1>7, <1>8, <1>9, <1>10 DEF IndInv

-------------------------------------------------------------------------------
(* The actions. *)

\* The world in which a handler of ability i begins.
LEMMA WorldFacts ==
    ASSUME IndInv, NEW i \in Instances
    PROVE  LET w == World(i) IN
           /\ w.id = i /\ w.self = app[i] /\ w.os = os /\ w.tasks = tasks
           /\ Core(w) /\ Control(i, w.self, w.os, w.tasks)
<1> DEFINE w == World(i)
<1>1. w.id = i /\ w.self = app[i] /\ w.os = os /\ w.tasks = tasks
  BY DEF World
<1>2. w \in Worlds
  <2>1. app[i] \in Ability /\ os \in Shared /\ tasks \in SUBSET Task
    BY DEF IndInv, TypeOK, Shared
  <2> QED
    BY <2>1 DEF World, Worlds
<1> HIDE DEF w
<1>3. Core(w) /\ Control(i, w.self, w.os, w.tasks)
  BY <1>1, <1>2 DEF IndInv, Core
<1> QED
  BY <1>1, <1>3 DEF w

\* A handler that changed only its own ability and its own tasks so far.
LEMMA Surrounded ==
    ASSUME IndInv, NEW w, Core(w), SameShared(os, w.os),
           \A t \in Task : t.owner # w.id => (t \in w.tasks <=> t \in tasks),
           w.self.session = app[w.id].session
    PROVE  Surround(w) /\ OwnSession(w)
<1>1. w.id \in Instances /\ w.tasks \subseteq Task /\ tasks \subseteq Task
  BY DEF Core, Worlds, IndInv, TypeOK
<1>2. OwnSession(w)
  BY <1>1 DEF OwnSession, IndInv, Succession
<1>3. ASSUME NEW j \in Instances, j # w.id
      PROVE  /\ Ownership(j, app[j], w.os)
             /\ Standing(j, app[j], w.os)
             /\ Control(j, app[j], w.os, w.tasks)
  <2>1. /\ Ownership(j, app[j], os)
        /\ Standing(j, app[j], os)
        /\ Control(j, app[j], os, tasks)
    BY DEF IndInv
  <2>2. \A t \in Task : t.owner = j => (t \in w.tasks <=> t \in tasks)
    BY <1>3
  <2>3. NoTaskOf(j, w.tasks) <=> NoTaskOf(j, tasks)
    BY <1>1, <2>2 DEF NoTaskOf
  <2>4. (\A t, u \in tasks : t.owner = j /\ u.owner = j => t = u)
          => (\A t, u \in w.tasks : t.owner = j /\ u.owner = j => t = u)
    BY <1>1, <2>2
  <2>5. Ownership(j, app[j], w.os) /\ Standing(j, app[j], w.os)
    BY <2>1 DEF SameShared, Ownership, Standing
  <2>6. Control(j, app[j], w.os, w.tasks)
    BY <2>1, <2>3, <2>4 DEF SameShared, Control
  <2> QED
    BY <2>5, <2>6
<1> QED
  BY <1>2, <1>3 DEF Surround

\* onDestroy preserves the invariant.
LEMMA OnDestroyStep ==
    ASSUME IndInv, NEW i \in Instances, OnDestroy(i)
    PROVE  IndInv'
<1> DEFINE w == World(i)
           d == Destroy(w)
<1>1. /\ w.id = i /\ w.self = app[i] /\ w.os = os /\ w.tasks = tasks
      /\ Core(w) /\ Control(i, w.self, w.os, w.tasks)
  BY WorldFacts
<1>2. app[i].life = "live" /\ Apply(d)
  BY DEF OnDestroy
<1> HIDE DEF w
<1>3. PICK v : /\ Core(v) /\ v.id = w.id /\ v.tasks = w.tasks
               /\ SameShared(w.os, v.os) /\ v.self.session = w.self.session
               /\ Closed(v, d)
               /\ d.self.life = "destroyed"
               /\ d.os.saved = "stopped"
  BY <1>1, <1>2, DestroyFacts
<1> HIDE DEF d
<1>4. Surround(v) /\ OwnSession(v)
  BY <1>1, <1>3, Surrounded
<1>5. d.id = i
  BY <1>1, <1>3 DEF Closed, Passed, Others
<1>6. Lives(d)
  BY <1>2, <1>3, <1>5 DEF Lives
<1> QED
  BY <1>2, <1>3, <1>4, <1>6, Lands

\* A handler of an ability that stays as it is lives on.
LEMMA LivesOn ==
    ASSUME IndInv, NEW w, Core(w), NEW d, Closed(w, d), app[w.id].life # "absent",
           w.self.life = app[w.id].life, w.os.saved = os.saved
    PROVE  Lives(d)
<1>1. d.id = w.id /\ w.id \in Instances /\ d.self.life = app[w.id].life
  BY DEF Closed, Passed, Others, SameLife, Core, Worlds
<1>2. CASE app[w.id].life = "live"
  <2>1. ASSUME NEW j \in 1 .. w.id - 1
        PROVE  app[j].life \in {"destroyed", "killed"}
    <3>1. j \in Instances /\ j < w.id
      BY <1>1, InstancesAssumption DEF Instances
    <3> QED
      BY <1>1, <1>2, <3>1 DEF IndInv, Succession
  <2> QED
    BY <1>1, <1>2, <2>1 DEF Lives
<1>3. CASE app[w.id].life # "live"
  <2>1. app[w.id].life \in {"destroyed", "killed"}
    BY <1>1, <1>3 DEF IndInv, TypeOK, Ability
  <2>2. w.self.stopped
    BY <1>3 DEF Core, Standing
  <2> QED
    BY <1>1, <2>1, <2>2 DEF Lives, Closed
<1> QED
  BY <1>2, <1>3

\* So does the interval timer.
LEMMA TickStep ==
    ASSUME IndInv, NEW i \in Instances, Tick(i)
    PROVE  IndInv'
<1> DEFINE w == World(i)
           d == TickAbility(w)
<1>1. /\ w.id = i /\ w.self = app[i] /\ w.os = os /\ w.tasks = tasks
      /\ Core(w) /\ Control(i, w.self, w.os, w.tasks)
  BY WorldFacts
<1>2. app[i].life = "live" /\ ~app[i].stopped /\ Apply(d)
  BY DEF Tick
<1> HIDE DEF w
<1>3. Closed(w, d)
  BY <1>1, <1>2, TickFacts
<1> HIDE DEF d
<1>4. Surround(w) /\ OwnSession(w)
  <2>1. SameShared(os, w.os)
    BY <1>1 DEF SameShared
  <2> QED
    BY <1>1, <2>1, Surrounded
<1>5. Lives(d)
  BY <1>1, <1>2, <1>3, LivesOn
<1> QED
  BY <1>1, <1>2, <1>3, <1>4, <1>5, Lands

\* So does the retry timer, which gives its turn to a new attempt.
LEMMA RetryStep ==
    ASSUME IndInv, NEW i \in Instances, Retry(i)
    PROVE  IndInv'
<1> DEFINE v == World(i)
           s == [app[i] EXCEPT !.retry = @ - 1, !.generation = @ + 1]
           w == [v EXCEPT !.self = s]
<1>1. /\ v.id = i /\ v.self = app[i] /\ v.os = os /\ v.tasks = tasks
      /\ Core(v) /\ Control(i, v.self, v.os, v.tasks)
  BY WorldFacts
<1>2. app[i].retry > 0 /\ app[i].generation < MaxGeneration
  BY DEF Retry
<1>3. v \in Worlds /\ app[i] \in Ability
  BY <1>1 DEF Core, IndInv, TypeOK
<1>4. /\ ~app[i].stopped /\ app[i].retry = 1 /\ HoldsNothing(app[i])
      /\ NoTaskOf(i, tasks) /\ app[i].session # 0 /\ app[i].state # "connected"
      /\ app[i].life = "live"
  <2>1. app[i].retry \in Nat
    BY <1>3 DEF Ability
  <2> QED
    BY <1>1, <1>2, <2>1 DEF Control, Core, Standing
<1>5. PICK ok \in BOOLEAN : Apply(Establish(w, ok))
  BY <1>1, <1>3 DEF Retry, Worlds, Ability
<1>6. /\ s \in Ability /\ s.retry = 0 /\ s.generation = app[i].generation + 1
      /\ s.life = app[i].life /\ s.stopped = app[i].stopped /\ s.session = app[i].session
      /\ s.state = app[i].state /\ SameFds(app[i], s)
  <2>1. app[i].retry - 1 = 0 /\ 0 \in Nat
    BY <1>4
  <2>2. app[i].generation + 1 \in 0 .. MaxGeneration + 1
    BY <1>2, <1>3, GenerationAssumption DEF Ability
  <2>3. s = [app[i] EXCEPT !.retry = 0, !.generation = app[i].generation + 1]
    BY <2>1
  <2> HIDE DEF s
  <2>4. s \in Ability
    BY <1>3, <2>1, <2>2, <2>3 DEF Ability
  <2> QED
    BY <1>3, <2>3, <2>4 DEF Ability, SameFds
<1> HIDE DEF s, v
<1>7. w \in Worlds /\ w.id = i /\ w.self = s /\ w.os = os /\ w.tasks = tasks
  BY <1>1, <1>3, <1>6 DEF Worlds
<1> HIDE DEF w
<1>8. Core(w)
  <2>1. s.generation <= MaxGeneration
    BY <1>2, <1>3, <1>6, GenerationAssumption DEF Ability
  <2> QED
    BY <1>1, <1>4, <1>6, <1>7, <2>1 DEF Core, Ownership, Standing, SameFds
<1>9. Quiet(w) /\ HoldsNothing(w.self) /\ ~w.self.stopped
  BY <1>4, <1>6, <1>7, <1>8 DEF Quiet, HoldsNothing, SameFds
<1>10. Closed(w, Establish(w, ok))
  BY <1>9, EstablishFacts
<1>11. Surround(w) /\ OwnSession(w)
  <2>1. SameShared(os, w.os)
    BY <1>7 DEF SameShared
  <2> QED
    BY <1>6, <1>7, <1>8, <2>1, Surrounded
<1>12. Lives(Establish(w, ok))
  BY <1>4, <1>6, <1>7, <1>8, <1>10, LivesOn
<1> QED
  BY <1>5, <1>8, <1>10, <1>11, <1>12, Lands

\* An answer of the system: the task it belongs to is gone, and it was the
\* ability's only one unless the ability is stopped.
LEMMA ResumeStep ==
    ASSUME IndInv, NEW t \in tasks, Resume(t)
    PROVE  IndInv'
<1> DEFINE i == t.owner
           v == World(i)
           w == [v EXCEPT !.tasks = @ \ {t}]
<1>1. t \in Task /\ i \in Instances /\ t.gen \in 0 .. MaxGeneration + 1
  BY DEF IndInv, TypeOK, Task
<1>2. /\ v.id = i /\ v.self = app[i] /\ v.os = os /\ v.tasks = tasks
      /\ Core(v) /\ Control(i, v.self, v.os, v.tasks)
  BY <1>1, WorldFacts
<1>3. \/ t.pc = "protect" /\ Apply(EstablishNext(w, t.gen, "connect"))
      \/ t.pc = "connect" /\ Apply(EstablishNext(w, t.gen, "create"))
      \/ FreeFds(w) # {} /\ \E ok \in BOOLEAN : Apply(EstablishEnd(w, t.gen, ok))
      \/ \E then \in Answers : Apply(Cleanup(w, then, t.gen))
      \/ Apply(CleanupEnd(w, t.then, t.gen))
  BY DEF Resume, Answers
<1> HIDE DEF v
<1>4. v \in Worlds
  BY <1>2 DEF Core
<1>5. w \in Worlds /\ w.id = i /\ w.self = app[i] /\ w.os = os /\ w.tasks = tasks \ {t}
  BY <1>2, <1>4 DEF Worlds
<1> HIDE DEF w, i
<1>6. Core(w)
  BY <1>2, <1>5 DEF Core
<1>7. ~NoTaskOf(i, tasks)
  BY DEF NoTaskOf, i
<1>8. /\ w.self.tunFd = NoFd /\ w.self.session # 0 /\ w.self.retry = 0
      /\ w.self.stopped => w.os.worker # w.id
      /\ ~w.self.stopped => w.self.state # "connected"
  <2>1. app[i].retry \in Nat
    BY <1>5 DEF Worlds, Ability
  <2> QED
    BY <1>2, <1>5, <1>7, <2>1 DEF Control
<1>9. ~w.self.stopped => NoTaskOf(w.id, w.tasks)
  BY <1>2, <1>5 DEF Control, NoTaskOf, i
<1>10. Quiet(w)
  BY <1>6, <1>8, <1>9 DEF Quiet
<1>11. Surround(w) /\ OwnSession(w)
  <2>1. SameShared(os, w.os)
    BY <1>5 DEF SameShared
  <2>2. \A u \in Task : u.owner # w.id => (u \in w.tasks <=> u \in tasks)
    BY <1>5 DEF i
  <2> QED
    BY <1>5, <1>6, <2>1, <2>2, Surrounded
<1>12. app[i].life # "absent"
  BY <1>2, <1>5, <1>8 DEF Core, Standing
<1>13. ASSUME NEW d, Closed(w, d), Apply(d)
       PROVE  IndInv'
  <2>1. Lives(d)
    BY <1>5, <1>6, <1>12, <1>13, LivesOn
  <2> QED
    BY <1>6, <1>11, <1>13, <2>1, Lands
<1>14. CASE t.pc = "protect" /\ Apply(EstablishNext(w, t.gen, "connect"))
  BY <1>1, <1>8, <1>10, <1>13, <1>14, EstablishNextFacts
<1>15. CASE t.pc = "connect" /\ Apply(EstablishNext(w, t.gen, "create"))
  BY <1>1, <1>8, <1>10, <1>13, <1>15, EstablishNextFacts
<1>16. CASE FreeFds(w) # {} /\ \E ok \in BOOLEAN : Apply(EstablishEnd(w, t.gen, ok))
  BY <1>1, <1>8, <1>10, <1>13, <1>16, EstablishEndFacts
<1>17. CASE \E then \in Answers : Apply(Cleanup(w, then, t.gen))
  BY <1>1, <1>10, <1>13, <1>17, CleanupFacts
<1>18. CASE Apply(CleanupEnd(w, t.then, t.gen))
  BY <1>8, <1>10, <1>13, <1>18, CleanupEndFacts
<1> QED
  BY <1>3, <1>14, <1>15, <1>16, <1>17, <1>18

\* onCreate up to its first failure: the ability is live and holds nothing.
LEMMA CreatedFacts ==
    ASSUME IndInv, NEW i \in Instances, app[i].life = "absent",
           NEW w \in Worlds, w.id = i, w.os = os, w.tasks = tasks,
           w.self.life = "live", w.self.session = 0, w.self.generation = 0,
           w.self.retry = 0, w.self.state # "connected", SameFds(app[i], w.self)
    PROVE  /\ Core(w) /\ Surround(w) /\ OwnSession(w)
           /\ HoldsNothing(w.self) /\ NoTaskOf(i, w.tasks)
           /\ Control(i, w.self, w.os, w.tasks)
<1>1. /\ Ownership(i, app[i], os) /\ Standing(i, app[i], os)
      /\ Control(i, app[i], os, tasks) /\ ~os.stray
  BY DEF IndInv
<1>2. app[i].session = 0 /\ app[i].stopped
  BY <1>1 DEF Standing
<1>3. HoldsNothing(w.self) /\ NoTaskOf(i, w.tasks) /\ os.worker # i
  BY <1>1, <1>2 DEF Control, HoldsNothing, SameFds
<1>4. Core(w)
  BY <1>1, <1>2, GenerationAssumption DEF Core, Ownership, Standing, SameFds
<1>5. SameShared(os, w.os)
  BY DEF SameShared
<1>6. Surround(w) /\ OwnSession(w)
  BY <1>2, <1>4, <1>5, Surrounded
<1>7. Control(i, w.self, w.os, w.tasks)
  BY <1>3 DEF Control, HoldsNothing, NoTaskOf
<1> QED
  BY <1>3, <1>4, <1>6, <1>7

\* A new session: everyone else's is over, and its worker is stopped.
LEMMA NewSessionFacts ==
    ASSUME IndInv, NEW i \in Instances, app[i].life = "absent",
           \A j \in 1 .. i - 1 : app[j].life \in {"destroyed", "killed"},
           NEW w \in Worlds, w.id = i, w.tasks = tasks,
           w.os.fds = os.fds, w.os.session = os.session + 1, w.os.worker = 0, ~w.os.stray,
           w.self.life = "live", ~w.self.stopped, w.self.session = os.session + 1,
           w.self.generation = 1, w.self.retry = 0, w.self.state # "connected",
           SameFds(app[i], w.self)
    PROVE  /\ Quiet(w) /\ HoldsNothing(w.self)
           /\ Surround(w) /\ OwnSession(w)
<1>1. /\ Ownership(i, app[i], os) /\ Standing(i, app[i], os)
      /\ Control(i, app[i], os, tasks)
  BY DEF IndInv
<1>2. app[i].session = 0 /\ os.session < i /\ os.session \in Nat /\ i \in Nat \ {0}
  BY <1>1, InstancesAssumption DEF Standing, IndInv, TypeOK, Instances
<1>3. HoldsNothing(w.self) /\ NoTaskOf(i, w.tasks)
  BY <1>1, <1>2 DEF Control, HoldsNothing, SameFds
<1>4. Core(w)
  <2>1. Ownership(i, w.self, w.os)
    BY <1>1 DEF Ownership, SameFds
  <2>2. Standing(i, w.self, w.os)
    BY <1>2, GenerationAssumption DEF Standing
  <2> QED
    BY <2>1, <2>2 DEF Core
<1>5. Quiet(w)
  BY <1>2, <1>3, <1>4 DEF Quiet
<1>6. ASSUME NEW j \in Instances, j # i
      PROVE  /\ Ownership(j, app[j], w.os)
             /\ Standing(j, app[j], w.os)
             /\ Control(j, app[j], w.os, w.tasks)
             /\ app[j].session # w.self.session
  <2>1. /\ Ownership(j, app[j], os) /\ Standing(j, app[j], os)
        /\ Control(j, app[j], os, tasks)
    BY DEF IndInv
  <2>2. j \in Nat \ {0} /\ app[j].session \in Nat
    <3>1. app[j] \in Ability
      BY DEF IndInv, TypeOK
    <3>2. app[j].session \in 0 .. MaxInstances
      BY <3>1 DEF Ability
    <3> QED
      BY <3>2, InstancesAssumption DEF Instances
  <2>3. app[j].life # "live"
    <3>1. CASE j < i
      <4>1. j \in 1 .. i - 1
        BY <1>2, <2>2, <3>1
      <4> QED
        BY <4>1
    <3>2. CASE i < j
      BY <1>6, <3>2 DEF IndInv, Succession
    <3> QED
      BY <1>2, <1>6, <2>2, <3>1, <3>2
  <2>4. app[j].life = "absent" => i < j
    <3>1. CASE j < i
      <4>1. j \in 1 .. i - 1
        BY <1>2, <2>2, <3>1
      <4> QED
        BY <4>1
    <3> QED
      BY <1>2, <1>6, <2>2, <3>1
  <2>5. app[j].session <= os.session /\ app[j].stopped
    BY <2>1, <2>3 DEF Standing
  <2>6. Ownership(j, app[j], w.os)
    BY <2>1 DEF Ownership
  <2>7. Standing(j, app[j], w.os)
    BY <1>2, <2>1, <2>2, <2>3, <2>4, <2>5 DEF Standing
  <2>8. Control(j, app[j], w.os, w.tasks)
    BY <2>1, <2>2, <2>5 DEF Control
  <2> QED
    BY <1>2, <2>2, <2>5, <2>6, <2>7, <2>8
<1>7. Surround(w) /\ OwnSession(w)
  BY <1>6 DEF Surround, OwnSession
<1> QED
  BY <1>3, <1>5, <1>7

\* onCreate preserves the invariant, refused, failed or on its way.
LEMMA OnCreateStep ==
    ASSUME IndInv, NEW i \in Instances, OnCreate(i)
    PROVE  IndInv'
<1> DEFINE v == World(i)
           s == [app[i] EXCEPT !.life = "live"]
           w == [v EXCEPT !.self = s]
           r == [s EXCEPT !.stopped = FALSE]
           d == [v EXCEPT !.self = r]
           q == [r EXCEPT !.connection = TRUE]
           c == [v EXCEPT !.self = q]
           p == [q EXCEPT !.session = os.session + 1]
           x == [p EXCEPT !.generation = 1]
           n == NewSession(c)
           e == [n EXCEPT !.self = x]
<1>1. /\ v.id = i /\ v.self = app[i] /\ v.os = os /\ v.tasks = tasks
      /\ Core(v) /\ Control(i, v.self, v.os, v.tasks)
  BY WorldFacts
<1>2. /\ app[i].life = "absent"
      /\ \A j \in 1 .. i - 1 : app[j].life \in {"destroyed", "killed"}
  BY DEF OnCreate
<1>3. v \in Worlds /\ app[i] \in Ability /\ os \in Shared
  BY <1>1 DEF Core, IndInv, TypeOK, Shared
<1>4. /\ app[i].stopped /\ app[i].session = 0 /\ app[i].generation = 0
      /\ app[i].retry = 0 /\ app[i].state # "connected" /\ os.session < i
  BY <1>1, <1>2 DEF Core, Standing, Control
<1>5. /\ s \in Ability /\ s.life = "live" /\ s.stopped = app[i].stopped
      /\ s.session = 0 /\ s.generation = 0 /\ s.retry = 0 /\ s.state = app[i].state
      /\ SameFds(app[i], s)
  BY <1>3, <1>4 DEF Ability, SameFds
<1>6. /\ r \in Ability /\ r.life = "live" /\ ~r.stopped
      /\ r.session = 0 /\ r.generation = 0 /\ r.retry = 0 /\ r.state = app[i].state
      /\ SameFds(app[i], r)
  <2> HIDE DEF s
  <2> QED
    BY <1>5 DEF Ability, SameFds
<1>7. /\ x \in Ability /\ x.life = "live" /\ ~x.stopped
      /\ x.session = os.session + 1 /\ x.generation = 1 /\ x.retry = 0
      /\ x.state = app[i].state /\ SameFds(app[i], x)
  <2> HIDE DEF r
  <2>1. os.session + 1 \in 0 .. MaxInstances
    BY <1>3, <1>4, InstancesAssumption DEF Shared, Instances
  <2>2. /\ q \in Ability /\ q.life = "live" /\ ~q.stopped /\ q.retry = 0
        /\ q.state = app[i].state /\ SameFds(app[i], q)
    BY <1>6 DEF Ability, SameFds
  <2> HIDE DEF q
  <2>3. /\ p \in Ability /\ p.life = "live" /\ ~p.stopped /\ p.retry = 0
        /\ p.session = os.session + 1 /\ p.state = app[i].state /\ SameFds(app[i], p)
    BY <2>1, <2>2 DEF Ability, SameFds
  <2> HIDE DEF p
  <2>4. 1 \in 0 .. MaxGeneration + 1
    BY GenerationAssumption
  <2> QED
    BY <2>3, <2>4 DEF Ability, SameFds
<1>8. /\ n \in Worlds /\ n.id = i /\ n.tasks = tasks /\ n.self = p
      /\ n.os.fds = os.fds /\ n.os.session = os.session + 1 /\ n.os.worker = 0 /\ ~n.os.stray
  <2>1. os.session + 1 \in 0 .. MaxInstances /\ ~os.stray
    BY <1>3, <1>4, InstancesAssumption DEF Shared, Instances, IndInv
  <2>2. q \in Ability
    <3> HIDE DEF r
    <3> QED
      BY <1>6 DEF Ability
  <2> HIDE DEF q, v
  <2>3. c \in Worlds /\ c.id = i /\ c.self = q /\ c.os = os /\ c.tasks = tasks
    BY <1>1, <1>3, <2>2 DEF Worlds
  <2> HIDE DEF c
  <2> QED
    BY <2>1, <2>3, NumberFacts
<1>9. \/ Apply(w)
      \/ Apply(Publish(w, "error"))
      \/ Apply(Publish(d, "error"))
      \/ \E ok \in BOOLEAN : Apply(Establish(e, ok))
  <2>1. w = [World(i) EXCEPT !.self.life = "live"]
    BY <1>1, <1>3 DEF Worlds, Ability
  <2>2. d = [w EXCEPT !.self.stopped = FALSE]
    BY <1>1, <1>3 DEF Worlds, Ability
  <2>3. c = [d EXCEPT !.self.connection = TRUE]
    BY <1>1, <1>3 DEF Worlds, Ability
  <2>4. e = [NewSession(c) EXCEPT !.self.generation = 1]
    <3> HIDE DEF n, p
    <3> QED
      BY <1>8 DEF n, Worlds
  <2> HIDE DEF w, d, e, c, v
  <2> QED
    BY <2>1, <2>2, <2>3, <2>4 DEF OnCreate
<1> HIDE DEF s, r, x, n, v
<1>10. w \in Worlds /\ w.id = i /\ w.self = s /\ w.os = os /\ w.tasks = tasks
  BY <1>1, <1>3, <1>5 DEF Worlds
<1>11. d \in Worlds /\ d.id = i /\ d.self = r /\ d.os = os /\ d.tasks = tasks
  BY <1>1, <1>3, <1>6 DEF Worlds
<1>12. e \in Worlds /\ e.id = i /\ e.self = x /\ e.os = n.os /\ e.tasks = tasks
  BY <1>1, <1>3, <1>7, <1>8 DEF Worlds
<1> HIDE DEF w, d, e
<1>13. /\ Core(w) /\ Surround(w) /\ OwnSession(w)
       /\ HoldsNothing(w.self) /\ NoTaskOf(i, w.tasks) /\ Control(i, w.self, w.os, w.tasks)
  BY <1>2, <1>4, <1>5, <1>10, CreatedFacts
<1>14. /\ Core(d) /\ Surround(d) /\ OwnSession(d)
       /\ HoldsNothing(d.self) /\ NoTaskOf(i, d.tasks) /\ Control(i, d.self, d.os, d.tasks)
  BY <1>2, <1>4, <1>6, <1>11, CreatedFacts
<1>15. Quiet(e) /\ HoldsNothing(e.self) /\ Surround(e) /\ OwnSession(e) /\ ~e.self.stopped
  BY <1>2, <1>4, <1>7, <1>8, <1>12, NewSessionFacts
<1>16. ASSUME NEW b, NEW a, Core(b), Surround(b), OwnSession(b), b.id = i, b.self.life = "live",
              Closed(b, a), Apply(a)
       PROVE  IndInv'
  <2>1. a.id = i /\ a.self.life = "live"
    BY <1>16 DEF Closed, Passed, Others, SameLife
  <2>2. Lives(a)
    BY <1>2, <2>1 DEF Lives
  <2> QED
    BY <1>16, <2>2, Lands
<1>17. ASSUME NEW b, Core(b), b.id = i, Control(i, b.self, b.os, b.tasks)
       PROVE  Closed(b, b)
  BY <1>17 DEF Closed, Passed, Others, SameLife
<1>18. CASE Apply(w)
  <2>1. Closed(w, w)
    BY <1>5, <1>10, <1>13, <1>17
  <2> QED
    BY <1>5, <1>10, <1>13, <1>16, <1>18, <2>1
<1>19. ASSUME NEW b \in {w, d}, Apply(Publish(b, "error"))
       PROVE  IndInv'
  <2> DEFINE a == Publish(b, "error")
  <2>1. /\ b \in Worlds /\ b.id = i /\ b.self.life = "live" /\ b.self.session = 0
        /\ Core(b) /\ Surround(b) /\ OwnSession(b)
        /\ HoldsNothing(b.self) /\ NoTaskOf(i, b.tasks) /\ Control(i, b.self, b.os, b.tasks)
    BY <1>5, <1>6, <1>10, <1>11, <1>13, <1>14
  <2>2. "error" \in AbilityStates
    BY DEF AbilityStates
  <2>3. /\ a \in Worlds
        /\ a.id = b.id /\ a.tasks = b.tasks
        /\ SameLife(b.self, a.self) /\ SameFds(b.self, a.self)
        /\ a.self.retry = b.self.retry
        /\ SameShared(b.os, a.os)
        /\ a.self.state = "error"
    BY <2>1, <2>2, PublishFacts
  <2> HIDE DEF a
  <2>4. Passed(b, a)
    BY <2>1, <2>3, PassedSame
  <2>5. Control(i, a.self, a.os, a.tasks)
    BY <2>1, <2>3 DEF Control, SameLife, SameFds, SameShared, HoldsNothing, NoTaskOf
  <2>6. Core(a) /\ Surround(a) /\ OwnSession(a) /\ a.self.life = "live" /\ a.self.session = 0
    BY <2>1, <2>3, <2>4, SurroundKept DEF Passed, SameLife, OwnSession, IndInv
  <2>7. Closed(a, a)
    BY <1>17, <2>1, <2>3, <2>5, <2>6
  <2> QED
    BY <1>16, <1>19, <2>1, <2>3, <2>6, <2>7 DEF a
<1>20. CASE \E ok \in BOOLEAN : Apply(Establish(e, ok))
  <2>1. PICK ok \in BOOLEAN : Apply(Establish(e, ok))
    BY <1>20
  <2>2. Closed(e, Establish(e, ok))
    BY <1>15, EstablishFacts
  <2>3. Core(e)
    BY <1>15 DEF Quiet
  <2> QED
    BY <1>7, <1>12, <1>15, <1>16, <2>1, <2>2, <2>3
<1> QED
  BY <1>9, <1>18, <1>19, <1>20

\* The tunnel thread ends by itself: its ability still has it to watch.
LEMMA WorkerFailsStep ==
    ASSUME IndInv, WorkerFails
    PROVE  IndInv'
<1>1. /\ app' = app /\ tasks' = tasks /\ os \in Shared
      /\ os' = [os EXCEPT !.running = FALSE]
  BY DEF WorkerFails, IndInv, TypeOK, Shared
<1>2. /\ os' \in Shared /\ os'.fds = os.fds /\ os'.session = os.session
      /\ os'.worker = os.worker /\ os'.saved = os.saved /\ os'.stray = os.stray
  BY <1>1 DEF Shared
<1>3. TypeOK'
  BY <1>1, <1>2 DEF IndInv, TypeOK, Shared
<1>4. Succession' /\ StopIsSaved'
  BY <1>1, <1>2 DEF IndInv, Succession, StopIsSaved
<1>5. ASSUME NEW i \in Instances
      PROVE  /\ Ownership(i, app'[i], os')
             /\ Standing(i, app'[i], os')
             /\ Control(i, app'[i], os', tasks')
  <2>1. Ownership(i, app[i], os) /\ Standing(i, app[i], os) /\ Control(i, app[i], os, tasks)
    BY DEF IndInv
  <2> QED
    BY <1>1, <1>2, <2>1 DEF Ownership, Standing, Control
<1> QED
  BY <1>2, <1>3, <1>4, <1>5 DEF IndInv

\* An ability without a process.
Reset(life) == [NewAbility EXCEPT !.life = life]

\* It holds nothing and waits for nothing.
LEMMA NewAbilityFacts ==
    ASSUME NEW life \in {"absent", "destroyed", "killed"}, NEW i \in Instances,
           NEW o, o.session = 0, o.worker = 0, \A f \in Fds : o.fds[f] = Free,
           NEW s, s = Reset(life) \/ (s = NewAbility /\ life = "absent")
    PROVE  /\ s \in Ability /\ s.life = life /\ s.session = 0
           /\ Ownership(i, s, o) /\ Standing(i, s, o) /\ Control(i, s, o, {})
<1>1. /\ s.life = life /\ s.stopped = TRUE /\ s.generation = 0 /\ s.session = 0
      /\ s.socketFd = NoFd /\ s.tunFd = NoFd /\ s.retry = 0 /\ s.state = "stopped"
  BY DEF NewAbility, Reset
<1>2. s \in Ability
  <2>1. 0 \in 0 .. MaxGeneration + 1 /\ 0 \in 0 .. MaxInstances
    BY InstancesAssumption, GenerationAssumption
  <2>2. NewAbility \in Ability
    BY <2>1 DEF NewAbility, Ability, AbilityStates
  <2>3. Reset(life) \in Ability
    BY <2>2 DEF Reset, Ability
  <2> QED
    BY <2>2, <2>3
<1>3. Ownership(i, s, o)
  <2>1. \A k \in {"sock", "tun"} : Free # <<i, k>>
    BY InstancesAssumption DEF Free, Instances
  <2> QED
    BY <1>1, <2>1 DEF Ownership
<1>4. Standing(i, s, o)
  BY <1>1, InstancesAssumption DEF Standing, Instances
<1>5. Control(i, s, o, {})
  BY <1>1, InstancesAssumption DEF Control, HoldsNothing, NoTaskOf, Instances
<1> QED
  BY <1>1, <1>2, <1>3, <1>4, <1>5

\* The process ends: only the status file survives.
LEMMA KillStep ==
    ASSUME IndInv, Kill
    PROVE  IndInv'
<1> DEFINE L(i) == IF app[i].life = "live" THEN "killed" ELSE app[i].life
<1>1. /\ app' = [i \in Instances |-> Reset(L(i))]
      /\ os' = [NewOs EXCEPT !.saved = os.saved] /\ tasks' = {}
  BY DEF Kill, Reset
<1>2. os.saved \in AbilityStates
  BY DEF IndInv, TypeOK
<1>3. /\ os'.fds = [f \in Fds |-> Free] /\ os'.session = 0 /\ os'.worker = 0
      /\ os'.running = FALSE /\ os'.saved = os.saved /\ os'.stray = FALSE
  BY <1>1 DEF NewOs
<1>4. os' \in Shared
  <2>1. [f \in Fds |-> Free] \in [Fds -> {Free} \cup (Instances \X {"sock", "tun"})]
    OBVIOUS
  <2>2. 0 \in 0 .. MaxInstances
    BY InstancesAssumption
  <2> QED
    BY <1>1, <1>2, <2>1, <2>2 DEF NewOs, Shared
<1>5. ASSUME NEW i \in Instances
      PROVE  /\ L(i) \in {"absent", "destroyed", "killed"}
             /\ app'[i] = Reset(L(i))
             /\ app'[i] \in Ability /\ app'[i].life = L(i) /\ app'[i].session = 0
             /\ Ownership(i, app'[i], os') /\ Standing(i, app'[i], os')
             /\ Control(i, app'[i], os', tasks')
  <2>1. app[i].life \in {"absent", "live", "destroyed", "killed"}
    BY DEF IndInv, TypeOK, Ability
  <2>2. L(i) \in {"absent", "destroyed", "killed"}
    BY <2>1
  <2>3. app'[i] = Reset(L(i))
    BY <1>1
  <2>4. \A f \in Fds : os'.fds[f] = Free
    BY <1>3
  <2> HIDE DEF L
  <2>5. ASSUME NEW life, life = L(i), NEW s, s = app'[i], NEW o, o = os'
        PROVE  /\ s \in Ability /\ s.life = life /\ s.session = 0
               /\ Ownership(i, s, o) /\ Standing(i, s, o) /\ Control(i, s, o, {})
    BY <1>3, <2>2, <2>3, <2>4, <2>5, NewAbilityFacts
  <2> QED
    BY <1>1, <2>2, <2>3, <2>5
<1>6. \A i \in Instances : /\ app'[i].life = "absent" <=> app[i].life = "absent"
                           /\ app'[i].life = "destroyed" <=> app[i].life = "destroyed"
                           /\ app[i].life = "killed" => app'[i].life = "killed"
  BY <1>5
<1> HIDE DEF L
<1>7. TypeOK'
  <2>1. app' \in [Instances -> Ability]
    <3>1. app' = [i \in Instances |-> app'[i]]
      BY <1>1, <1>5
    <3> QED
      BY <3>1, <1>5
  <2> QED
    BY <1>1, <1>4, <2>1 DEF TypeOK, Shared
<1>8. Succession'
  BY <1>5, <1>6 DEF IndInv, Succession
<1>9. StopIsSaved'
  <2> SUFFICES ASSUME NEW i \in Instances, app'[i].life = "destroyed",
                      \A j \in i + 1 .. MaxInstances : app'[j].life = "absent"
               PROVE  os'.saved = "stopped"
    BY DEF StopIsSaved
  <2>1. \A j \in i + 1 .. MaxInstances : j \in Instances
    BY InstancesAssumption DEF Instances
  <2> QED
    BY <1>3, <1>6, <2>1 DEF IndInv, StopIsSaved
<1> QED
  BY <1>3, <1>5, <1>7, <1>8, <1>9 DEF IndInv

-------------------------------------------------------------------------------
(* The theorems. *)

\* The process starts in the invariant.
LEMMA InitInv == Init => IndInv
<1> SUFFICES ASSUME Init
             PROVE  IndInv
  OBVIOUS
<1>1. /\ os = NewOs /\ tasks = {} /\ app = [i \in Instances |-> NewAbility]
  BY DEF Init
<1>2. /\ os.fds = [f \in Fds |-> Free] /\ os.session = 0 /\ os.worker = 0
      /\ os.running = FALSE /\ os.saved = "stopped" /\ os.stray = FALSE
  BY <1>1 DEF NewOs
<1>3. os \in Shared
  <2>1. [f \in Fds |-> Free] \in [Fds -> {Free} \cup (Instances \X {"sock", "tun"})]
    OBVIOUS
  <2>2. 0 \in 0 .. MaxInstances /\ "stopped" \in AbilityStates
    BY InstancesAssumption DEF AbilityStates
  <2> QED
    BY <1>1, <2>1, <2>2 DEF NewOs, Shared
<1>4. ASSUME NEW i \in Instances
      PROVE  /\ app[i] \in Ability /\ app[i].life = "absent" /\ app[i].session = 0
             /\ Ownership(i, app[i], os) /\ Standing(i, app[i], os)
             /\ Control(i, app[i], os, tasks)
  <2>1. app[i] = NewAbility
    BY <1>1
  <2>2. \A f \in Fds : os.fds[f] = Free
    BY <1>2
  <2> QED
    BY <1>1, <1>2, <2>1, <2>2, NewAbilityFacts
<1>5. TypeOK
  BY <1>1, <1>3, <1>4 DEF TypeOK, Shared
<1>6. Succession /\ StopIsSaved
  BY <1>2, <1>4 DEF Succession, StopIsSaved
<1> QED
  BY <1>2, <1>4, <1>5, <1>6 DEF IndInv

\* Every step preserves it.
LEMMA NextInv == IndInv /\ [Next]_vars => IndInv'
<1> SUFFICES ASSUME IndInv, [Next]_vars
             PROVE  IndInv'
  OBVIOUS
<1>1. ASSUME NEW i \in Instances, OnCreate(i) \/ OnDestroy(i) \/ Tick(i) \/ Retry(i)
      PROVE  IndInv'
  BY <1>1, OnCreateStep, OnDestroyStep, TickStep, RetryStep
<1>2. ASSUME NEW t \in tasks, Resume(t)
      PROVE  IndInv'
  BY <1>2, ResumeStep
<1>3. CASE WorkerFails
  BY <1>3, WorkerFailsStep
<1>4. CASE Kill
  BY <1>4, KillStep
<1>5. CASE UNCHANGED vars
  BY <1>5 DEF vars, IndInv, TypeOK, Succession, StopIsSaved
<1> QED
  BY <1>1, <1>2, <1>3, <1>4, <1>5 DEF Next

\* IndInv holds in every reachable state.
THEOREM Invariance == Spec => []IndInv
<1>1. Init => IndInv
  BY InitInv
<1>2. IndInv /\ [Next]_vars => IndInv'
  BY NextInv
<1> QED
  BY <1>1, <1>2, PTL DEF Spec

\* Type correctness: in particular the generations, sessions and descriptors stay
\* in the ranges their bounds give them.
THEOREM TypeCorrect == Spec => []TypeOK
<1>1. IndInv => TypeOK
  BY DEF IndInv
<1> QED
  BY <1>1, Invariance, PTL

\* Stop is final: whatever protect, connect, create and destroy answer after
\* onDestroy, no worker runs for a stopped ability, and no descriptor is left.
THEOREM StopFinal == Spec => []StopIsFinal
<1>1. IndInv => StopIsFinal
  <2> SUFFICES ASSUME IndInv
               PROVE  StopIsFinal
    OBVIOUS
  <2>1. NoTunnelAfterStop
    <3> SUFFICES ASSUME os.worker # 0
                 PROVE  ~app[os.worker].stopped
      BY DEF NoTunnelAfterStop
    <3>1. os.worker \in Instances
      BY InstancesAssumption DEF IndInv, TypeOK, Instances
    <3> QED
      BY <3>1 DEF IndInv, Control
  <2>2. StoppedHoldsNothing
    BY DEF StoppedHoldsNothing, IndInv, Control, NoTaskOf
  <2> QED
    BY <2>1, <2>2 DEF StopIsFinal
<1> QED
  BY <1>1, Invariance, PTL

\* No descriptor is leaked, closed twice or closed for someone else, although a
\* late cleanup() may overlap the attempt of a later ability.
THEOREM DescriptorsAreOwned == Spec => []DescriptorsOwned
<1>1. IndInv => DescriptorsOwned
  <2> SUFFICES ASSUME IndInv
               PROVE  DescriptorsOwned
    OBVIOUS
  <2>1. ASSUME NEW f \in Fds, os.fds[f] # Free
        PROVE  LET a == app[os.fds[f][1]] IN
               IF os.fds[f][2] = "sock" THEN a.socketFd = f ELSE a.tunFd = f
    <3>1. PICK i \in Instances, k \in {"sock", "tun"} : os.fds[f] = <<i, k>>
      BY <2>1 DEF IndInv, TypeOK
    <3>2. Ownership(i, app[i], os)
      BY DEF IndInv
    <3> QED
      BY <3>1, <3>2 DEF Ownership
  <2> QED
    BY <2>1 DEF DescriptorsOwned, IndInv
<1> QED
  BY <1>1, Invariance, PTL

\* One attempt at a time: the suspended calls of an ability that is not stopped
\* and its retry timers are together at most one.
THEOREM AttemptsExclude == Spec => []OneAttempt
<1>1. IndInv => OneAttempt
  <2> SUFFICES ASSUME IndInv, NEW i \in Instances, ~app[i].stopped
               PROVE  app[i].retry + Cardinality({t \in tasks : t.owner = i}) <= 1
    BY DEF OneAttempt
  <2> DEFINE T == {t \in tasks : t.owner = i}
  <2>1. app[i].retry \in Nat
    BY DEF IndInv, TypeOK, Ability
  <2>2. Control(i, app[i], os, tasks)
    BY DEF IndInv
  <2>3. CASE T = {}
    <3>1. Cardinality(T) = 0
      BY <2>3, FS_EmptySet
    <3> QED
      BY <2>1, <2>2, <3>1 DEF Control
  <2>4. CASE T # {}
    <3>1. PICK t : t \in T
      BY <2>4
    <3>2. T = {t}
      BY <2>2, <3>1 DEF Control
    <3>3. Cardinality(T) = 1
      BY <3>2, FS_Singleton
    <3>4. app[i].retry = 0
      BY <2>1, <2>2, <3>1 DEF Control, NoTaskOf
    <3> QED
      BY <3>3, <3>4
  <2> QED
    BY <2>3, <2>4
<1> QED
  BY <1>1, Invariance, PTL

\* An ability that reports "connected" has its own worker to watch.
THEOREM ConnectedWatched == Spec => []ConnectedHasWorker
<1>1. IndInv => ConnectedHasWorker
  BY DEF IndInv, Control, ConnectedHasWorker
<1> QED
  BY <1>1, Invariance, PTL

\* The stop stays in the status file until the next ability writes.
THEOREM StopStaysSaved == Spec => []StopIsSaved
<1>1. IndInv => StopIsSaved
  BY DEF IndInv
<1> QED
  BY <1>1, Invariance, PTL
===============================================================================
