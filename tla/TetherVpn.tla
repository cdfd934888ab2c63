------------------------------- MODULE TetherVpn ------------------------------
(***************************************************************************)
(* app/entry/src/main/ets/vpn/TetherVpnAbility.ets with the session guard  *)
(* of cpp/napi_init.cpp and the life of the worker of cpp/tunnel.cpp.      *)
(*                                                                         *)
(* ArkTS runs on one thread: the code between two awaits is one action,    *)
(* and an await that needs no answer from the system goes on at once. What *)
(* waits is a task: establish() at one of its three awaits, or cleanup()   *)
(* while the system destroys the interface. Any callback, onDestroy and a  *)
(* new ability may come between. Abilities of one process follow one       *)
(* another: the next is created after onDestroy of the one before.         *)
(***************************************************************************)
EXTENDS Integers, FiniteSets

CONSTANTS MaxInstances,    \* bound: abilities created one after another
          MaxGeneration    \* bound: attempts of one ability

ASSUME InstancesAssumption == MaxInstances \in Nat \ {0}
ASSUME GenerationAssumption == MaxGeneration \in Nat \ {0}

VARIABLES app,     \* the abilities, by order of creation
          os,      \* what they share: descriptors, native module, status file
          tasks    \* the suspended calls

vars == <<app, os, tasks>>

Instances == 1 .. MaxInstances

NoFd == -1

Free == <<0, "free">>

\* Every ability holds at most two descriptors; more are leaks.
Fds == 0 .. 2 * MaxInstances + 1

\* os.fds: the owner of each descriptor; session: currentSession; worker: the
\* ability whose tunnel thread is joinable, 0 for none; running: does the thread
\* still run; saved: the state in the status file; stray: did a close() hit a
\* descriptor that was not the caller's?
NewOs == [fds |-> [f \in Fds |-> Free], session |-> 0, worker |-> 0,
          running |-> FALSE, saved |-> "stopped", stray |-> FALSE]

NewAbility == [life |-> "absent", stopped |-> TRUE, generation |-> 0, session |-> 0,
               connection |-> FALSE, socketFd |-> NoFd, tunFd |-> NoFd,
               retry |-> 0, state |-> "stopped"]

\* A handler of ability i works on its fields, the shared state and the tasks.
World(i) == [id |-> i, self |-> app[i], os |-> os, tasks |-> tasks]

Apply(w) == /\ app' = [app EXCEPT ![w.id] = w.self]
            /\ os' = w.os
            /\ tasks' = w.tasks

-------------------------------------------------------------------------------
(* The native module. *)

StopTunnel(w) == [w EXCEPT !.os.worker = 0, !.os.running = FALSE]

NewSession(w) ==
    LET d == StopTunnel(w) IN
    [d EXCEPT !.os.session = @ + 1, !.self.session = w.os.session + 1]

\* Mutant of Stop: the session is not compared.
StopAny(w) == StopTunnel(w)

Stop(w) == IF w.self.session = w.os.session THEN StopTunnel(w) ELSE w

Start(w) == [StopTunnel(w) EXCEPT !.os.worker = w.id, !.os.running = TRUE]

CloseFd(w, fd, kind) ==
    [w EXCEPT !.os.fds[fd] = Free,
              !.os.stray = @ \/ w.os.fds[fd] # <<w.id, kind>>]

FreeFds(w) == {f \in Fds : w.os.fds[f] = Free}

\* The system hands out the smallest free descriptor.
NextFd(w) == CHOOSE f \in FreeFds(w) : \A g \in FreeFds(w) : f <= g

-------------------------------------------------------------------------------
(* The ability's methods. *)

Publish(w, state) ==
    IF w.self.session > 0 /\ w.self.session # w.os.session THEN w
    ELSE [w EXCEPT !.self.state = state, !.os.saved = state]

ScheduleRetry(w) ==
    IF w.self.stopped THEN w
    ELSE Publish([w EXCEPT !.self.retry = @ + 1], "reconnecting")

Fenced(w, generation) == w.self.stopped \/ generation # w.self.generation

\* Mutant of CleanupEnd: the socket is closed, its number is kept.
CleanupEndKeeps(w, then, generation) ==
    LET d == IF w.self.socketFd = NoFd THEN w ELSE CloseFd(w, w.self.socketFd, "sock")
    IN  IF then = "return" \/ (then # "retry" /\ Fenced(d, generation)) THEN d
        ELSE IF then = "refused" THEN Publish(d, "error")
        ELSE ScheduleRetry(d)

\* Mutant of CleanupEnd: tick's retry is fenced like establish()'s, but by the
\* generation of the attempt to come.
CleanupEndDropsRetry(w, then, generation) ==
    LET d == IF w.self.socketFd = NoFd THEN w
             ELSE [CloseFd(w, w.self.socketFd, "sock") EXCEPT !.self.socketFd = NoFd]
    IN  IF then = "return" THEN d
        ELSE IF Fenced(d, IF then = "retry" THEN generation + 1 ELSE generation) THEN d
        ELSE IF then = "refused" THEN Publish(d, "error")
        ELSE ScheduleRetry(d)

\* cleanup() once the interface is gone, and what its caller does then: return,
\* the rest of establish()'s catch ("fail", "refused"), or tick's then ("retry").
CleanupEnd(w, then, generation) ==
    LET d == IF w.self.socketFd = NoFd THEN w
             ELSE [CloseFd(w, w.self.socketFd, "sock") EXCEPT !.self.socketFd = NoFd]
    IN  IF then = "return" \/ (then # "retry" /\ Fenced(d, generation)) THEN d
        ELSE IF then = "refused" THEN Publish(d, "error")
        ELSE ScheduleRetry(d)

\* cleanup(): stops the worker, closes the tun descriptor and waits for destroy().
Cleanup(w, then, generation) ==
    LET d == Stop(w) IN
    IF d.self.tunFd = NoFd THEN CleanupEnd(d, then, generation)
    ELSE LET e == CloseFd(d, d.self.tunFd, "tun") IN
         [e EXCEPT !.self.tunFd = NoFd,
                   !.tasks = @ \cup {[owner |-> w.id, gen |-> generation,
                                      pc |-> "destroy", then |-> then]}]

Await(w, generation, pc) ==
    [w EXCEPT !.tasks = @ \cup {[owner |-> w.id, gen |-> generation,
                                 pc |-> pc, then |-> "none"]}]

\* establish() up to its first await; ok: did createSocket succeed?
Establish(w, ok) ==
    LET generation == w.self.generation
        d == Publish(w, "connecting")
        fd == NextFd(d) IN
    IF w.self.stopped \/ ~w.self.connection THEN w
    ELSE IF ~ok \/ FreeFds(d) = {} THEN Cleanup(d, "fail", generation)
    ELSE Await([d EXCEPT !.os.fds[fd] = <<w.id, "sock">>, !.self.socketFd = fd],
               generation, "protect")

\* The system answered an await of establish() that creates nothing.
EstablishNext(w, generation, pc) ==
    IF Fenced(w, generation) THEN Cleanup(w, "return", generation)
    ELSE Await(w, generation, pc)

\* Mutant of EstablishEnd: no fence after create().
EstablishEndUnfenced(w, generation, ok) ==
    LET fd == NextFd(w)
        d == [w EXCEPT !.os.fds[fd] = <<w.id, "tun">>, !.self.tunFd = fd] IN
    IF ~ok THEN Cleanup(StopTunnel(d), "fail", generation)
    ELSE Publish(Start(d), "connected")

\* create() returned a descriptor; ok: does Tunnel::Start succeed? A stale session
\* is refused before the tunnel is touched.
EstablishEnd(w, generation, ok) ==
    LET fd == NextFd(w)
        d == [w EXCEPT !.os.fds[fd] = <<w.id, "tun">>, !.self.tunFd = fd] IN
    IF Fenced(d, generation) THEN Cleanup(d, "return", generation)
    ELSE IF d.self.session # d.os.session THEN Cleanup(d, "fail", generation)
    ELSE IF ~ok THEN Cleanup(StopTunnel(d), "fail", generation)
    ELSE Publish(Start(d), "connected")

\* Mutant of TickAbility: does not wait for cleanup() before it sets the retry timer.
TickAbilityHasty(w) ==
    IF w.self.state = "connected" /\ ~w.os.running
    THEN ScheduleRetry(Cleanup(Publish(w, "reconnecting"), "return", w.self.generation))
    ELSE Publish(w, w.self.state)

\* Mutant of TickAbility: fences the broken attempt with a generation of its own.
TickAbilityBumps(w) ==
    IF w.self.state = "connected" /\ ~w.os.running
    THEN Cleanup(Publish([w EXCEPT !.self.generation = @ + 1], "reconnecting"),
                 "retry", w.self.generation)
    ELSE Publish(w, w.self.state)

TickAbility(w) ==
    IF w.self.state = "connected" /\ ~w.os.running
    THEN Cleanup(Publish(w, "reconnecting"), "retry", w.self.generation)
    ELSE Publish(w, w.self.state)

\* Mutant of Destroy: the stop is published after the asynchronous part only.
DestroyUnpublished(w) ==
    Cleanup([w EXCEPT !.self.life = "destroyed", !.self.stopped = TRUE,
                      !.self.generation = @ + 1, !.self.retry = 0],
            "return", w.self.generation + 1)

\* onDestroy. At most one retry timer is pending (OneAttempt), and it is cleared.
Destroy(w) ==
    LET d == [w EXCEPT !.self.life = "destroyed", !.self.stopped = TRUE,
                       !.self.generation = @ + 1, !.self.retry = 0] IN
    Cleanup(Publish(d, "stopped"), "return", d.self.generation)

-------------------------------------------------------------------------------
(* Actions. *)

\* onCreate: refused for lack of consent or bad parameters, unable to create the
\* connection, or on its way.
OnCreate(i) ==
    /\ app[i].life = "absent"
    /\ \A j \in 1 .. i - 1 : app[j].life \in {"destroyed", "killed"}
    /\ LET w == [World(i) EXCEPT !.self.life = "live"]
           d == [w EXCEPT !.self.stopped = FALSE]
           e == NewSession([d EXCEPT !.self.connection = TRUE]) IN
       \/ Apply(w)
       \/ Apply(Publish(w, "error"))
       \/ Apply(Publish(d, "error"))
       \/ \E ok \in BOOLEAN : Apply(Establish([e EXCEPT !.self.generation = 1], ok))

OnDestroy(i) == app[i].life = "live" /\ Apply(Destroy(World(i)))

\* The interval timer runs from onCreate to onDestroy.
Tick(i) == /\ app[i].life = "live" /\ ~app[i].stopped
           /\ Apply(TickAbility(World(i)))

\* The retry timer.
Retry(i) ==
    /\ app[i].retry > 0
    /\ app[i].generation < MaxGeneration
    /\ \E ok \in BOOLEAN :
          Apply(Establish([World(i) EXCEPT !.self.retry = @ - 1, !.self.generation = @ + 1], ok))

\* The system answers a suspended call. protect() and create() may be refused for
\* lack of authorisation; connect() fails without such a code.
Resume(t) ==
    LET w == [World(t.owner) EXCEPT !.tasks = @ \ {t}] IN
    \/ /\ t.pc = "protect"
       /\ \/ Apply(EstablishNext(w, t.gen, "connect"))
          \/ \E then \in {"fail", "refused"} : Apply(Cleanup(w, then, t.gen))
    \/ /\ t.pc = "connect"
       /\ \/ Apply(EstablishNext(w, t.gen, "create"))
          \/ Apply(Cleanup(w, "fail", t.gen))
    \/ /\ t.pc = "create"
       /\ \/ FreeFds(w) # {} /\ \E ok \in BOOLEAN : Apply(EstablishEnd(w, t.gen, ok))
          \/ \E then \in {"fail", "refused"} : Apply(Cleanup(w, then, t.gen))
    \/ /\ t.pc = "destroy"
       /\ Apply(CleanupEnd(w, t.then, t.gen))

\* Tunnel::Run ends by itself: the relay or the interface is gone.
WorkerFails ==
    /\ os.running
    /\ os' = [os EXCEPT !.running = FALSE]
    /\ UNCHANGED <<app, tasks>>

\* The system ends the process: only the status file survives.
Kill ==
    /\ \E i \in Instances : app[i].life # "absent"
    /\ app' = [i \in Instances |->
                 IF app[i].life = "live" THEN [NewAbility EXCEPT !.life = "killed"]
                 ELSE [NewAbility EXCEPT !.life = app[i].life]]
    /\ os' = [NewOs EXCEPT !.saved = os.saved]
    /\ tasks' = {}

Init == /\ app = [i \in Instances |-> NewAbility]
        /\ os = NewOs
        /\ tasks = {}

Next == \/ \E i \in Instances : OnCreate(i) \/ OnDestroy(i) \/ Tick(i) \/ Retry(i)
        \/ \E t \in tasks : Resume(t)
        \/ WorkerFails
        \/ Kill

Spec == Init /\ [][Next]_vars

-------------------------------------------------------------------------------
(* Properties. *)

AbilityStates == {"stopped", "connecting", "connected", "reconnecting", "error"}

Ability == [life : {"absent", "live", "destroyed", "killed"}, stopped : BOOLEAN,
            generation : 0 .. MaxGeneration + 1, session : 0 .. MaxInstances,
            connection : BOOLEAN, socketFd : Fds \cup {NoFd}, tunFd : Fds \cup {NoFd},
            retry : Nat, state : AbilityStates]

Task == [owner : Instances, gen : 0 .. MaxGeneration + 1,
         pc : {"protect", "connect", "create", "destroy"},
         then : {"none", "return", "fail", "refused", "retry"}]

TypeOK == /\ app \in [Instances -> Ability]
          /\ os \in [fds : [Fds -> {Free} \cup (Instances \X {"sock", "tun"})],
                     session : 0 .. MaxInstances, worker : 0 .. MaxInstances,
                     running : BOOLEAN, saved : AbilityStates, stray : BOOLEAN]
          /\ tasks \subseteq Task

\* "generation fencing makes its completion clean up instead of creating a late
\* VPN" (onDestroy): a worker never runs for an ability that was stopped, whatever
\* protect, connect and create answer after the stop.
NoTunnelAfterStop == os.worker # 0 => ~app[os.worker].stopped

\* Descriptors are neither leaked nor closed for someone else: each open one is
\* remembered by its owner, which still has a chance to close it, and no close()
\* hits a number the caller does not own, although two cleanups may overlap.
DescriptorsOwned ==
    /\ ~os.stray
    /\ \A f \in Fds : os.fds[f] # Free =>
         LET a == app[os.fds[f][1]] IN
         IF os.fds[f][2] = "sock" THEN a.socketFd = f ELSE a.tunFd = f

\* A stopped ability with nothing suspended holds no descriptor.
StoppedHoldsNothing ==
    \A i \in Instances :
        app[i].stopped /\ (\A t \in tasks : t.owner # i)
            => app[i].socketFd = NoFd /\ app[i].tunFd = NoFd

\* Stop is final (onDestroy, cleanup): no answer that comes later starts a tunnel
\* or leaves a descriptor behind.
StopIsFinal == NoTunnelAfterStop /\ StoppedHoldsNothing

\* An ability makes one attempt at a time: a suspended establish() that is not
\* fenced, a retry timer and a cleanup that will set one exclude each other, so no
\* attempt overwrites the descriptors of another.
OneAttempt ==
    \A i \in Instances :
        ~app[i].stopped =>
            app[i].retry + Cardinality({t \in tasks : t.owner = i}) <= 1

\* An ability that reports "connected" has its own worker to watch, running or
\* failed: the late cleanup of an earlier ability stops nobody else's tunnel, and
\* status() does not throw in tick.
ConnectedHasWorker ==
    \A i \in Instances :
        app[i].state = "connected" /\ ~app[i].stopped =>
            os.worker = i /\ os.session = app[i].session

\* "Persist the stop synchronously so the UI need not wait for stale-state expiry":
\* once onDestroy ran, the status file says so until the next ability writes, also
\* when late answers arrive or the process is ended.
StopIsSaved ==
    \A i \in Instances :
        app[i].life = "destroyed" /\ (\A j \in i + 1 .. MaxInstances : app[j].life = "absent")
            => os.saved = "stopped"

-------------------------------------------------------------------------------
(* Liveness: timers fire and the system answers every call. *)

Fairness == /\ \A i \in Instances : WF_vars(Tick(i)) /\ WF_vars(Retry(i))
            /\ WF_vars(\E t \in tasks : Resume(t))

FairSpec == Spec /\ Fairness

\* A tunnel that broke is noticed and a new attempt is made, unless the VPN is
\* stopped first: tick, cleanup and the retry timer hand the turn on to one another,
\* each across a wait, and none drops it.
BrokenTunnelRetried ==
    \A i \in Instances, g \in 1 .. MaxGeneration - 1 :
        (os.worker = i /\ ~os.running /\ app[i].generation = g)
            ~> (app[i].generation > g \/ app[i].stopped)
===============================================================================
