------------------------------ MODULE Supervisor ------------------------------
(***************************************************************************)
(* scripts/harmony-tether.py run: the process on the computer that starts  *)
(* the relay, keeps the phone's port forwarded to it, asks the phone for   *)
(* its VPN, and undoes all of it at the end.                               *)
(*                                                                         *)
(* Every hdc command is a step, between which the cable may be pulled, the *)
(* relay may exit and a signal may arrive. A command may fail, and one     *)
(* that times out may have had its effect. The history variable failed     *)
(* keeps the failures after which something of this instance may stay      *)
(* behind on the phone, until an unplugged phone has dropped it.           *)
(***************************************************************************)
EXTENDS Naturals

CONSTANTS
    MaxFaults,   \* bound: commands that fail although the phone is there
    MaxUnplugs   \* bound: how often the cable is pulled

ASSUME BoundsAssumption == MaxFaults \in Nat /\ MaxUnplugs \in Nat

VARIABLES
    pc,         \* the next thing main() does
    relays,     \* relay processes of this instance that run
    rule,       \* who made the forwarding rule: "none", "self", "else"; "other"
                \*   is a rule for the same device port and another target
    vpn,        \* has the phone been asked to run its VPN by this instance?
    plugged,    \* is the phone connected?
    owned,      \* owned_rule
    requested,  \* requested
    online,     \* online
    stop,       \* stop, set by the signal handler
    failed,     \* history: which command's failure may leave something behind
    faults,     \* commands that have failed for no visible reason
    unplugs     \* times the cable was pulled

progress == <<owned, requested, online>>
world == <<relays, rule, vpn>>
environment == <<plugged, stop, unplugs>>
vars == <<pc, progress, world, environment, failed, faults>>

Init ==
    /\ pc = "launch" /\ relays = 0 /\ rule \in {"none", "else", "other"} /\ vpn = FALSE
    /\ plugged = TRUE /\ owned = FALSE /\ requested = FALSE /\ online = FALSE
    /\ stop = FALSE /\ failed = {} /\ faults = 0 /\ unplugs = 0

-------------------------------------------------------------------------------
(* Steps of main(). *)

At(here) == pc = here /\ UNCHANGED environment
Goto(there) == pc' = there

\* subprocess.Popen of the relay.
Launch ==
    /\ At("launch") /\ Goto("ready")
    /\ relays' = relays + 1
    /\ UNCHANGED <<rule, vpn, progress, failed, faults>>

\* The readiness check: the relay answers, has exited, or is not ready in time.
Ready ==
    /\ At("ready")
    /\ (relays > 0 /\ Goto("loop")) \/ Goto("stop_vpn")
    /\ UNCHANGED <<world, progress, failed, faults>>

\* Mutant of Loop: waits for the signal only.
LoopBlind ==
    /\ At("loop")
    /\ IF stop THEN Goto("stop_vpn") ELSE Goto("connected")
    /\ UNCHANGED <<world, progress, failed, faults>>

\* The head of the loop.
Loop ==
    /\ At("loop")
    /\ IF stop \/ relays = 0 THEN Goto("stop_vpn") ELSE Goto("connected")
    /\ UNCHANGED <<world, progress, failed, faults>>

\* hdc answers with an error or too late.
Errs == faults < MaxFaults /\ faults' = faults + 1

\* A command for the phone fails: the phone is gone, or hdc errs.
Fails == Errs \/ (~plugged /\ faults' = faults)

\* What a command that failed has done, or failed to undo, stays on the phone.
Leaves(command) == failed' = failed \cup {command}

\* transport_error and another turn of the loop; an OSError leaves the loop.
TransportError == Fails /\ (Goto("loop") \/ Goto("stop_vpn")) /\ UNCHANGED progress

\* hdc.connected.
Connected ==
    /\ At("connected")
    /\ \/ plugged /\ Goto("rules") /\ UNCHANGED <<online, faults>>
       \/ ~plugged /\ Goto("loop") /\ online' = FALSE /\ UNCHANGED faults
       \/ Errs /\ Goto("loop") /\ UNCHANGED online
    /\ UNCHANGED <<world, owned, requested, failed>>

\* Mutant of Reversed: a rule that was there already is no longer owned.
ReversedForgets(created) ==
    /\ owned' = created
    /\ IF online THEN Goto("loop") ELSE Goto("start")
    /\ UNCHANGED <<online, requested>>

\* Mutant of Reversed: online before the phone has taken the request.
ReversedEarly(created) ==
    /\ owned' = (owned \/ created) /\ online' = TRUE
    /\ IF online THEN Goto("loop") ELSE Goto("start")
    /\ UNCHANGED requested

\* What follows reverse(): its result is recorded, and a phone that was not
\* online is asked to start.
Reversed(created) ==
    /\ owned' = (owned \/ created)
    /\ IF online THEN Goto("loop") ELSE Goto("start")
    /\ UNCHANGED <<online, requested>>

\* Mutant of Rules: takes a rule it finds for its own.
RulesTaken ==
    /\ At("rules")
    /\ \/ rule = "none" /\ Goto("rport") /\ UNCHANGED <<progress, faults>>
       \/ rule \in {"self", "else"} /\ Reversed(TRUE) /\ UNCHANGED faults
       \/ rule = "other" /\ Goto("loop") /\ UNCHANGED <<progress, faults>>
       \/ TransportError
    /\ UNCHANGED <<world, failed>>

\* reverse() lists the rules: the phone's port is free, forwarded to this relay,
\* or to something else (RuntimeError).
Rules ==
    /\ At("rules")
    /\ \/ rule = "none" /\ Goto("rport") /\ UNCHANGED <<progress, faults>>
       \/ rule \in {"self", "else"} /\ Reversed(FALSE) /\ UNCHANGED faults
       \/ rule = "other" /\ Goto("loop") /\ UNCHANGED <<progress, faults>>
       \/ TransportError
    /\ UNCHANGED <<world, failed>>

\* reverse() creates the rule; a command that fails may have created it.
Rport ==
    /\ At("rport")
    /\ \/ /\ plugged /\ rule = "none" /\ rule' = "self" /\ Goto("verify")
          /\ UNCHANGED <<progress, failed, faults>>
       \/ /\ rule # "none" /\ Goto("loop")
          /\ UNCHANGED <<rule, progress, failed, faults>>
       \/ /\ TransportError
          /\ \/ UNCHANGED <<rule, failed>>
             \/ plugged /\ rule = "none" /\ rule' = "self" /\ Leaves("rport")
    /\ UNCHANGED <<relays, vpn>>

\* reverse() looks the rule up again; only then the caller learns it was created:
\* if the listing fails, the rule is never owned.
Verify ==
    /\ At("verify")
    /\ \/ rule = "self" /\ Reversed(TRUE) /\ UNCHANGED <<failed, faults>>
       \/ rule # "self" /\ Goto("loop") /\ UNCHANGED <<progress, failed, faults>>
       \/ TransportError /\ IF rule = "self" THEN Leaves("verify") ELSE UNCHANGED failed
    /\ UNCHANGED world

\* The page is shown and control("start") sent; either may fail, the second
\* after it reached the phone.
Start ==
    /\ At("start")
    /\ \/ /\ plugged /\ vpn' = TRUE /\ requested' = TRUE /\ online' = TRUE
          /\ failed' = failed \ {"start"} /\ Goto("loop") /\ UNCHANGED <<owned, faults>>
       \/ /\ TransportError
          /\ \/ UNCHANGED <<vpn, failed>>
             \/ plugged /\ vpn' = TRUE /\ Leaves("start")
    /\ UNCHANGED <<relays, rule>>

-------------------------------------------------------------------------------
(* The finally block: each part whatever became of the one before. *)

StopVpn ==
    /\ At("stop_vpn") /\ Goto("unforward")
    /\ \/ ~requested /\ UNCHANGED <<vpn, failed, faults>>
       \/ requested /\ plugged /\ vpn' = FALSE /\ UNCHANGED <<failed, faults>>
       \/ requested /\ Fails /\ Leaves("stop") /\ UNCHANGED vpn
    /\ UNCHANGED <<relays, rule, progress>>

\* Mutant of Unforward: an error ends the block.
UnforwardRaises ==
    /\ At("unforward")
    /\ \/ ~owned /\ Goto("end_relay") /\ UNCHANGED <<rule, failed, faults>>
       \/ owned /\ rule' = "none" /\ Goto("end_relay") /\ UNCHANGED <<failed, faults>>
       \/ owned /\ Fails /\ Leaves("rm") /\ Goto("done") /\ UNCHANGED rule
    /\ UNCHANGED <<relays, vpn, progress>>

\* fport rm: names the two ports, not the rule's creator.
Unforward ==
    /\ At("unforward") /\ Goto("end_relay")
    /\ \/ ~owned /\ UNCHANGED <<rule, failed, faults>>
       \/ /\ owned /\ rule' = (IF rule = "other" THEN rule ELSE "none")
          /\ UNCHANGED <<failed, faults>>
       \/ owned /\ Fails /\ Leaves("rm") /\ UNCHANGED rule
    /\ UNCHANGED <<relays, vpn, progress>>

\* terminate, and kill after five seconds.
EndRelay ==
    /\ At("end_relay") /\ Goto("done")
    /\ relays' = 0
    /\ UNCHANGED <<rule, vpn, progress, failed, faults>>

-------------------------------------------------------------------------------
(* The world around. *)

\* hdc forgets the rules of a phone that is gone; its VPN keeps trying unless
\* the phone restarts.
Unplug ==
    /\ plugged /\ unplugs < MaxUnplugs
    /\ plugged' = FALSE /\ unplugs' = unplugs + 1 /\ rule' = "none"
    /\ vpn' \in {vpn, FALSE}
    /\ failed' = failed \ ({"rport", "verify"} \cup IF vpn' THEN {} ELSE {"start"})
    /\ UNCHANGED <<pc, progress, relays, stop, faults>>

\* A phone that restarts is away for longer than a turn of the loop.
Replug ==
    /\ ~plugged /\ (vpn \/ ~online) /\ plugged' = TRUE
    /\ UNCHANGED <<pc, progress, world, stop, unplugs, failed, faults>>

\* Another tool forwards the phone's port, to a port of its own: nobody else makes
\* this instance's rule while it runs.
OtherForward ==
    /\ plugged /\ rule = "none" /\ rule' = "other"
    /\ UNCHANGED <<pc, progress, relays, vpn, environment, failed, faults>>

\* The relay cannot bind its port, or dies later.
RelayExits ==
    /\ relays > 0 /\ relays' = 0
    /\ UNCHANGED <<pc, progress, rule, vpn, environment, failed, faults>>

\* SIGINT or SIGTERM.
StopSignal ==
    /\ pc # "done" /\ ~stop /\ stop' = TRUE
    /\ UNCHANGED <<pc, progress, world, plugged, unplugs, failed, faults>>

Main == \/ Launch \/ Ready \/ Loop \/ Connected \/ Rules \/ Rport \/ Verify \/ Start
        \/ StopVpn \/ Unforward \/ EndRelay

Next == Main \/ Unplug \/ Replug \/ OtherForward \/ RelayExits \/ StopSignal

Spec == Init /\ [][Next]_vars

\* Every command returns: Hdc.run gives it a timeout.
FairSpec == Spec /\ WF_vars(Main)

-------------------------------------------------------------------------------
(* Properties. *)

\* At most one relay of this instance runs at a time, and the counters keep to
\* their bounds.
TypeOK ==
    /\ pc \in {"launch", "ready", "loop", "connected", "rules", "rport", "verify",
               "start", "stop_vpn", "unforward", "end_relay", "done"}
    /\ relays \in 0 .. 1 /\ rule \in {"none", "self", "else", "other"}
    /\ vpn \in BOOLEAN /\ plugged \in BOOLEAN /\ owned \in BOOLEAN
    /\ requested \in BOOLEAN /\ online \in BOOLEAN /\ stop \in BOOLEAN
    /\ failed \subseteq {"rport", "verify", "start", "stop", "rm"}
    /\ faults \in 0 .. MaxFaults /\ unplugs \in 0 .. MaxUnplugs

\* Whatever happened before, the relay does not outlive its supervisor: a later
\* instance could not bind the port (the finally block).
NoRelayLeftBehind == pc = "done" => relays = 0

\* "按 Ctrl+C 停止连接并清理该实例创建的转发" (README.md:57), as far as the code keeps
\* it: wherever the signal, the end of the relay, a pulled cable or a failure fell,
\* the instance's rule is still there at the end only if its creation, the listing
\* after it or its removal failed, and the phone still has the request only if
\* asking it to start or to stop failed. The listing is a case the code knows
\* better of: the rule was created, but reverse() raises before it is owned, a
\* later turn finds it and takes it for somebody else's, and it stays.
OnlyFailedCommandsLeave ==
    pc = "done" => /\ rule = "self" => {"rport", "verify", "rm"} \cap failed # {}
                   /\ vpn => {"start", "stop"} \cap failed # {}

\* "其他设备和映射仍可使用": no rule that somebody else made is removed or replaced;
\* only a pulled cable takes it away.
ForeignRulesKept ==
    [][plugged' /\ rule \in {"else", "other"} => rule' = rule]_vars

\* A signal ends the process, and so does the end of the relay.
StopEnds == (stop \/ (relays = 0 /\ pc # "launch")) ~> pc = "done"

\* While it runs, a phone that is there gets its rule and its request to start
\* again after every unplugging and every failed command.
PhoneIsServed ==
    plugged ~> (~plugged \/ stop \/ relays = 0 \/ rule = "other" \/ (rule # "none" /\ vpn))

===============================================================================
