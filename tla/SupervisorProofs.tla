---------------------------- MODULE SupervisorProofs ----------------------------
(***************************************************************************)
(* The safety properties of Supervisor for every number of failed commands *)
(* and pulled cables.                                                      *)
(***************************************************************************)
EXTENDS Supervisor, TLAPS

Undone == {"unforward", "end_relay", "done"}

\* A relay is started once, from "launch", and is gone at the end.
RelayCounted ==
    /\ pc \in {"launch", "done"} => relays = 0

\* A request that the finally block does not know of is one whose sending failed,
\* and the block has withdrawn the others.
RequestKnown ==
    /\ vpn => requested \/ "start" \in failed
    /\ pc \in Undone /\ vpn => {"start", "stop"} \cap failed # {}

\* The same of the rule, but for the moment between its creation and the second
\* look at the list.
RuleKnown ==
    /\ rule = "self" => owned \/ {"rport", "verify"} \cap failed # {} \/ pc = "verify"
    /\ pc \in {"end_relay", "done"} /\ rule = "self" =>
         {"rport", "verify", "rm"} \cap failed # {}
    /\ owned => rule # "else"

\* The two parts of TypeOK.
Flags == /\ vpn \in BOOLEAN /\ plugged \in BOOLEAN /\ owned \in BOOLEAN
         /\ requested \in BOOLEAN /\ online \in BOOLEAN /\ stop \in BOOLEAN
         /\ failed \subseteq {"rport", "verify", "start", "stop", "rm"}

Counters ==
    /\ pc \in {"launch", "ready", "loop", "connected", "rules", "rport", "verify",
               "start", "stop_vpn", "unforward", "end_relay", "done"}
    /\ relays \in 0 .. 1 /\ rule \in {"none", "self", "else", "other"}
    /\ faults \in 0 .. MaxFaults /\ unplugs \in 0 .. MaxUnplugs

Inv == Flags /\ Counters /\ RelayCounted /\ RequestKnown /\ RuleKnown

LEMMA InitInv == Init => Inv
<1> SUFFICES ASSUME Init PROVE Inv OBVIOUS
<1>1. Flags BY DEF Init, Flags
<1>2. Counters BY BoundsAssumption DEF Init, Counters
<1>3. RelayCounted BY DEF Init, RelayCounted
<1>4. RequestKnown BY DEF Init, RequestKnown, Undone
<1>5. RuleKnown BY DEF Init, RuleKnown
<1> QED BY <1>1, <1>2, <1>3, <1>4, <1>5 DEF Inv

\* Every step keeps the flags Boolean, and failed a set of commands.
LEMMA NextFlags == Flags /\ [Next]_vars => Flags'
<1> SUFFICES ASSUME Flags, [Next]_vars PROVE Flags' OBVIOUS
<1> USE DEF Flags, Leaves, At, Goto, progress, world, environment
<1>1. CASE Launch BY <1>1 DEF Launch
<1>2. CASE Ready BY <1>2 DEF Ready
<1>3. CASE Loop BY <1>3 DEF Loop
<1>4. CASE Connected BY <1>4 DEF Connected, Errs
<1>5. CASE Rules BY <1>5 DEF Rules, Reversed, TransportError, Fails, Errs
<1>6. CASE Rport BY <1>6 DEF Rport, TransportError, Fails, Errs
<1>7. CASE Verify BY <1>7 DEF Verify, Reversed, TransportError, Fails, Errs
<1>8. CASE Start BY <1>8 DEF Start, TransportError, Fails, Errs
<1>9. CASE StopVpn BY <1>9 DEF StopVpn, Fails, Errs
<1>10. CASE Unforward BY <1>10 DEF Unforward, Fails, Errs
<1>11. CASE EndRelay BY <1>11 DEF EndRelay
<1>12. CASE Unplug BY <1>12 DEF Unplug
<1>13. CASE Replug BY <1>13 DEF Replug
<1>14. CASE OtherForward BY <1>14 DEF OtherForward
<1>15. CASE RelayExits BY <1>15 DEF RelayExits
<1>16. CASE StopSignal BY <1>16 DEF StopSignal
<1>17. CASE UNCHANGED vars BY <1>17 DEF vars
<1> QED
  BY <1>1, <1>2, <1>3, <1>4, <1>5, <1>6, <1>7, <1>8, <1>9, <1>10,
     <1>11, <1>12, <1>13, <1>14, <1>15, <1>16, <1>17 DEF Next, Main

\* A command of main(): it may fail, and it starts and ends no relay.
Command ==
    /\ pc' \in {"loop", "rules", "rport", "verify", "start", "stop_vpn", "unforward",
                "end_relay"}
    /\ rule' = rule \/ rule' = "none" \/ rule' = "self"
    /\ faults' = faults \/ (faults < MaxFaults /\ faults' = faults + 1)
    /\ relays' = relays /\ unplugs' = unplugs

LEMMA Commands ==
    Connected \/ Rules \/ Rport \/ Verify \/ Start \/ StopVpn \/ Unforward => Command
<1> USE DEF Command, Leaves, At, Goto, progress, world, environment, TransportError, Fails, Errs
<1>1. ASSUME Connected PROVE Command BY <1>1 DEF Connected
<1>2. ASSUME Rules PROVE Command BY <1>2 DEF Rules, Reversed
<1>3. ASSUME Rport PROVE Command BY <1>3 DEF Rport
<1>4. ASSUME Verify PROVE Command BY <1>4 DEF Verify, Reversed
<1>5. ASSUME Start PROVE Command BY <1>5 DEF Start
<1>6. ASSUME StopVpn PROVE Command BY <1>6 DEF StopVpn
<1>7. ASSUME Unforward PROVE Command BY <1>7 DEF Unforward
<1> QED BY <1>1, <1>2, <1>3, <1>4, <1>5, <1>6, <1>7

\* Every step keeps the counters within their bounds and starts one relay.
LEMMA NextCounters ==
    Counters /\ RelayCounted /\ [Next]_vars => Counters' /\ RelayCounted'
<1> SUFFICES ASSUME Counters, RelayCounted, [Next]_vars PROVE Counters' /\ RelayCounted'
  OBVIOUS
<1> USE BoundsAssumption DEF Counters, RelayCounted, At, Goto, progress, world, environment
<1>1. CASE Command BY <1>1 DEF Command
<1>2. CASE Launch BY <1>2 DEF Launch
<1>3. CASE Ready BY <1>3 DEF Ready
<1>4. CASE Loop BY <1>4 DEF Loop
<1>5. CASE EndRelay BY <1>5 DEF EndRelay
<1>6. CASE Unplug BY <1>6 DEF Unplug
<1>7. CASE Replug BY <1>7 DEF Replug
<1>8. CASE OtherForward BY <1>8 DEF OtherForward
<1>9. CASE RelayExits BY <1>9 DEF RelayExits
<1>10. CASE StopSignal BY <1>10 DEF StopSignal
<1>11. CASE UNCHANGED vars BY <1>11 DEF vars
<1> QED
  BY <1>1, <1>2, <1>3, <1>4, <1>5, <1>6, <1>7, <1>8, <1>9, <1>10, <1>11, Commands DEF Next, Main

\* Every step records what it does on the phone, or the failure that hides it.
LEMMA NextKnown ==
    Flags /\ RequestKnown /\ RuleKnown /\ [Next]_vars => RequestKnown' /\ RuleKnown'
<1> SUFFICES ASSUME Flags, RequestKnown, RuleKnown, [Next]_vars
             PROVE  RequestKnown' /\ RuleKnown'
  OBVIOUS
<1> USE DEF Flags, RequestKnown, RuleKnown, Undone, Leaves, At, Goto, progress, world, environment
<1>1. CASE Launch BY <1>1 DEF Launch
<1>2. CASE Ready BY <1>2 DEF Ready
<1>3. CASE Loop BY <1>3 DEF Loop
<1>4. CASE Connected BY <1>4 DEF Connected, Errs
<1>5. CASE Rules BY <1>5 DEF Rules, Reversed, TransportError
<1>6. CASE Rport BY <1>6 DEF Rport, TransportError
<1>7. CASE Verify
  <2>1. RequestKnown' BY <1>7 DEF Verify, Reversed, TransportError
  <2>2. rule' = rule /\ (owned => owned') /\ (owned' => owned \/ rule = "self")
    <3>1. CASE rule = "self" /\ Reversed(TRUE) BY <1>7, <3>1, Zenon DEF Verify, Reversed
    <3>2. CASE UNCHANGED progress BY <1>7, <3>2, Zenon DEF Verify
    <3> QED BY <1>7, <3>1, <3>2, Zenon DEF Verify, TransportError
  <2>3. failed \subseteq failed' /\ (rule = "self" => owned' \/ "verify" \in failed')
    BY <1>7, Zenon DEF Verify, Reversed, TransportError
  <2>4. pc' \in {"loop", "start", "stop_vpn"} BY <1>7, Zenon DEF Verify, Reversed, TransportError
  <2> QED BY <2>1, <2>2, <2>3, <2>4
<1>8. CASE Start BY <1>8 DEF Start, TransportError
<1>9. CASE StopVpn BY <1>9 DEF StopVpn
<1>10. CASE Unforward BY <1>10 DEF Unforward
<1>11. CASE EndRelay BY <1>11 DEF EndRelay
<1>12. CASE Unplug
  <2>1. rule' = "none" /\ vpn' \in {vpn, FALSE} BY <1>12, Zenon DEF Unplug
  <2>2. UNCHANGED <<pc, owned, requested>> BY <1>12, Zenon DEF Unplug
  <2>3. vpn' => vpn BY <2>1, Zenon
  <2>4. /\ "stop" \in failed => "stop" \in failed'
        /\ vpn' /\ "start" \in failed => "start" \in failed'
    BY <1>12, Zenon DEF Unplug
  <2> QED BY <2>1, <2>2, <2>3, <2>4
<1>13. CASE Replug BY <1>13 DEF Replug
<1>14. CASE OtherForward BY <1>14 DEF OtherForward
<1>15. CASE RelayExits BY <1>15 DEF RelayExits
<1>16. CASE StopSignal BY <1>16 DEF StopSignal
<1>17. CASE UNCHANGED vars BY <1>17 DEF vars
<1> QED
  BY <1>1, <1>2, <1>3, <1>4, <1>5, <1>6, <1>7, <1>8, <1>9, <1>10,
     <1>11, <1>12, <1>13, <1>14, <1>15, <1>16, <1>17 DEF Next, Main

LEMMA Invariance == Spec => []Inv
<1>1. Inv /\ [Next]_vars => Inv' BY NextFlags, NextCounters, NextKnown DEF Inv
<1> QED BY <1>1, InitInv, PTL DEF Spec

\* At most one relay of an instance runs, for any number of faults.
THEOREM TypeCorrect == Spec => []TypeOK
<1>1. Inv => TypeOK BY DEF Inv, Flags, Counters, TypeOK
<1> QED BY <1>1, Invariance, PTL

\* The finally block ends the relay on every path into it.
THEOREM RelayEnds == Spec => []NoRelayLeftBehind
<1>1. Inv => NoRelayLeftBehind BY DEF Inv, RelayCounted, NoRelayLeftBehind
<1> QED BY <1>1, Invariance, PTL

\* What stays on the phone at the end does so by the failure of one of the commands
\* named, for any number of failures and pulled cables: of the rule its creation,
\* the listing after it or its removal, of the request its sending or withdrawal.
THEOREM NothingElseLeft == Spec => []OnlyFailedCommandsLeave
<1>1. Inv => OnlyFailedCommandsLeave
  BY DEF Inv, RequestKnown, RuleKnown, OnlyFailedCommandsLeave, Undone
<1> QED BY <1>1, Invariance, PTL

\* fport rm cannot name a rule's creator; owned keeps it from other people's rules.
THEOREM ForeignRules == Spec => ForeignRulesKept
<1>1. Inv /\ [Next]_vars => [plugged' /\ rule \in {"else", "other"} => rule' = rule]_vars
  <2> SUFFICES ASSUME Inv, Next, plugged', rule \in {"else", "other"} PROVE rule' = rule
    OBVIOUS
  <2> USE DEF Inv, RuleKnown, At, Goto, progress, world, environment
  <2>1. CASE Launch \/ Ready \/ Loop \/ Connected \/ Rules \/ Start \/ StopVpn \/ EndRelay
    BY <2>1 DEF Launch, Ready, Loop, Connected, Rules, Start, StopVpn, EndRelay
  <2>2. CASE Rport \/ Verify BY <2>2 DEF Rport, Verify
  <2>3. CASE Unforward BY <2>3 DEF Unforward
  <2>4. CASE Unplug \/ Replug \/ OtherForward \/ RelayExits \/ StopSignal
    BY <2>4 DEF Unplug, Replug, OtherForward, RelayExits, StopSignal
  <2> QED BY <2>1, <2>2, <2>3, <2>4 DEF Next, Main
<1> QED BY <1>1, Invariance, PTL DEF Spec, ForeignRulesKept

===============================================================================
