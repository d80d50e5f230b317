--------------------- MODULE ControllerProtectionProofs ----------------------
(***************************************************************************)
(* What the controller's states and tables protect, in every installation. *)
(*                                                                         *)
(* First, Controller implements Protection: under the refinement mapping   *)
(* of ControllerProperties the initial states map to initial states and    *)
(* every step maps to a step of Protection or to a stutter.  Each step of  *)
(* the proof names the abstract action.                                    *)
(*                                                                         *)
(* Then, what the rendered chains let through, for every set of links,     *)
(* profiles and bridges, and for every context that render() accepts; and  *)
(* what the controller's tables therefore keep.                            *)
(***************************************************************************)
EXTENDS ControllerSessionProofs, Sequences

\* A step of Protection under the mapping, or a stutter.
AbstractStep == [Promise!Next]_(Promise!vars)

(* Failed commands leave at most the exceptions that were there and those  *)
(* of the policy that was asked for.                                       *)
LEMMA PolicyEffects ==
  ASSUME NEW old \in Firewalls, NEW p \in Profiles, old.table,
         old.endpoints \union old.tunnels \subseteq {p}
  PROVE  \A new \in Firewalls :
           \/ new \in ReplaceFailures(old, Closed)
           \/ new \in ReplaceFailures(old, EndpointPolicy(p))
           \/ new \in ReplaceFailures(old, TunnelPolicy(p))
           => new.table /\ new.endpoints \union new.tunnels \subseteq {p}
BY DEF Firewalls, Quarantine, Closed, EndpointPolicy, TunnelPolicy,
       Accumulated, ReplaceFailures

(* A replacement without exceptions keeps the table and makes none, failed *)
(* or not.                                                                 *)
LEMMA SealingTightens ==
  ASSUME NEW old \in Firewalls, NEW new,
         \/ new \in QuarantineFailures(old)
         \/ new \in ReplaceFailures(old, Closed)
         \/ new = Closed
  PROVE  /\ old.table => new.table
         /\ new.endpoints \union new.tunnels \subseteq old.endpoints \union old.tunnels
BY DEF Firewalls, Quarantine, Closed, Accumulated, QuarantineFailures,
       ReplaceFailures

(* Every step is one of Protection.                                        *)
LEMMA ProtectionStep ==
  TypeInv /\ BarrierOK /\ ModeOK /\ [Next]_vars => AbstractStep
<1> SUFFICES ASSUME TypeInv, BarrierOK, ModeOK, [Next]_vars
             PROVE  AbstractStep
  OBVIOUS
<1> fw \in Firewalls /\ fw.table \in BOOLEAN
  BY DEF TypeInv, TypeOK, Firewalls
<1> mode # "off" /\ target \in Targets \union {NoTarget} /\ (enabled => target # NoTarget)
  BY DEF TypeInv, TypeOK, Modes
<1> USE CatalogAssumption DEF AbstractStep, ReportedMode, WantedTarget, StoredTarget,
        TypeInv, ControlOK, IntentOK, Requests, Loop, AttemptSteps, machine,
        memory, files, network, control, intent, schedule, tracking, attempt,
        session, Promise!Next, Promise!vars, Promise!firewall,
        Promise!Running, Promise!Sealed, Promise!MayOpen, Promise!NoNewLeave, Promise!Gone
\* Request
<1>1. ASSUME NEW to \in Targets, Connect(to) PROVE AbstractStep
  BY <1>1, SealingTightens DEF Connect, Barrier, Quarantine, Enter,
         Promise!Seek, Promise!Tighten
<1>2. CASE Retry
  BY <1>2, SealingTightens DEF Retry, ScheduleConnecting, Barrier,
         Quarantine, Enter, Promise!Seek, Promise!Tighten
<1>3. CASE Disconnect
  BY <1>3 DEF Disconnect, Enter, Promise!AskToLeave
<1>4. CASE Pause
  BY <1>4 DEF Pause, Enter, Promise!AskToLeave
\* Tick
<1>5. CASE PauseExpires
  BY <1>5, SealingTightens DEF PauseExpires, ScheduleConnecting, Barrier,
         Quarantine, Enter, Promise!Seek, Promise!Tighten
<1>6. CASE AttemptDue
  BY <1>6 DEF AttemptDue, Enter, BarrierOK, Sealed, OpenSteps, TypeOK,
         Promise!Seek
<1>7. CASE VerifyFails
  BY <1>7 DEF VerifyFails, Enter, Promise!Tighten
<1>8. CASE TickQuiet
  BY <1>8 DEF TickQuiet, Verifiable, TunnelPolicy
\* Subroutine
<1>9. CASE Isolate
  BY <1>9, SealingTightens DEF Isolate, Barrier, Quarantine, Goto,
         RaiseSystemFailure, Enter, Promise!Tighten
<1>10. CASE Detach
  BY <1>10 DEF Detach, NoSession, Goto
<1>11. CASE Close
  BY <1>11, SealingTightens DEF Close, Closed, Goto, Quarantine,
         BarrierOK, SealedSteps, Sealed, Promise!Tighten
<1>12. CASE UndoDns
  <2>1. CASE mode' = "failed" /\ pc' # "dead"
    <3>1. Promise!Fail
      BY <1>12, <2>1 DEF UndoDns, ClearBootstrap, RaiseSystemFailure, Enter,
             Goto, BarrierOK, SealedSteps, Sealed, Promise!Fail
    <3> QED
      BY <3>1
  <2>2. CASE UNCHANGED mode /\ pc' # "dead"
    BY <1>12, <2>2 DEF UndoDns, ClearBootstrap, RaiseSystemFailure, Enter,
           Goto, EmergencyReturns, Promise!Tighten
  <2> QED
    BY <1>12, <2>1, <2>2 DEF UndoDns, ClearBootstrap, RaiseSystemFailure,
           Enter, Goto, EmergencySteps, EmergencyReturns
<1>13. CASE Unwind
  BY <1>13 DEF Unwind, ClearBootstrap, RaiseSystemFailure, Enter, ModeOK,
         Sealed, Promise!Fail, Promise!Tighten
<1>14. CASE DirectDetach
  BY <1>14 DEF DirectDetach, NoSession, Goto
<1>15. CASE DirectDns
  BY <1>15 DEF DirectDns, Goto, RaiseSystemFailure, Enter, Promise!Tighten
<1>16. CASE DirectOpen
  <2>1. /\ UNCHANGED <<mode, enabled, target, disk>> /\ pc # "dead" /\ pc' # "dead"
        /\ handler' \in {"disconnect", "pause"} => handler \in {"disconnect", "pause"}
    BY <1>16 DEF DirectOpen, Goto, RaiseSystemFailure, Enter, DirectSteps,
           DirectReturns
  <2>2. CASE fw' = Open
    <3>1. Promise!Open
      BY <1>16, <2>1, <2>2 DEF DirectOpen, Open, DirectSteps, Promise!Open
    <3> QED
      BY <3>1
  <2>3. CASE fw' = fw
    <3>1. Promise!Tighten
      BY <2>1, <2>3 DEF Promise!Tighten
    <3> QED
      BY <3>1
  <2> QED
    BY <1>16, <2>2, <2>3 DEF DirectOpen, RemoveFailures
\* Handling
<1>17. CASE BootClose
  BY <1>17, SealingTightens DEF BootClose, Closed, Enter, Quarantine,
         RaiseSystemFailure, Promise!Tighten
<1>18. CASE BootClear
  BY <1>18 DEF BootClear, WriteSaved, RaiseOSError, Enter, Finish,
         Promise!Tighten
<1>19. CASE Finished
  BY <1>19 DEF Finished, Finish, Promise!Tighten
<1>20. CASE PersistConnecting
  BY <1>20 DEF PersistConnecting, WriteState, RaiseOSError, Enter, Goto,
         StateWritten, ModeOK, Scheduling, BarrierOK, SealedSteps, Sealed,
         Promise!Store, Promise!Tighten
<1>21. CASE DisconnectPersist
  BY <1>21 DEF DisconnectPersist, WriteState, RaiseOSError, Enter, Goto,
         StateWritten, ModeOK, OpenedSteps, DirectReturns, Open, Promise!Disable
<1>22. CASE DisconnectClear
  BY <1>22 DEF DisconnectClear, WriteSaved, RaiseOSError, Enter, Finish,
         Promise!Tighten
<1>23. CASE PauseClear
  BY <1>23 DEF PauseClear, WriteSaved, RaiseOSError, Enter, Goto,
         Promise!Tighten
<1>24. CASE PausePersist
  BY <1>24 DEF PausePersist, WriteState, RaiseOSError, Enter, Finish,
         StateWritten, ModeOK, OpenedSteps, Open, Promise!Pause
<1>25. CASE Abort
  BY <1>25 DEF Abort, WriteState, RaiseOSError, Enter, Finish,
         StateWritten, Promise!Fail
<1>26. CASE Emergency
  BY <1>26 DEF Emergency, Enter, ForgetAttempt
<1>27. CASE EmergencyDone
  <2>1. CASE pc = "emergency_failed"
    <3>1. Promise!Fail
      BY <1>27, <2>1 DEF EmergencyDone, Finish, BarrierOK, SealedSteps, Sealed,
             Promise!Fail
    <3> QED
      BY <3>1
  <2>2. CASE pc = "emergency_disabled"
    <3>1. Promise!Disable
      BY <1>27, <2>2 DEF EmergencyDone, Finish, ModeOK, OpenedSteps,
             DirectReturns, Open, Promise!Disable
    <3> QED
      BY <3>1
  <2> QED
    BY <1>27, <2>1, <2>2 DEF EmergencyDone
\* Attempt
<1>28. CASE Pick
  BY <1>28 DEF Pick, Goto
<1>29. CASE GiveUp
  BY <1>29 DEF GiveUp, Enter, ForgetAttempt
<1>30. CASE Inspect
  BY <1>30 DEF Inspect, Goto, NextCandidate, Enter
<1>31. CASE Stale
  BY <1>31 DEF Stale, Goto, NextCandidate, Enter
<1>32. CASE Capture
  BY <1>32 DEF Capture, WriteSaved, RaiseOSError, Enter, Goto,
         NextCandidate
<1>33. CASE Configure
  BY <1>33 DEF Configure, NeedsHostname, Goto, AfterConfigure, Registered,
         NextCandidate, Enter
<1>34. CASE BasePolicy
  <2>1. /\ mode = "connecting" /\ enabled /\ profile \in Profiles
        /\ profile \in CandidatesOf[target]
        /\ fw.table /\ fw.endpoints \union fw.tunnels \subseteq {profile}
    BY <1>34 DEF BasePolicy, ApplyPolicy, BarrierOK, AttemptConfined,
               ModeOK, Attempting
  <2>2. fw' \in ReplaceFailures(fw, Closed)
    BY <1>34 DEF BasePolicy, ApplyPolicy, ReplaceFailures
  <2>3. fw' \in Firewalls
    BY <2>1, <2>2, FirewallTypes
  <2>4. fw'.table /\ fw'.endpoints \union fw'.tunnels \subseteq {profile}
    BY <2>1, <2>2, <2>3, PolicyEffects
  <2>5. UNCHANGED <<mode, enabled, target, disk, handler>> /\ pc # "dead" /\ pc' # "dead"
    BY <1>34 DEF BasePolicy, ApplyPolicy, Goto, NextCandidate, Enter
  <2>6. Promise!Allow(profile)
    BY <2>1, <2>4, <2>5 DEF Promise!Allow
  <2> QED
    BY <2>1, <2>6
<1>35. CASE EndpointsPolicy
  <2>1. /\ mode = "connecting" /\ enabled /\ profile \in Profiles
        /\ profile \in CandidatesOf[target]
        /\ fw.table /\ fw.endpoints \union fw.tunnels \subseteq {profile}
    BY <1>35 DEF EndpointsPolicy, ApplyPolicy, BarrierOK, AttemptConfined,
               ModeOK, Attempting
  <2>2. fw' \in ReplaceFailures(fw, EndpointPolicy(profile))
    BY <1>35 DEF EndpointsPolicy, ApplyPolicy, ReplaceFailures
  <2>3. fw' \in Firewalls
    BY <2>1, <2>2, FirewallTypes
  <2>4. fw'.table /\ fw'.endpoints \union fw'.tunnels \subseteq {profile}
    BY <2>1, <2>2, <2>3, PolicyEffects
  <2>5. UNCHANGED <<mode, enabled, target, disk, handler>> /\ pc # "dead" /\ pc' # "dead"
    BY <1>35 DEF EndpointsPolicy, ApplyPolicy, Goto, NextCandidate, Enter
  <2>6. Promise!Allow(profile)
    BY <2>1, <2>4, <2>5 DEF Promise!Allow
  <2> QED
    BY <2>1, <2>6
<1>36. CASE ConnectedPolicy
  <2>1. /\ mode = "connecting" /\ enabled /\ profile \in Profiles
        /\ profile \in CandidatesOf[target]
        /\ fw.table /\ fw.endpoints \union fw.tunnels \subseteq {profile}
    BY <1>36 DEF ConnectedPolicy, ApplyPolicy, BarrierOK, AttemptConfined,
               ModeOK, Attempting
  <2>2. fw' \in ReplaceFailures(fw, TunnelPolicy(profile))
    BY <1>36 DEF ConnectedPolicy, ApplyPolicy, ReplaceFailures
  <2>3. fw' \in Firewalls
    BY <2>1, <2>2, FirewallTypes
  <2>4. fw'.table /\ fw'.endpoints \union fw'.tunnels \subseteq {profile}
    BY <2>1, <2>2, <2>3, PolicyEffects
  <2>5. UNCHANGED <<mode, enabled, target, disk, handler>> /\ pc # "dead" /\ pc' # "dead"
    BY <1>36 DEF ConnectedPolicy, ApplyPolicy, Goto, NextCandidate, Enter
  <2>6. Promise!Allow(profile)
    BY <2>1, <2>4, <2>5 DEF Promise!Allow
  <2> QED
    BY <2>1, <2>6
<1>37. CASE Activate
  BY <1>37 DEF Activate, Goto, NextCandidate, Enter
<1>38. CASE AwaitVerification
  BY <1>38 DEF AwaitVerification, Verifiable, TunnelPolicy, Goto,
         NextCandidate, Enter
<1>39. CASE Connected
  BY <1>39 DEF Connected, WriteState, RaiseOSError, Enter, Finish,
         ForgetAttempt, StateWritten, ModeOK, Attempting, TunnelPolicy,
         Promise!Settle
<1>40. CASE Failed
  BY <1>40 DEF Failed, Finish, RaiseOSError, Enter, BarrierOK,
         SealedSteps, Sealed, Promise!Fail
\* Environment
<1>41. CASE UnderlayChanges
  BY <1>41 DEF UnderlayChanges, Networked
<1>42. CASE Republish
  BY <1>42 DEF Republish, Networked
<1>43. CASE TunnelDrops
  BY <1>43 DEF TunnelDrops, Networked
<1>44. CASE TimePasses
  BY <1>44 DEF TimePasses
<1>45. CASE EarlyFirewall
  BY <1>45, SealingTightens DEF EarlyFirewall, MayBootOpen, Open,
         Quarantine, Promise!BootOpen, Promise!Tighten
<1>46. CASE StartNetworkManager
  BY <1>46 DEF StartNetworkManager
<1>47. CASE PowerLoss
  BY <1>47 DEF PowerLoss, Open, Dead, NoSession, ForgetAttempt,
         Promise!PowerLoss
<1>48. CASE Corruption
  BY <1>48 DEF Corruption, Promise!Damage
\* process
<1>49. CASE Start
  BY <1>49, SealingTightens DEF Start, Barrier, Quarantine, Enter, TypeOK,
         Promise!Resume, Promise!Idle, Promise!Tighten
<1>50. CASE SelectTimeout
  BY <1>50 DEF SelectTimeout
<1>51. CASE Exit
  BY <1>51 DEF Exit, Dead, NoSession, ForgetAttempt, Promise!Crash
<1>52. CASE Crash
  BY <1>52 DEF Crash, Dead, NoSession, ForgetAttempt, Promise!Crash
<1>53. CASE UNCHANGED vars
  BY <1>53 DEF vars
<1> QED
  BY <1>1, <1>2, <1>3, <1>4, <1>5, <1>6, <1>7, <1>8, <1>9, <1>10, <1>11,
     <1>12, <1>13, <1>14, <1>15, <1>16, <1>17, <1>18, <1>19, <1>20, <1>21,
     <1>22, <1>23, <1>24, <1>25, <1>26, <1>27, <1>28, <1>29, <1>30, <1>31,
     <1>32, <1>33, <1>34, <1>35, <1>36, <1>37, <1>38, <1>39, <1>40, <1>41,
     <1>42, <1>43, <1>44, <1>45, <1>46, <1>47, <1>48, <1>49, <1>50, <1>51,
     <1>52, <1>53 DEF Next, Request, Progress, Tick, Subroutine, Handling,
     Attempt, Environment

(* The controller implements Protection: whatever fails, crashes or comes  *)
(* back up, traffic is direct on the user's word alone, every way into an  *)
(* attempt and into failed leads through the sealed barrier unless the     *)
(* user is leaving, and a reported connection has exceptions for one       *)
(* profile of the wanted target.                                           *)
THEOREM Spec_ImplementsProtection == Spec => ImplementsProtection
<1>1. Init => Promise!Init
  BY DEF Init, Open, Promise!Init, ReportedMode, WantedTarget, StoredTarget
<1> QED
  BY <1>1, ProtectionStep, TypeCorrect, BarrierCorrect, ModeCorrect, PTL
     DEF Spec, ImplementsProtection, Promise!Spec, AbstractStep

(* A reported connection is confined to one profile of the wanted target:  *)
(* a consequence of Protection alone, hence of everything that implements  *)
(* it.                                                                     *)
THEOREM Spec_ConnectedIsConfined == Spec => []Promise!ConnectedIsConfined
<1> USE DEF Promise!ConnectedIsConfined
<1>1. Promise!Init => Promise!ConnectedIsConfined
  BY DEF Promise!Init
<1>2. Promise!ConnectedIsConfined /\ AbstractStep => Promise!ConnectedIsConfined'
  BY DEF AbstractStep, Promise!Next, Promise!vars, Promise!firewall,
         Promise!Gone, Promise!Crash, Promise!PowerLoss, Promise!Damage,
         Promise!BootOpen, Promise!Resume, Promise!Idle, Promise!Tighten,
         Promise!AskToLeave, Promise!Seek, Promise!Store, Promise!Allow,
         Promise!Settle, Promise!Fail, Promise!Open, Promise!Pause,
         Promise!Disable
<1> QED
  BY <1>1, <1>2, Spec_ImplementsProtection, PTL
     DEF ImplementsProtection, Promise!Spec, AbstractStep

-----------------------------------------------------------------------------
(* Rules appended behind a rule that matches every packet never decide:    *)
(* the add of a policy on a table that is still there changes no verdict.  *)
LEMMA AppendedRulesAreHidden ==
  ASSUME NEW S, NEW old \in Seq(S), NEW new \in Seq(S), old # << >>,
         old[Len(old)].hit
  PROVE  Accepted(old \o new) <=> Accepted(old)
<1> DEFINE n == Len(old)
           both == old \o new
<1>1. /\ n \in Nat \ {0} /\ DOMAIN old = 1..n
      /\ \A i \in 1..n : i \in DOMAIN both /\ both[i] = old[i]
      /\ DOMAIN both \subseteq Nat
  OBVIOUS
<1>2. ASSUME Accepted(both) PROVE Accepted(old)
  <2>1. PICK i \in DOMAIN both :
          /\ both[i].hit /\ both[i].accept
          /\ \A j \in DOMAIN both : j < i => ~both[j].hit
    BY <1>2 DEF Accepted
  <2>2. i \in 1..n
    BY <1>1, <2>1
  <2> QED
    BY <1>1, <2>1, <2>2 DEF Accepted
<1>3. ASSUME Accepted(old) PROVE Accepted(both)
  BY <1>1, <1>3 DEF Accepted
<1> QED
  BY <1>2, <1>3

(* What a rule that accepts asks of the packet.                            *)
LEMMA AcceptHit == ASSUME NEW P \in BOOLEAN, Accept(P).hit PROVE P
BY DEF Accept

(* The output chain: what each rule that accepts asks of the packet, and   *)
(* the drop of DNS in front of the accept for the LAN.                     *)
LEMMA OutputRules ==
  ASSUME NEW c, NEW pkt, NEW i \in 1..11,
         Output(c, pkt)[i].hit, Output(c, pkt)[i].accept,
         \A j \in 1..11 : j < i => ~Output(c, pkt)[j].hit
  PROVE  LET on == OnUnderlay(c, pkt.dev)
         IN  \/ pkt.dev = "lo"
             \/ pkt.dev \in c.tunnels
             \/ on /\ pkt.by = "wireguard" /\ pkt.to \in c.endpoints
             \/ on /\ pkt.by = "root" /\ c.alfred /\ pkt.to = "alfred_endpoint"
             \/ on /\ pkt.by = "resolved" /\ pkt.to = "resolver"
             \/ on /\ c.lan /\ pkt.to \in Lan /\ pkt.to \notin Dns
             \/ pkt.to = "local"
             \/ on /\ c.physical # {} /\ pkt.to = "neighbor"
             \/ pkt.dev = "alfred" /\ pkt.to = "alfred_net"
<1> DEFINE on == OnUnderlay(c, pkt.dev)
           R == Output(c, pkt)
<1>1. /\ R[1] = Accept(pkt.dev = "lo")
      /\ R[2] = Accept(pkt.dev \in c.tunnels)
      /\ R[3] = Accept(on /\ pkt.by = "wireguard" /\ pkt.to \in c.endpoints)
      /\ R[4] = Accept(on /\ pkt.by = "root" /\ c.alfred /\ pkt.to = "alfred_endpoint")
      /\ R[5] = Accept(on /\ pkt.by = "resolved" /\ c.resolvers /\ pkt.to = "resolver")
      /\ R[6] = Drop(on /\ c.lan /\ pkt.to \in Dns)
      /\ R[7] = Accept(on /\ c.lan /\ pkt.to \in Lan)
      /\ R[8] = Accept(on /\ pkt.to = "local")
      /\ R[9] = Accept(on /\ c.physical # {} /\ pkt.to = "neighbor")
      /\ R[10] = Accept(pkt.dev = "alfred" /\ c.alfred /\ pkt.to = "alfred_net")
      /\ R[11] = Drop(TRUE)
  BY DEF Output
<1> HIDE DEF R, on
<1>2. R[i].hit /\ R[i].accept /\ \A j \in 1..11 : j < i => ~R[j].hit
  BY DEF R
<1>3. CASE i = 1
  <2>1. R[1].hit
    BY <1>2, <1>3
  <2>2. R[1] = Accept(pkt.dev = "lo")
    BY <1>1
  <2>3. pkt.dev = "lo"
    BY <2>1, <2>2, AcceptHit
  <2> QED
    BY <2>3
<1>4. CASE i = 2
  BY <1>1, <1>2, <1>4 DEF Accept, on
<1>5. CASE i = 3
  BY <1>1, <1>2, <1>5 DEF Accept, on
<1>6. CASE i = 4
  BY <1>1, <1>2, <1>6 DEF Accept, on
<1>7. CASE i = 5
  BY <1>1, <1>2, <1>7 DEF Accept, on
<1>8. CASE i = 6
  BY <1>1, <1>2, <1>8 DEF Drop, on
<1>9. CASE i = 7
  <2>1. ~R[6].hit
    BY <1>2, <1>9
  <2> QED
    BY <1>1, <1>2, <1>9, <2>1 DEF Accept, Drop, on
<1>10. CASE i = 8
  BY <1>1, <1>2, <1>10 DEF Accept, on
<1>11. CASE i = 9
  BY <1>1, <1>2, <1>11 DEF Accept, on
<1>12. CASE i = 10
  BY <1>1, <1>2, <1>12 DEF Accept, on
<1>13. CASE i = 11
  BY <1>1, <1>2, <1>13 DEF Drop, on
<1> QED
  BY <1>3, <1>4, <1>5, <1>6, <1>7, <1>8, <1>9, <1>10, <1>11, <1>12, <1>13

LEMMA OutputChain ==
  ASSUME NEW f \in Firewalls, NEW p, f.endpoints \union f.tunnels \subseteq {p},
         NEW c \in ContextsOf(f), NEW pkt \in OutPackets,
         Accepted(Output(c, pkt))
  PROVE  MayLeave(pkt, p)
<1>1. DOMAIN Output(c, pkt) = 1..11
  BY DEF Output
<1>2. PICK i \in 1..11 :
        /\ Output(c, pkt)[i].hit /\ Output(c, pkt)[i].accept
        /\ \A j \in 1..11 : j < i => ~Output(c, pkt)[j].hit
  BY <1>1 DEF Accepted
<1>3. /\ c.tunnels \subseteq {p} /\ c.endpoints \subseteq {p}
      /\ c.physical \subseteq Links /\ Renderable(c)
  BY DEF ContextsOf
<1> QED
  BY <1>2, <1>3, OutputRules DEF OnUnderlay, Renderable, MayLeave, Lan, Dns

(* The forward chain: the same.                                            *)
LEMMA ForwardRules ==
  ASSUME NEW c, NEW pkt, NEW i \in 1..9,
         Forward(c, pkt)[i].hit, Forward(c, pkt)[i].accept,
         \A j \in 1..9 : j < i => ~Forward(c, pkt)[j].hit
  PROVE  LET out  == pkt.in = "bridge"
             back == pkt.dev = "bridge" /\ pkt.established
         IN  \/ out /\ pkt.dev = "bridge"
             \/ /\ out /\ pkt.dev \in c.physical
                /\ pkt.far \in Lan /\ pkt.far \notin Dns
             \/ back /\ pkt.in \in c.physical /\ pkt.far \in Lan
             \/ out /\ pkt.dev \in c.tunnels
             \/ back /\ pkt.in \in c.tunnels
             \/ out /\ pkt.dev = "alfred" /\ pkt.far = "alfred_net"
             \/ back /\ pkt.in = "alfred" /\ pkt.far = "alfred_net"
<1> DEFINE out      == c.local /\ pkt.in = "bridge"
           back     == Returning(c, pkt)
           underlay == pkt.dev \in c.physical /\ c.lan /\ pkt.far \in Lan
           R        == Forward(c, pkt)
<1>1. /\ R[1] = Accept(out /\ pkt.dev = "bridge")
      /\ R[2] = Drop(out /\ underlay /\ pkt.far \in Dns)
      /\ R[3] = Accept(out /\ underlay)
      /\ R[4] = Accept(back /\ c.lan /\ pkt.in \in c.physical /\ pkt.far \in Lan)
      /\ R[5] = Accept(out /\ pkt.dev \in c.tunnels)
      /\ R[6] = Accept(back /\ pkt.in \in c.tunnels)
      /\ R[7] = Accept(out /\ pkt.dev = "alfred" /\ c.alfred /\ pkt.far = "alfred_net")
      /\ R[8] = Accept(back /\ pkt.in = "alfred" /\ c.alfred /\ pkt.far = "alfred_net")
      /\ R[9] = Drop(TRUE)
  BY DEF Forward
<1> HIDE DEF R, out, back, underlay
<1>2. R[i].hit /\ R[i].accept /\ \A j \in 1..9 : j < i => ~R[j].hit
  BY DEF R
<1>3. CASE i = 1
  <2>1. R[1].hit
    BY <1>2, <1>3
  <2>2. R[1] = Accept(out /\ pkt.dev = "bridge")
    BY <1>1
  <2>3. out /\ pkt.dev = "bridge"
    BY <2>1, <2>2, AcceptHit
  <2> QED
    BY <2>3 DEF out
<1>4. CASE i = 2
  BY <1>1, <1>2, <1>4 DEF Drop
<1>5. CASE i = 3
  <2>1. ~R[2].hit
    BY <1>2, <1>5
  <2> QED
    BY <1>1, <1>2, <1>5, <2>1 DEF Accept, Drop, out, underlay
<1>6. CASE i = 4
  <2>1. R[4].hit
    BY <1>2, <1>6
  <2>2. R[4] = Accept(back /\ c.lan /\ pkt.in \in c.physical /\ pkt.far \in Lan)
    BY <1>1
  <2>3. back /\ pkt.in \in c.physical /\ pkt.far \in Lan
    BY <2>1, <2>2, AcceptHit
  <2> QED
    BY <2>3 DEF back, Returning
<1>7. CASE i = 5
  BY <1>1, <1>2, <1>7 DEF Accept, out
<1>8. CASE i = 6
  BY <1>1, <1>2, <1>8 DEF Accept, back, Returning
<1>9. CASE i = 7
  BY <1>1, <1>2, <1>9 DEF Accept, out
<1>10. CASE i = 8
  BY <1>1, <1>2, <1>10 DEF Accept, back, Returning
<1>11. CASE i = 9
  BY <1>1, <1>2, <1>11 DEF Drop
<1> QED
  BY <1>3, <1>4, <1>5, <1>6, <1>7, <1>8, <1>9, <1>10, <1>11

LEMMA ForwardChain ==
  ASSUME NEW f \in Firewalls, NEW p, f.endpoints \union f.tunnels \subseteq {p},
         NEW c \in ContextsOf(f), NEW pkt \in ForwardPackets,
         Accepted(Forward(c, pkt))
  PROVE  MayPass(pkt, p)
<1>1. DOMAIN Forward(c, pkt) = 1..9
  BY DEF Forward
<1>2. PICK i \in 1..9 :
        /\ Forward(c, pkt)[i].hit /\ Forward(c, pkt)[i].accept
        /\ \A j \in 1..9 : j < i => ~Forward(c, pkt)[j].hit
  BY <1>1 DEF Accepted
<1>3. c.tunnels \subseteq {p} /\ c.physical \subseteq Links
  BY DEF ContextsOf
<1> QED
  BY <1>2, <1>3, ForwardRules DEF MayPass, Lan, Dns

(* A table whose exceptions are for one profile at most keeps the promise  *)
(* of that profile's tunnel, whatever the host looked like when it was     *)
(* rendered.                                                               *)
THEOREM TablesConfine ==
  ASSUME NEW f \in Firewalls, NEW p, f.table,
         f.endpoints \union f.tunnels \subseteq {p}
  PROVE  LeavesOnly(f, p) /\ PassesOnly(f, p)
<1>1. ASSUME NEW pkt \in OutPackets, Leaves(f, pkt) PROVE MayLeave(pkt, p)
  BY <1>1, OutputChain DEF Leaves, MayLeave
<1>2. ASSUME NEW pkt \in ForwardPackets, Passes(f, pkt) PROVE MayPass(pkt, p)
  BY <1>2, ForwardChain DEF Passes
<1> QED
  BY <1>1, <1>2 DEF LeavesOnly, PassesOnly

-----------------------------------------------------------------------------
(* The tables of a daemon that is connected or about to attempt.           *)
LEMMA ProtectingTables ==
  TypeInv /\ RetryUnderBarrier /\ ConnectedAsIntended /\ Protecting =>
    /\ fw \in Firewalls /\ fw.table
    /\ Tunnel \in Profiles \union {NoProfile}
    /\ fw.endpoints \union fw.tunnels \subseteq {Tunnel}
BY DEF TypeInv, TypeOK, RetryUnderBarrier, ConnectedAsIntended, Protecting,
       Tunnel

(* Connected or about to attempt, this machine's packets leave by the      *)
(* reported tunnel, or as the exceptions of the architecture say.          *)
THEOREM Spec_OutputConfined == Spec => []OutputConfined
<1>1. TypeInv /\ RetryUnderBarrier /\ ConnectedAsIntended => OutputConfined
  <2> SUFFICES ASSUME TypeInv, RetryUnderBarrier, ConnectedAsIntended, Protecting
               PROVE  <<fw, Tunnel>> \in OutputPromises
    BY DEF OutputConfined
  <2>1. LeavesOnly(fw, Tunnel)
    BY ProtectingTables, TablesConfine
  <2>2. PICK r \in Promises : r.table = fw /\ r.tunnel = Tunnel
    <3> DEFINE w == [table |-> fw, tunnel |-> Tunnel]
    <3>1. w \in Promises /\ w.table = fw /\ w.tunnel = Tunnel
      BY ProtectingTables DEF Promises
    <3> QED
      BY <3>1
  <2>3. r \in {q \in Promises : LeavesOnly(q.table, q.tunnel)}
    BY <2>1, <2>2
  <2> QED
    BY <2>2, <2>3 DEF OutputPromises
<1> QED
  BY <1>1, TypeCorrect, Spec_RetryUnderBarrier, Spec_ConnectedAsIntended, PTL

(* And the packets of its guests are forwarded no other way.               *)
THEOREM Spec_GuestsConfined == Spec => []GuestsConfined
<1>1. TypeInv /\ RetryUnderBarrier /\ ConnectedAsIntended => GuestsConfined
  <2> SUFFICES ASSUME TypeInv, RetryUnderBarrier, ConnectedAsIntended, Protecting
               PROVE  <<fw, Tunnel>> \in ForwardPromises
    BY DEF GuestsConfined
  <2>1. PassesOnly(fw, Tunnel)
    BY ProtectingTables, TablesConfine
  <2>2. PICK r \in Promises : r.table = fw /\ r.tunnel = Tunnel
    <3> DEFINE w == [table |-> fw, tunnel |-> Tunnel]
    <3>1. w \in Promises /\ w.table = fw /\ w.tunnel = Tunnel
      BY ProtectingTables DEF Promises
    <3> QED
      BY <3>1
  <2>3. r \in {q \in Promises : PassesOnly(q.table, q.tunnel)}
    BY <2>1, <2>2
  <2> QED
    BY <2>2, <2>3 DEF ForwardPromises
<1> QED
  BY <1>1, TypeCorrect, Spec_RetryUnderBarrier, Spec_ConnectedAsIntended, PTL
=============================================================================
