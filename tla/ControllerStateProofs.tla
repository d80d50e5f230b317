----------------------- MODULE ControllerStateProofs ------------------------
(***************************************************************************)
(* The inductive invariants of Controller, for every set of links,         *)
(* profiles and targets, in three parts, each on the ones before: types    *)
(* and control, the routing of links, and the firewall.                    *)
(***************************************************************************)
EXTENDS ControllerProperties, TLAPS

-----------------------------------------------------------------------------
(***************************************************************************)
(* Type correctness.  TypeOK is not inductive: that a policy names a       *)
(* profile, that the intent on disk names a target and that a subroutine   *)
(* returns to a step at all depend on where the daemon is.  The            *)
(* strengthening says                                                      *)
(*                                                                         *)
(*   ControlOK   which handler can be running at a step, and where the two *)
(*               subroutines return to;                                    *)
(*   IntentOK    what cannot be going on without an enabled intent.        *)
(***************************************************************************)

EmergencyReturns == {"finish", "pick", "failed", "emergency_failed"}

DirectReturns ==
  {"emergency_disabled", "boot_clear", "disconnect_persist", "pause_clear"}

ControlOK ==
  /\ phase # "up" => pc = "dead"
  /\ pc = "dead" => ~enabled
  /\ pc = "isolate" => handler \in {"boot", "tick", "verify", "emergency"}
  /\ pc = "emergency" => handler = "emergency"
  /\ pc \in EmergencySteps \ {"unwind"} => ret \in EmergencyReturns
  /\ pc = "persist_connecting" => ret = "finish"
  /\ pc \in DirectSteps => ret \in DirectReturns
  /\ "disconnect_persist" \in {pc, ret} => handler = "disconnect"
  /\ pc = "disconnect_persist" => ret = "disconnect_persist"
  /\ "pause_clear" \in {pc, ret} \/ pc = "pause_persist" => handler = "pause"
  /\ pc \in AttemptSteps \ {"pick"} => profile \in Profiles
  /\ pc \in AttemptSteps \/ ret = "pick" => handler \in {"tick", "boot"}
  /\ pc = "boot_close" => handler = "boot"
  /\ pc = "abort" => handler \in {"disconnect", "pause"}
  /\ pc \in DirectSteps => handler \in {"disconnect", "pause"} \/ ~enabled
  /\ pc \in DirectSteps /\ ret \in {"boot_clear", "emergency_disabled"} => ~enabled

IntentOK ==
  ~enabled =>
    /\ retryAt = "never"
    /\ mode \notin {"connecting", "connected", "paused"}
    /\ handler \notin {"connect", "retry", "pause", "verify"}
    /\ pc \notin AttemptSteps \union {"boot_close", "failed"}
    /\ ret \notin {"pick", "failed"}

TypeInv == TypeOK /\ ControlOK /\ IntentOK

-----------------------------------------------------------------------------
(* The outcomes of every firewall command are tables of the host.          *)
LEMMA FirewallTypes ==
  /\ Open \in Firewalls /\ Quarantine \in Firewalls /\ Closed \in Firewalls
  /\ \A p \in Profiles : EndpointPolicy(p) \in Firewalls /\ TunnelPolicy(p) \in Firewalls
  /\ \A old \in Firewalls :
       /\ QuarantineFailures(old) \subseteq Firewalls
       /\ RemoveFailures(old) \subseteq Firewalls
       /\ \A new \in Firewalls : ReplaceFailures(old, new) \subseteq Firewalls
BY DEF Firewalls, Open, Quarantine, Closed, EndpointPolicy, TunnelPolicy,
       Accumulated, QuarantineFailures, RemoveFailures, ReplaceFailures

(* Every step preserves the strengthened type invariant.                   *)
LEMMA TypeStep == TypeInv /\ [Next]_vars => TypeInv'
<1> SUFFICES ASSUME TypeInv, [Next]_vars PROVE TypeInv'
  OBVIOUS
<1> USE CatalogAssumption DEF TypeInv, TypeOK, ControlOK, IntentOK, Modes,
        Deadlines, Requests, Handlers, Loop, AttemptSteps, EmergencySteps,
        DirectSteps, Returns, Steps, EmergencyReturns, DirectReturns, Saved,
        Routing, machine, memory, files, network, control, intent, schedule,
        tracking, attempt, session
\* Request
<1>1. ASSUME NEW to \in Targets, Connect(to) PROVE TypeInv'
  <2>1. TypeOK'
    <3>1. (target \in Targets \union {NoTarget} /\ (enabled => target # NoTarget))'
      BY <1>1 DEF Connect
    <3>2. (enabled \in BOOLEAN)'
      BY <1>1 DEF Connect
    <3>3. fw' \in Firewalls
      BY <1>1, FirewallTypes DEF Connect, Barrier
    <3> QED BY <1>1, <3>1, <3>2, <3>3 DEF Connect, Enter
  <2>2. ControlOK'
    BY <1>1, FirewallTypes DEF Connect, Barrier, Enter
  <2>3. IntentOK'
    BY <1>1, FirewallTypes DEF Connect, Barrier, Enter
  <2> QED BY <2>1, <2>2, <2>3
<1>2. CASE Retry
  BY <1>2, FirewallTypes DEF Retry, ScheduleConnecting, Barrier, Enter
<1>3. CASE Disconnect
  BY <1>3 DEF Disconnect, Enter
<1>4. CASE Pause
  BY <1>4 DEF Pause, Enter
\* Tick
<1>5. CASE PauseExpires
  BY <1>5, FirewallTypes DEF PauseExpires, ScheduleConnecting, Barrier, Enter
<1>6. CASE AttemptDue
  BY <1>6 DEF AttemptDue, Enter
<1>7. CASE VerifyFails
  BY <1>7 DEF VerifyFails, Enter
<1>8. CASE TickQuiet
  BY <1>8, FirewallTypes DEF TickQuiet, Verifiable
\* Subroutine
<1>9. CASE Isolate
  BY <1>9, FirewallTypes DEF Isolate, Barrier, Goto, RaiseSystemFailure,
         Enter
<1>10. CASE Detach
  BY <1>10 DEF Detach, NoSession, Goto
<1>11. CASE Close
  BY <1>11, FirewallTypes DEF Close, Goto
<1>12. CASE UndoDns
  BY <1>12 DEF UndoDns, ClearBootstrap, WithoutBootstrap, Partially,
         RaiseSystemFailure, Enter, Goto
<1>13. CASE Unwind
  BY <1>13 DEF Unwind, ClearBootstrap, WithoutBootstrap, Partially,
         RaiseSystemFailure, Enter
<1>14. CASE DirectDetach
  BY <1>14 DEF DirectDetach, NoSession, Goto
<1>15. CASE DirectDns
  BY <1>15 DEF DirectDns, Restored, Goto, Partially, RaiseSystemFailure,
         Enter
<1>16. CASE DirectOpen
  BY <1>16, FirewallTypes DEF DirectOpen, Goto, RaiseSystemFailure, Enter
\* Handling
<1>17. CASE BootClose
  BY <1>17, FirewallTypes DEF BootClose, Enter, RaiseSystemFailure
<1>18. CASE BootClear
  BY <1>18 DEF BootClear, NothingSaved, WriteSaved, RaiseOSError, Enter,
         Finish
<1>19. CASE Finished
  BY <1>19 DEF Finished, Finish
<1>20. CASE PersistConnecting
  BY <1>20 DEF PersistConnecting, WriteState, StateWritten, RaiseOSError,
         Enter, Goto
<1>21. CASE DisconnectPersist
  <2>1. handler = "disconnect" /\ phase = "up" /\ ret = "disconnect_persist"
    BY <1>21 DEF DisconnectPersist
  <2>2. /\ disk' \in [intent : {"disabled", "enabled", "malformed"},
                     target : Targets \union {NoTarget}]
        /\ disk'.intent = "enabled" => disk'.target # NoTarget
    BY <1>21 DEF DisconnectPersist, WriteState, StateWritten
  <2>3. \/ Goto("disconnect_clear")
        \/ Enter("emergency", "emergency", "none")
    BY <1>21, <2>1 DEF DisconnectPersist, WriteState, RaiseOSError
  <2>4. /\ (enabled \in BOOLEAN)'
        /\ (enabled => target # NoTarget)'
        /\ (target \in Targets \union {NoTarget})'
    BY <1>21 DEF DisconnectPersist
  <2>5. TypeOK'
    BY <1>21, <2>2, <2>3, <2>4 DEF DisconnectPersist, Enter, Goto
  <2>6. ControlOK'
    BY <1>21, <2>1, <2>3 DEF DisconnectPersist, Enter, Goto
  <2>7. IntentOK'
    BY <1>21, <2>1, <2>3 DEF DisconnectPersist, Enter, Goto
  <2> QED BY <2>5, <2>6, <2>7
<1>22. CASE DisconnectClear
  BY <1>22 DEF DisconnectClear, NothingSaved, WriteSaved, RaiseOSError,
         Enter, Finish
<1>23. CASE PauseClear
  BY <1>23 DEF PauseClear, NothingSaved, WriteSaved, RaiseOSError, Enter,
         Goto
<1>24. CASE PausePersist
  BY <1>24 DEF PausePersist, WriteState, StateWritten, RaiseOSError, Enter,
         Finish
<1>25. CASE Abort
  BY <1>25 DEF Abort, WriteState, StateWritten, RaiseOSError, Enter, Finish
<1>26. CASE Emergency
  BY <1>26 DEF Emergency, Enter, ForgetAttempt
<1>27. CASE EmergencyDone
  BY <1>27 DEF EmergencyDone, Finish
\* Attempt
<1>28. CASE Pick
  BY <1>28 DEF Pick, Goto
<1>29. CASE GiveUp
  BY <1>29 DEF GiveUp, Enter, ForgetAttempt
<1>30. CASE Inspect
  BY <1>30 DEF Inspect, Goto, NextCandidate, Enter
<1>31. CASE Stale
  BY <1>31 DEF Stale, SavedLinks, Restored, Goto, Partially, NextCandidate,
         Enter
<1>32. CASE Capture
  BY <1>32 DEF Capture, Captured, WriteSaved, RaiseOSError, Enter, Goto,
         SavedLinks, NextCandidate
<1>33. CASE Configure
  BY <1>33 DEF Configure, Configured, NeedsHostname, Goto, AfterConfigure,
         Partially, Registered, NextCandidate, Enter
<1>34. CASE BasePolicy
  BY <1>34, FirewallTypes DEF BasePolicy, ApplyPolicy, Goto, NextCandidate,
         Enter
<1>35. CASE EndpointsPolicy
  BY <1>35, FirewallTypes DEF EndpointsPolicy, ApplyPolicy, Goto,
         NextCandidate, Enter
<1>36. CASE ConnectedPolicy
  BY <1>36, FirewallTypes DEF ConnectedPolicy, ApplyPolicy, Goto,
         NextCandidate, Enter
<1>37. CASE Activate
  BY <1>37 DEF Activate, Goto, NextCandidate, Enter
<1>38. CASE AwaitVerification
  BY <1>38, FirewallTypes DEF AwaitVerification, Verifiable, Goto,
         NextCandidate, Enter
<1>39. CASE Connected
  BY <1>39 DEF Connected, WriteState, StateWritten, RaiseOSError, Enter,
         Finish, ForgetAttempt
<1>40. CASE Failed
  BY <1>40 DEF Failed, Finish, RaiseOSError, Enter
\* Environment
<1>41. CASE UnderlayChanges
  BY <1>41 DEF UnderlayChanges, Networked
<1>42. CASE Republish
  BY <1>42 DEF Republish, Networked
<1>43. CASE TunnelDrops
  BY <1>43 DEF TunnelDrops, Networked
<1>44. CASE TimePasses
  BY <1>44 DEF TimePasses
<1>45. CASE EarlyFirewall
  BY <1>45, FirewallTypes DEF EarlyFirewall, MayBootOpen, NothingSaved
<1>46. CASE StartNetworkManager
  BY <1>46 DEF StartNetworkManager
<1>47. CASE PowerLoss
  BY <1>47, FirewallTypes DEF PowerLoss, Dead, NoSession, NothingSaved,
         ForgetAttempt
<1>48. CASE Corruption
  BY <1>48 DEF Corruption
\* process
<1>49. CASE Start
  <2>1. (target \in Targets \union {NoTarget} /\ (enabled => target # NoTarget))'
    BY <1>49 DEF Start
  <2>2. (enabled \in BOOLEAN)'
    BY <1>49 DEF Start
  <2>3. fw' \in Firewalls
    BY <1>49, FirewallTypes DEF Start, Barrier
  <2> QED BY <1>49, <2>1, <2>2, <2>3 DEF Start, Enter, SavedLinks
<1>50. CASE SelectTimeout
  BY <1>50 DEF SelectTimeout
<1>51. CASE Exit
  BY <1>51 DEF Exit, Dead, NoSession, NothingSaved, ForgetAttempt
<1>52. CASE Crash
  BY <1>52 DEF Crash, Dead, NoSession, NothingSaved, ForgetAttempt
<1>53. CASE UNCHANGED vars
  BY <1>53 DEF vars
<1> QED
  BY <1>1, <1>2, <1>3, <1>4, <1>5, <1>6, <1>7, <1>8, <1>9, <1>10, <1>11,
     <1>12, <1>13, <1>14, <1>15, <1>16, <1>17, <1>18, <1>19, <1>20, <1>21,
     <1>22, <1>23, <1>24, <1>25, <1>26, <1>27, <1>28, <1>29, <1>30, <1>31,
     <1>32, <1>33, <1>34, <1>35, <1>36, <1>37, <1>38, <1>39, <1>40, <1>41,
     <1>42, <1>43, <1>44, <1>45, <1>46, <1>47, <1>48, <1>49, <1>50, <1>51,
     <1>52, <1>53 DEF Next, Request, Progress, Tick, Subroutine, Handling,
     Attempt, Environment

(* The strengthened type invariant, on which all other proofs rest.        *)
THEOREM TypeCorrect == Spec => []TypeInv
<1>1. ASSUME Init PROVE TypeInv
  <2>1. enabled \in BOOLEAN /\ ~enabled /\ disk.intent # "enabled"
    BY <1>1 DEF Init
  <2>2. TypeOK
    BY <1>1, <2>1, FirewallTypes
       DEF Init, TypeOK, Steps, Loop, Returns, Modes, Deadlines, Handlers,
           Saved, Routing, NothingSaved
  <2>3. ControlOK /\ IntentOK
    BY <1>1, <2>1
       DEF Init, ControlOK, IntentOK, AttemptSteps, EmergencySteps, DirectSteps
  <2> QED BY <2>2, <2>3 DEF TypeInv
<1> QED
  BY <1>1, TypeStep, PTL DEF Spec

(* Every variable keeps its type: the values that the model lets commands, *)
(* files and exceptions produce are those the code is written for.         *)
THEOREM Spec_TypeOK == Spec => []TypeOK
<1>1. TypeInv => TypeOK
  BY DEF TypeInv
<1> QED
  BY <1>1, TypeCorrect, PTL

-----------------------------------------------------------------------------
(***************************************************************************)
(* The routing of physical links can always be given back, in every        *)
(* installation.  The inductive invariant is a statement about one link:   *)
(* what dns.json, its image in memory and the set of links registered for  *)
(* cleanup say of it, and what _configure_lan_dns has established of it    *)
(* before its next command.                                                *)
(***************************************************************************)

\* Steps at which every link has its own routing.
CleanSteps == {"direct_open", "boot_clear", "disconnect_persist",
               "disconnect_clear", "pause_clear", "pause_persist"}

LinkOK(l) ==
  /\ saved[l] \in {"none", "own"}
  /\ dnsRestore[l] \in {"none", "own"}
  /\ dns[l] # "own" => saved[l] = "own"
  /\ pc \notin {"dead", "die"} /\ dnsRestore[l] = "own" => saved[l] = "own"
  /\ pc # "dead" /\ dns[l] # "own" => dnsRestore[l] = "own"
  /\ pc # "dead" /\ dns[l] = "hostname" => l \in bootstrap
  /\ pc = "capture" /\ l \notin base => dns[l] = "own"
  /\ pc = "configure" /\ l \in base => saved[l] = "own" /\ dnsRestore[l] = "own"
  /\ pc \in CleanSteps => dns[l] = "own"

DnsOK == \A l \in Links : LinkOK(l)

-----------------------------------------------------------------------------
(* Every step preserves what is known of a link.                           *)
LEMMA DnsStep == TypeInv /\ DnsOK /\ [Next]_vars => DnsOK'
<1> SUFFICES ASSUME TypeInv, DnsOK, [Next]_vars, NEW l \in Links
             PROVE LinkOK(l)'
  BY DEF DnsOK
<1> LinkOK(l)
  BY DEF DnsOK
<1> USE DEF TypeInv, TypeOK, ControlOK, LinkOK, CleanSteps, Modes, Requests,
        Handlers, Loop, AttemptSteps, EmergencySteps, DirectSteps, Returns,
        Steps, EmergencyReturns, DirectReturns, Saved, Routing, machine,
        memory, files, network, control, intent, schedule, tracking, attempt,
        session
\* Request
<1>1. ASSUME NEW to \in Targets, Connect(to) PROVE LinkOK(l)'
  BY <1>1 DEF Connect, Barrier, Enter
<1>2. CASE Retry
  BY <1>2 DEF Retry, ScheduleConnecting, Barrier, Enter
<1>3. CASE Disconnect
  BY <1>3 DEF Disconnect, Enter
<1>4. CASE Pause
  BY <1>4 DEF Pause, Enter
\* Tick
<1>5. CASE PauseExpires
  BY <1>5 DEF PauseExpires, ScheduleConnecting, Barrier, Enter
<1>6. CASE AttemptDue
  BY <1>6 DEF AttemptDue, Enter
<1>7. CASE VerifyFails
  BY <1>7 DEF VerifyFails, Enter
<1>8. CASE TickQuiet
  BY <1>8 DEF TickQuiet, Verifiable
\* Subroutine
<1>9. CASE Isolate
  BY <1>9 DEF Isolate, Barrier, Goto, RaiseSystemFailure, Enter
<1>10. CASE Detach
  BY <1>10 DEF Detach, NoSession, Goto
<1>11. CASE Close
  BY <1>11 DEF Close, Goto
<1>12. CASE UndoDns
  BY <1>12 DEF UndoDns, ClearBootstrap, WithoutBootstrap, Partially,
         RaiseSystemFailure, Enter, Goto
<1>13. CASE Unwind
  BY <1>13 DEF Unwind, ClearBootstrap, WithoutBootstrap, Partially,
         RaiseSystemFailure, Enter
<1>14. CASE DirectDetach
  BY <1>14 DEF DirectDetach, NoSession, Goto
<1>15. CASE DirectDns
  BY <1>15 DEF DirectDns, Restored, Goto, Partially, RaiseSystemFailure,
         Enter
<1>16. CASE DirectOpen
  BY <1>16 DEF DirectOpen, Goto, RaiseSystemFailure, Enter
\* Handling
<1>17. CASE BootClose
  BY <1>17 DEF BootClose, Enter, RaiseSystemFailure
<1>18. CASE BootClear
  BY <1>18 DEF BootClear, NothingSaved, WriteSaved, RaiseOSError, Enter,
         Finish
<1>19. CASE Finished
  BY <1>19 DEF Finished, Finish
<1>20. CASE PersistConnecting
  BY <1>20 DEF PersistConnecting, WriteState, StateWritten, RaiseOSError,
         Enter, Goto
<1>21. CASE DisconnectPersist
  BY <1>21 DEF DisconnectPersist, WriteState, StateWritten, RaiseOSError,
         Enter, Goto
<1>22. CASE DisconnectClear
  BY <1>22 DEF DisconnectClear, NothingSaved, WriteSaved, RaiseOSError,
         Enter, Finish
<1>23. CASE PauseClear
  BY <1>23 DEF PauseClear, NothingSaved, WriteSaved, RaiseOSError, Enter,
         Goto
<1>24. CASE PausePersist
  BY <1>24 DEF PausePersist, WriteState, StateWritten, RaiseOSError, Enter,
         Finish
<1>25. CASE Abort
  BY <1>25 DEF Abort, WriteState, StateWritten, RaiseOSError, Enter, Finish
<1>26. CASE Emergency
  BY <1>26 DEF Emergency, Enter, ForgetAttempt
<1>27. CASE EmergencyDone
  BY <1>27 DEF EmergencyDone, Finish
\* Attempt
<1>28. CASE Pick
  BY <1>28 DEF Pick, Goto
<1>29. CASE GiveUp
  BY <1>29 DEF GiveUp, Enter, ForgetAttempt
<1>30. CASE Inspect
  BY <1>30 DEF Inspect, Goto, NextCandidate, Enter
<1>31. CASE Stale
  BY <1>31 DEF Stale, SavedLinks, Restored, Goto, Partially, NextCandidate,
         Enter
<1>32. CASE Capture
  BY <1>32 DEF Capture, Captured, WriteSaved, RaiseOSError, Enter, Goto,
         SavedLinks, NextCandidate
<1>33. CASE Configure
  BY <1>33 DEF Configure, Configured, NeedsHostname, Goto, AfterConfigure,
         Partially, Registered, NextCandidate, Enter
<1>34. CASE BasePolicy
  BY <1>34 DEF BasePolicy, ApplyPolicy, Goto, NextCandidate, Enter
<1>35. CASE EndpointsPolicy
  BY <1>35 DEF EndpointsPolicy, ApplyPolicy, Goto, NextCandidate, Enter
<1>36. CASE ConnectedPolicy
  BY <1>36 DEF ConnectedPolicy, ApplyPolicy, Goto, NextCandidate, Enter
<1>37. CASE Activate
  BY <1>37 DEF Activate, Goto, NextCandidate, Enter
<1>38. CASE AwaitVerification
  BY <1>38 DEF AwaitVerification, Verifiable, Goto, NextCandidate, Enter
<1>39. CASE Connected
  BY <1>39 DEF Connected, WriteState, StateWritten, RaiseOSError, Enter,
         Finish, ForgetAttempt
<1>40. CASE Failed
  BY <1>40 DEF Failed, Finish, RaiseOSError, Enter
\* Environment
<1>41. CASE UnderlayChanges
  BY <1>41 DEF UnderlayChanges, Networked
<1>42. CASE Republish
  BY <1>42 DEF Republish, Networked
<1>43. CASE TunnelDrops
  BY <1>43 DEF TunnelDrops, Networked
<1>44. CASE TimePasses
  BY <1>44 DEF TimePasses
<1>45. CASE EarlyFirewall
  BY <1>45 DEF EarlyFirewall, MayBootOpen, NothingSaved
<1>46. CASE StartNetworkManager
  BY <1>46 DEF StartNetworkManager
<1>47. CASE PowerLoss
  BY <1>47 DEF PowerLoss, Dead, NoSession, NothingSaved, ForgetAttempt
<1>48. CASE Corruption
  BY <1>48 DEF Corruption
\* process
<1>49. CASE Start
  BY <1>49 DEF Start, Barrier, Enter, SavedLinks
<1>50. CASE SelectTimeout
  BY <1>50 DEF SelectTimeout
<1>51. CASE Exit
  BY <1>51 DEF Exit, Dead, NoSession, NothingSaved, ForgetAttempt
<1>52. CASE Crash
  BY <1>52 DEF Crash, Dead, NoSession, NothingSaved, ForgetAttempt
<1>53. CASE UNCHANGED vars
  BY <1>53 DEF vars
<1> QED
  BY <1>1, <1>2, <1>3, <1>4, <1>5, <1>6, <1>7, <1>8, <1>9, <1>10, <1>11,
     <1>12, <1>13, <1>14, <1>15, <1>16, <1>17, <1>18, <1>19, <1>20, <1>21,
     <1>22, <1>23, <1>24, <1>25, <1>26, <1>27, <1>28, <1>29, <1>30, <1>31,
     <1>32, <1>33, <1>34, <1>35, <1>36, <1>37, <1>38, <1>39, <1>40, <1>41,
     <1>42, <1>43, <1>44, <1>45, <1>46, <1>47, <1>48, <1>49, <1>50, <1>51,
     <1>52, <1>53 DEF Next, Request, Progress, Tick, Subroutine, Handling,
     Attempt, Environment

(* The inductive invariant about the routing of links.                     *)
THEOREM DnsCorrect == Spec => []DnsOK
<1>1. Init => DnsOK
  BY DEF Init, DnsOK, LinkOK, CleanSteps, NothingSaved
<1> QED
  BY <1>1, DnsStep, TypeCorrect, PTL DEF Spec

(* Whatever crashes, restarts, failed commands and failed writes happen,   *)
(* dns.json records the own routing of every link the backend changed.     *)
THEOREM Spec_DnsRecoverable == Spec => []DnsRecoverable
<1>1. DnsOK => DnsRecoverable
  BY DEF DnsOK, LinkOK, DnsRecoverable
<1> QED
  BY <1>1, DnsCorrect, PTL

(* No snapshot ever records a routing that the backend wrote.              *)
THEOREM Spec_SnapshotClean == Spec => []SnapshotClean
<1>1. DnsOK => SnapshotClean
  BY DEF DnsOK, LinkOK, SnapshotClean
<1> QED
  BY <1>1, DnsCorrect, PTL

(* Every link with a host-name route is registered for its cleanup.        *)
THEOREM Spec_BootstrapTracked == Spec => []BootstrapTracked
<1>1. DnsOK => BootstrapTracked
  BY DEF DnsOK, LinkOK, BootstrapTracked
<1> QED
  BY <1>1, DnsCorrect, PTL

-----------------------------------------------------------------------------
(***************************************************************************)
(* The firewall of an enabled daemon, in every installation.               *)
(*                                                                         *)
(* The inductive invariant says where the table is sealed (there, without  *)
(* an exception for an endpoint or a tunnel): at the steps that a          *)
(* successful apply_quarantine() leads to, and whenever an attempt is      *)
(* scheduled, but for the steps from which the schedule, the process or    *)
(* the opening is bound to be undone.                                      *)
(***************************************************************************)

\* The table without an exception for an endpoint or a tunnel.
Sealed == fw.table /\ fw.endpoints = {} /\ fw.tunnels = {}

\* Steps that follow a successful apply_quarantine().
SealedSteps == {"persist_connecting", "detach", "close", "undo_dns", "finish",
                "pick", "failed", "emergency_failed"}

\* Steps at which the table may be open although an attempt is scheduled:
\* they end behind the barrier, without the schedule, or with the process.
OpenSteps == AttemptSteps \union
  {"isolate", "disconnect_persist", "pause_clear", "pause_persist", "abort",
   "emergency", "die"}

BarrierOK ==
  /\ pc \in SealedSteps => Sealed
  /\ retryAt # "never" => Sealed \/ pc \in OpenSteps
  /\ AttemptConfined

-----------------------------------------------------------------------------
(* What the commands make of a table, as far as the barrier is concerned.  *)
LEMMA FirewallEffects ==
  ASSUME NEW old \in Firewalls, NEW fwNew, old.table
  PROVE  /\ \/ fwNew \in QuarantineFailures(old)
            \/ fwNew \in ReplaceFailures(old, Closed)
            => /\ fwNew.table
               /\ old.endpoints = {} /\ old.tunnels = {} =>
                    fwNew.endpoints = {} /\ fwNew.tunnels = {}
         /\ \A p \in Profiles :
              \/ fwNew \in ReplaceFailures(old, EndpointPolicy(p))
              \/ fwNew \in ReplaceFailures(old, TunnelPolicy(p))
              => fwNew.table
BY DEF Firewalls, Quarantine, Closed, EndpointPolicy, TunnelPolicy,
       Accumulated, QuarantineFailures, ReplaceFailures

(* Every step preserves the barrier.                                       *)
LEMMA BarrierStep == TypeInv /\ BarrierOK /\ [Next]_vars => BarrierOK'
<1> SUFFICES ASSUME TypeInv, BarrierOK, [Next]_vars PROVE BarrierOK'
  OBVIOUS
<1> fw \in Firewalls
  BY DEF TypeInv, TypeOK
<1> USE DEF TypeInv, ControlOK, IntentOK, BarrierOK, AttemptConfined, Sealed,
        SealedSteps, OpenSteps, Requests, Loop, AttemptSteps, EmergencySteps,
        DirectSteps, EmergencyReturns, DirectReturns, machine, memory, files,
        network, control, intent, schedule, tracking, attempt, session
\* Request
<1>1. ASSUME NEW to \in Targets, Connect(to) PROVE BarrierOK'
  BY <1>1, FirewallEffects DEF Connect, Barrier, Quarantine, Enter
<1>2. CASE Retry
  BY <1>2, FirewallEffects DEF Retry, ScheduleConnecting, Barrier,
         Quarantine, Enter
<1>3. CASE Disconnect
  BY <1>3 DEF Disconnect, Enter
<1>4. CASE Pause
  BY <1>4 DEF Pause, Enter
\* Tick
<1>5. CASE PauseExpires
  BY <1>5, FirewallEffects DEF PauseExpires, ScheduleConnecting, Barrier,
         Quarantine, Enter
<1>6. CASE AttemptDue
  BY <1>6 DEF AttemptDue, Enter
<1>7. CASE VerifyFails
  BY <1>7 DEF VerifyFails, Enter
<1>8. CASE TickQuiet
  BY <1>8 DEF TickQuiet, Verifiable, TunnelPolicy
\* Subroutine
<1>9. CASE Isolate
  BY <1>9, FirewallEffects DEF Isolate, Barrier, Quarantine, Goto,
         RaiseSystemFailure, Enter
<1>10. CASE Detach
  BY <1>10 DEF Detach, NoSession, Goto
<1>11. CASE Close
  BY <1>11, FirewallEffects DEF Close, Closed, Goto, Quarantine
<1>12. CASE UndoDns
  BY <1>12 DEF UndoDns, ClearBootstrap, RaiseSystemFailure, Enter, Goto
<1>13. CASE Unwind
  BY <1>13 DEF Unwind, ClearBootstrap, RaiseSystemFailure, Enter
<1>14. CASE DirectDetach
  BY <1>14 DEF DirectDetach, NoSession, Goto
<1>15. CASE DirectDns
  BY <1>15 DEF DirectDns, Goto, RaiseSystemFailure, Enter
<1>16. CASE DirectOpen
  BY <1>16 DEF DirectOpen, Open, Goto, RemoveFailures, RaiseSystemFailure,
         Enter
\* Handling
<1>17. CASE BootClose
  BY <1>17, FirewallEffects DEF BootClose, Closed, Enter, Quarantine,
         RaiseSystemFailure
<1>18. CASE BootClear
  BY <1>18 DEF BootClear, WriteSaved, RaiseOSError, Enter, Finish
<1>19. CASE Finished
  BY <1>19 DEF Finished, Finish
<1>20. CASE PersistConnecting
  BY <1>20 DEF PersistConnecting, WriteState, RaiseOSError, Enter, Goto
<1>21. CASE DisconnectPersist
  BY <1>21 DEF DisconnectPersist, WriteState, RaiseOSError, Enter, Goto
<1>22. CASE DisconnectClear
  BY <1>22 DEF DisconnectClear, WriteSaved, RaiseOSError, Enter, Finish
<1>23. CASE PauseClear
  BY <1>23 DEF PauseClear, WriteSaved, RaiseOSError, Enter, Goto
<1>24. CASE PausePersist
  BY <1>24 DEF PausePersist, WriteState, RaiseOSError, Enter, Finish
<1>25. CASE Abort
  BY <1>25 DEF Abort, WriteState, RaiseOSError, Enter, Finish
<1>26. CASE Emergency
  BY <1>26 DEF Emergency, Enter, ForgetAttempt
<1>27. CASE EmergencyDone
  BY <1>27 DEF EmergencyDone, Finish
\* Attempt
<1>28. CASE Pick
  BY <1>28 DEF Pick, Goto
<1>29. CASE GiveUp
  BY <1>29 DEF GiveUp, Enter, ForgetAttempt
<1>30. CASE Inspect
  BY <1>30 DEF Inspect, Goto, NextCandidate, Enter
<1>31. CASE Stale
  BY <1>31 DEF Stale, Goto, NextCandidate, Enter
<1>32. CASE Capture
  BY <1>32 DEF Capture, WriteSaved, RaiseOSError, Enter, Goto, NextCandidate
<1>33. CASE Configure
  BY <1>33 DEF Configure, NeedsHostname, Goto, AfterConfigure, Registered,
         NextCandidate, Enter
<1>34. CASE BasePolicy
  BY <1>34, FirewallEffects DEF BasePolicy, ApplyPolicy, Goto, Quarantine,
         NextCandidate, Enter, Closed
<1>35. CASE EndpointsPolicy
  BY <1>35, FirewallEffects DEF EndpointsPolicy, ApplyPolicy, Goto,
         Quarantine, NextCandidate, Enter, EndpointPolicy
<1>36. CASE ConnectedPolicy
  BY <1>36, FirewallEffects DEF ConnectedPolicy, ApplyPolicy, Goto,
         Quarantine, NextCandidate, Enter, TunnelPolicy
<1>37. CASE Activate
  BY <1>37 DEF Activate, Goto, NextCandidate, Enter
<1>38. CASE AwaitVerification
  BY <1>38 DEF AwaitVerification, Verifiable, TunnelPolicy, Goto,
         NextCandidate, Enter
<1>39. CASE Connected
  BY <1>39 DEF Connected, WriteState, RaiseOSError, Enter, Finish,
         ForgetAttempt
<1>40. CASE Failed
  BY <1>40 DEF Failed, Finish, RaiseOSError, Enter
\* Environment
<1>41. CASE UnderlayChanges
  BY <1>41 DEF UnderlayChanges, Networked
<1>42. CASE Republish
  BY <1>42 DEF Republish, Networked
<1>43. CASE TunnelDrops
  BY <1>43 DEF TunnelDrops, Networked
<1>44. CASE TimePasses
  BY <1>44 DEF TimePasses
<1>45. CASE EarlyFirewall
  BY <1>45, FirewallEffects DEF EarlyFirewall, MayBootOpen, Open, Quarantine
<1>46. CASE StartNetworkManager
  BY <1>46 DEF StartNetworkManager
<1>47. CASE PowerLoss
  BY <1>47 DEF PowerLoss, Open, Dead, NoSession, ForgetAttempt
<1>48. CASE Corruption
  BY <1>48 DEF Corruption
\* process
<1>49. CASE Start
  BY <1>49, FirewallEffects DEF Start, Barrier, Quarantine, Enter
<1>50. CASE SelectTimeout
  BY <1>50 DEF SelectTimeout
<1>51. CASE Exit
  BY <1>51 DEF Exit, Dead, NoSession, ForgetAttempt
<1>52. CASE Crash
  BY <1>52 DEF Crash, Dead, NoSession, ForgetAttempt
<1>53. CASE UNCHANGED vars
  BY <1>53 DEF vars
<1> QED
  BY <1>1, <1>2, <1>3, <1>4, <1>5, <1>6, <1>7, <1>8, <1>9, <1>10, <1>11,
     <1>12, <1>13, <1>14, <1>15, <1>16, <1>17, <1>18, <1>19, <1>20, <1>21,
     <1>22, <1>23, <1>24, <1>25, <1>26, <1>27, <1>28, <1>29, <1>30, <1>31,
     <1>32, <1>33, <1>34, <1>35, <1>36, <1>37, <1>38, <1>39, <1>40, <1>41,
     <1>42, <1>43, <1>44, <1>45, <1>46, <1>47, <1>48, <1>49, <1>50, <1>51,
     <1>52, <1>53 DEF Next, Request, Progress, Tick, Subroutine, Handling,
     Attempt, Environment

(* The inductive invariant about the firewall.                             *)
THEOREM BarrierCorrect == Spec => []BarrierOK
<1>1. Init => BarrierOK
  BY DEF Init, BarrierOK, SealedSteps, AttemptConfined, AttemptSteps
<1> QED
  BY <1>1, BarrierStep, TypeCorrect, PTL DEF Spec

(* A scheduled attempt waits behind a sealed table, whichever command or   *)
(* request failed before it.                                               *)
THEOREM Spec_RetryUnderBarrier == Spec => []RetryUnderBarrier
<1>1. BarrierOK => RetryUnderBarrier
  BY DEF BarrierOK, RetryUnderBarrier, Serving, Loop, OpenSteps, AttemptSteps,
         Sealed
<1> QED
  BY <1>1, BarrierCorrect, PTL

(* While a candidate is tried the table is there and has exceptions for no *)
(* other profile, whatever the candidates before it left behind.           *)
THEOREM Spec_AttemptConfined == Spec => []AttemptConfined
<1>1. BarrierOK => AttemptConfined
  BY DEF BarrierOK
<1> QED
  BY <1>1, BarrierCorrect, PTL

-----------------------------------------------------------------------------
(* The daemon's steps are taken in phase up, and leave it there.           *)
LEMMA DaemonPhase ==
  TypeInv /\ (Request \/ Progress \/ Crash) => phase = "up" /\ phase' = "up"
<1> SUFFICES ASSUME TypeInv, Request \/ Progress \/ Crash
             PROVE  pc # "dead" /\ phase' = phase
  BY DEF TypeInv, ControlOK
<1> USE DEF machine, Serving
<1>1. CASE Request
  BY <1>1 DEF Request, Connect, Retry, Disconnect, Pause
<1>2. CASE Progress
  <2>1. CASE Tick
    BY <2>1 DEF Tick, PauseExpires, AttemptDue, VerifyFails, TickQuiet
  <2>2. CASE Subroutine
    BY <2>2 DEF Subroutine, Isolate, Detach, Close, UndoDns, Unwind,
           DirectDetach, DirectDns, DirectOpen
  <2>3. CASE Handling
    BY <2>3 DEF Handling, BootClose, BootClear, Finished, PersistConnecting,
           DisconnectPersist, DisconnectClear, PauseClear, PausePersist,
           Abort, Emergency, EmergencyDone
  <2>4. CASE Attempt
    BY <2>4 DEF Attempt, Pick, GiveUp, Inspect, Stale, Capture, Configure,
           BasePolicy, EndpointsPolicy, ConnectedPolicy, Activate,
           AwaitVerification, Connected, Failed, ApplyPolicy
  <2>5. CASE SelectTimeout \/ Exit
    BY <2>5 DEF SelectTimeout, Exit
  <2> QED
    BY <1>2, <2>1, <2>2, <2>3, <2>4, <2>5 DEF Progress
<1>3. CASE Crash
  BY <1>3 DEF Crash
<1> QED
  BY <1>1, <1>2, <1>3

(* Every step preserves the barrier of the early unit.                     *)
LEMMA EarlyStep == TypeInv /\ EarlyBarrier /\ [Next]_vars => EarlyBarrier'
<1> SUFFICES ASSUME TypeInv, EarlyBarrier, [Next]_vars PROVE EarlyBarrier'
  OBVIOUS
<1> USE DEF EarlyBarrier, machine, files
<1>1. CASE Request \/ Progress \/ Crash
  BY <1>1, DaemonPhase
<1>2. CASE Start
  BY <1>2 DEF Start
<1>3. CASE EarlyFirewall
  <2>1. CASE MayBootOpen /\ fw' = Open /\ phase' = "early"
    BY <1>3, <2>1 DEF EarlyFirewall, MayBootOpen, NothingSaved
  <2>2. CASE fw' = Quarantine
    BY <1>3, <2>2 DEF EarlyFirewall, Quarantine
  <2> QED
    BY <1>3, <2>1, <2>2 DEF EarlyFirewall
<1>4. CASE StartNetworkManager \/ PowerLoss \/ Corruption
  BY <1>4 DEF StartNetworkManager, PowerLoss, Corruption
<1>5. CASE UnderlayChanges \/ Republish \/ TunnelDrops \/ TimePasses
  BY <1>5 DEF UnderlayChanges, Republish, TunnelDrops, TimePasses
<1>6. CASE UNCHANGED vars
  BY <1>6 DEF vars
<1> QED
  BY <1>1, <1>2, <1>3, <1>4, <1>5, <1>6 DEF Next, Environment

(* Before the daemon starts, a persisted or unreadable intent and a        *)
(* pending DNS restoration are behind the table.                           *)
THEOREM Spec_EarlyBarrier == Spec => []EarlyBarrier
<1>1. Init => EarlyBarrier
  BY DEF Init, EarlyBarrier
<1> QED
  BY <1>1, EarlyStep, TypeCorrect, PTL DEF Spec

-----------------------------------------------------------------------------
(* state.json starts to ask for protection behind the table only, but for  *)
(* the writes of a pause or a disconnect.                                  *)
THEOREM Spec_IntentBehindBarrier == Spec => IntentBehindBarrier
<1>1. ASSUME TypeInv, BarrierOK, [Next]_vars,
             disk.intent # "enabled", disk'.intent = "enabled"
      PROVE  fw'.table \/ handler \in {"disconnect", "pause"}
  <2> USE <1>1 DEF machine, files
  <2>1. CASE PersistConnecting
    BY <2>1 DEF PersistConnecting, BarrierOK, SealedSteps, Sealed
  <2>2. CASE DisconnectPersist
    BY <2>2 DEF DisconnectPersist, TypeInv, ControlOK
  <2>3. CASE PausePersist
    BY <2>3 DEF PausePersist, TypeInv, ControlOK
  <2>4. CASE Abort
    BY <2>4 DEF Abort, TypeInv, ControlOK
  <2>5. CASE Connected
    BY <2>5 DEF Connected, BarrierOK, AttemptConfined, AttemptSteps
  <2>6. CASE Corruption
    BY <2>6 DEF Corruption
  \* All other steps leave state.json alone.
  <2>7. ASSUME disk' # disk
        PROVE  PersistConnecting \/ DisconnectPersist \/ PausePersist \/ Abort
               \/ Connected \/ Corruption
    BY <2>7 DEF Next, Request, Progress, Tick, Subroutine, Handling, Attempt,
           Environment, Start, Connect, Retry, Disconnect, Pause,
           PauseExpires, AttemptDue, VerifyFails, TickQuiet, Isolate, Detach,
           Close, UndoDns, Unwind, DirectDetach, DirectDns, DirectOpen,
           BootClose, BootClear, Finished, DisconnectClear, PauseClear,
           Emergency, EmergencyDone, Pick, GiveUp, Inspect, Stale, Capture,
           Configure, BasePolicy, EndpointsPolicy, ConnectedPolicy, Activate,
           AwaitVerification, Failed, SelectTimeout, Exit, Crash,
           UnderlayChanges, Republish, TunnelDrops, TimePasses,
           EarlyFirewall, StartNetworkManager, PowerLoss, ApplyPolicy, vars
  <2> QED
    BY <2>1, <2>2, <2>3, <2>4, <2>5, <2>6, <2>7
<1> QED
  BY <1>1, TypeCorrect, BarrierCorrect, PTL DEF Spec, IntentBehindBarrier

(* The table of a daemon that holds an intent is removed by pause and      *)
(* disconnect only.                                                        *)
THEOREM Spec_DirectOnlyByIntent == Spec => DirectOnlyByIntent
<1>1. ASSUME TypeInv, [Next]_vars, fw.table, ~fw'.table, phase' = "up"
      PROVE  handler \in {"disconnect", "pause"} \/ ~enabled
  <2> USE <1>1 DEF TypeInv
  <2>0. fw \in Firewalls
    BY DEF TypeOK
  <2>1. CASE DirectOpen
    BY <2>1 DEF DirectOpen, ControlOK, DirectSteps
  <2>2. CASE EarlyFirewall \/ PowerLoss
    BY <2>2 DEF EarlyFirewall, PowerLoss
  \* All other policies, and whatever their commands leave when they fail,
  \* keep the default drop policy.
  <2>3. CASE Start \/ Isolate \/ Close \/ BootClose
    BY <2>0, <2>3, FirewallEffects
       DEF Start, Isolate, Close, BootClose, Barrier, Quarantine, Closed
  <2>4. ASSUME NEW to \in Targets, Connect(to) PROVE FALSE
    BY <2>0, <2>4, FirewallEffects DEF Connect, Barrier, Quarantine
  <2>5. CASE Retry \/ PauseExpires
    BY <2>0, <2>5, FirewallEffects
       DEF Retry, PauseExpires, ScheduleConnecting, Barrier, Quarantine
  <2>6. CASE BasePolicy
    BY <2>0, <2>6, FirewallEffects DEF BasePolicy, ApplyPolicy, Closed
  <2>7. CASE EndpointsPolicy \/ ConnectedPolicy
    <3>1. profile \in Profiles
      BY <2>7 DEF EndpointsPolicy, ConnectedPolicy, ApplyPolicy, ControlOK,
                  AttemptSteps
    <3> QED
      BY <2>0, <2>7, <3>1, FirewallEffects
         DEF EndpointsPolicy, ConnectedPolicy, ApplyPolicy, EndpointPolicy,
             TunnelPolicy
  \* The others do not touch the table.
  <2>8. ASSUME fw' # fw
        PROVE  \/ DirectOpen \/ EarlyFirewall \/ PowerLoss
               \/ Start \/ Isolate \/ Close \/ BootClose
               \/ (\E to \in Targets : Connect(to)) \/ Retry \/ PauseExpires
               \/ BasePolicy \/ EndpointsPolicy \/ ConnectedPolicy
    BY <2>8 DEF Next, Request, Progress, Tick, Subroutine, Handling, Attempt,
           Environment, Disconnect, Pause, AttemptDue, VerifyFails,
           TickQuiet, Detach, UndoDns, Unwind, DirectDetach, DirectDns,
           BootClear, Finished, PersistConnecting, DisconnectPersist,
           DisconnectClear, PauseClear, PausePersist, Abort, Emergency,
           EmergencyDone, Pick, GiveUp, Inspect, Stale, Capture, Configure,
           Activate, AwaitVerification, Connected, Failed, SelectTimeout,
           Exit, Crash, UnderlayChanges, Republish, TunnelDrops, TimePasses,
           StartNetworkManager, Corruption, machine, vars
  <2> QED
    BY <2>1, <2>2, <2>3, <2>4, <2>5, <2>6, <2>7, <2>8
<1> QED
  BY <1>1, TypeCorrect, PTL DEF Spec, DirectOnlyByIntent
=============================================================================
