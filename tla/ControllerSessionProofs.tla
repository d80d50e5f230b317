----------------------- MODULE ControllerSessionProofs -----------------------
(***************************************************************************)
(* What each mode stands for when the daemon is back in its loop, in every *)
(* installation: a connection as it was intended, a pause that resumes, an *)
(* attempt that is scheduled, a disconnect that is complete, and no link   *)
(* left with a host-name route.                                            *)
(*                                                                         *)
(* ModeOK follows the mode, the candidates and the two ways to the loop    *)
(* through the daemon's steps; CleanupOK follows the links registered for  *)
(* the cleanup of their host-name routes.  StepsLeft bounds the steps of a *)
(* handler, exceptions and their handling included.                        *)
(***************************************************************************)
EXTENDS ControllerStateProofs, FiniteSetTheorems

\* Steps after a successful remove_firewall().
OpenedSteps == DirectReturns \union {"disconnect_clear", "pause_persist"}

\* The steps of _schedule_connecting() after its quarantine.
Scheduling ==
  \/ pc \in EmergencySteps \ {"unwind"} /\ ret = "finish"
  \/ pc \in {"persist_connecting", "finish"}
  \/ handler \in {"connect", "retry"}

Attempting ==
  \/ pc \in AttemptSteps \union {"boot_close"}
  \/ pc \in EmergencySteps /\ ret = "pick"

ModeOK ==
  /\ Attempting => mode = "connecting"
  /\ (pc \in AttemptSteps \/ ret = "pick") => untried \subseteq CandidatesOf[target]
  /\ pc \in AttemptSteps \ {"pick"} => profile \in CandidatesOf[target]
  /\ pc = "connected" => fw = TunnelPolicy(profile)
  /\ pc \in {"direct_dns", "direct_open"} => active = {}
  /\ pc \in OpenedSteps => fw = Open /\ active = {}
  /\ pc \in {"boot_clear", "emergency_disabled", "disconnect_clear"} => ~enabled
  /\ pc = "disconnect_clear" => disk.intent = "disabled"
  /\ pc = "unwind" => Sealed \/ handler \in {"disconnect", "pause"} \/ ~enabled
  /\ Scheduling => mode = "connecting" /\ retryAt = "due"
  /\ ConnectedAsIntended
  /\ PauseResumes
  /\ ConnectingIsScheduled

\* Steps that no link with a host-name route is carried to.
TidySteps == Loop \union DirectReturns \union
  {"dead", "direct_open", "finish", "pick", "failed", "emergency_failed",
   "disconnect_clear", "pause_persist", "abort", "persist_connecting",
   "tunnel_policy", "verify", "connected"}

CleanupOK ==
  /\ pc \in TidySteps \/ handler \in Requests => bootstrap = {}
  /\ pc \in {"inspect", "stale", "capture", "configure"} /\ leg = 1 => bootstrap = {}
  /\ pc \in {"capture", "configure"} => bootstrap \subseteq base
  /\ pc = "configure" => \A l \in base : dnsRestore[l] # "none"
  /\ \A l \in bootstrap : dnsRestore[l] # "none"

-----------------------------------------------------------------------------
(* A failed apply_quarantine() makes no exception.                         *)
LEMMA QuarantineEffects ==
  ASSUME NEW old \in Firewalls, NEW new \in QuarantineFailures(old), old.table
  PROVE  /\ new.table
         /\ new.endpoints \subseteq old.endpoints
         /\ new.tunnels \subseteq old.tunnels
BY DEF Firewalls, Quarantine, Accumulated, QuarantineFailures

(* Every step preserves what the modes stand for.                          *)
LEMMA ModeStep == TypeInv /\ BarrierOK /\ ModeOK /\ [Next]_vars => ModeOK'
<1> SUFFICES ASSUME TypeInv, BarrierOK, ModeOK, [Next]_vars PROVE ModeOK'
  OBVIOUS
<1> fw \in Firewalls
  BY DEF TypeInv, TypeOK
<1> USE DEF TypeInv, ControlOK, IntentOK, BarrierOK, ModeOK, Attempting,
        Scheduling, OpenedSteps, ConnectedAsIntended, PauseResumes,
        ConnectingIsScheduled, Serving, Sealed, SealedSteps, OpenSteps,
        Requests, Loop, AttemptSteps, EmergencySteps, DirectSteps,
        EmergencyReturns, DirectReturns, machine, memory, files, network,
        control, intent, schedule, tracking, attempt, session
\* Request
<1>1. ASSUME NEW to \in Targets, Connect(to) PROVE ModeOK'
  BY <1>1, QuarantineEffects DEF Connect, Barrier, Quarantine, Enter
<1>2. CASE Retry
  BY <1>2, QuarantineEffects DEF Retry, ScheduleConnecting, Barrier,
         Quarantine, Enter
<1>3. CASE Disconnect
  BY <1>3 DEF Disconnect, Enter
<1>4. CASE Pause
  BY <1>4 DEF Pause, Enter
\* Tick
<1>5. CASE PauseExpires
  BY <1>5, QuarantineEffects DEF PauseExpires, ScheduleConnecting,
         Barrier, Quarantine, Enter
<1>6. CASE AttemptDue
  BY <1>6 DEF AttemptDue, Enter
<1>7. CASE VerifyFails
  BY <1>7 DEF VerifyFails, Enter
<1>8. CASE TickQuiet
  BY <1>8 DEF TickQuiet, Verifiable, TunnelPolicy
\* Subroutine
<1>9. CASE Isolate
  BY <1>9, QuarantineEffects DEF Isolate, Barrier, Quarantine, Goto,
         RaiseSystemFailure, Enter
<1>10. CASE Detach
  BY <1>10 DEF Detach, NoSession, Goto
<1>11. CASE Close
  <2>1. Sealed'
    BY <1>11, FirewallEffects DEF Close, Closed
  <2> QED
    BY <1>11, <2>1 DEF Close, Goto
<1>12. CASE UndoDns
  BY <1>12 DEF UndoDns, ClearBootstrap, RaiseSystemFailure, Enter, Goto
<1>13. CASE Unwind
  BY <1>13 DEF Unwind, ClearBootstrap, RaiseSystemFailure, Enter
<1>14. CASE DirectDetach
  BY <1>14 DEF DirectDetach, NoSession, Goto
<1>15. CASE DirectDns
  BY <1>15 DEF DirectDns, Goto, RaiseSystemFailure, Enter
<1>16. CASE DirectOpen
  BY <1>16 DEF DirectOpen, Open, Goto, RemoveFailures, RaiseSystemFailure,
         Enter
\* Handling
<1>17. CASE BootClose
  BY <1>17, FirewallEffects DEF BootClose, Closed, Enter, Quarantine,
         RaiseSystemFailure
<1>18. CASE BootClear
  BY <1>18 DEF BootClear, WriteSaved, RaiseOSError, Enter, Finish
<1>19. CASE Finished
  BY <1>19 DEF Finished, Finish
<1>20. CASE PersistConnecting
  BY <1>20 DEF PersistConnecting, WriteState, RaiseOSError, Enter, Goto,
         StateWritten
<1>21. CASE DisconnectPersist
  BY <1>21 DEF DisconnectPersist, WriteState, RaiseOSError, Enter, Goto,
         StateWritten
<1>22. CASE DisconnectClear
  BY <1>22 DEF DisconnectClear, WriteSaved, RaiseOSError, Enter, Finish
<1>23. CASE PauseClear
  BY <1>23 DEF PauseClear, WriteSaved, RaiseOSError, Enter, Goto
<1>24. CASE PausePersist
  BY <1>24 DEF PausePersist, WriteState, RaiseOSError, Enter, Finish,
         StateWritten
<1>25. CASE Abort
  BY <1>25 DEF Abort, WriteState, RaiseOSError, Enter, Finish,
         StateWritten
<1>26. CASE Emergency
  BY <1>26 DEF Emergency, Enter, ForgetAttempt
<1>27. CASE EmergencyDone
  BY <1>27 DEF EmergencyDone, Finish
\* Attempt
<1>28. CASE Pick
  BY <1>28 DEF Pick, Goto
<1>29. CASE GiveUp
  BY <1>29 DEF GiveUp, Enter, ForgetAttempt
<1>30. CASE Inspect
  BY <1>30 DEF Inspect, Goto, NextCandidate, Enter
<1>31. CASE Stale
  BY <1>31 DEF Stale, Goto, NextCandidate, Enter
<1>32. CASE Capture
  BY <1>32 DEF Capture, WriteSaved, RaiseOSError, Enter, Goto,
         NextCandidate
<1>33. CASE Configure
  BY <1>33 DEF Configure, NeedsHostname, Goto, AfterConfigure, Registered,
         NextCandidate, Enter
<1>34. CASE BasePolicy
  BY <1>34 DEF BasePolicy, ApplyPolicy, Goto, Quarantine, NextCandidate,
         Enter, Closed
<1>35. CASE EndpointsPolicy
  BY <1>35 DEF EndpointsPolicy, ApplyPolicy, Goto, Quarantine,
         NextCandidate, Enter, EndpointPolicy
<1>36. CASE ConnectedPolicy
  BY <1>36 DEF ConnectedPolicy, ApplyPolicy, Goto, Quarantine,
         NextCandidate, Enter, TunnelPolicy
<1>37. CASE Activate
  BY <1>37 DEF Activate, Goto, NextCandidate, Enter
<1>38. CASE AwaitVerification
  BY <1>38 DEF AwaitVerification, Verifiable, TunnelPolicy, Goto,
         NextCandidate, Enter
<1>39. CASE Connected
  BY <1>39 DEF Connected, WriteState, RaiseOSError, Enter, Finish,
         ForgetAttempt, StateWritten, TunnelPolicy
<1>40. CASE Failed
  BY <1>40 DEF Failed, Finish, RaiseOSError, Enter
\* Environment
<1>41. CASE UnderlayChanges
  BY <1>41 DEF UnderlayChanges, Networked
<1>42. CASE Republish
  BY <1>42 DEF Republish, Networked
<1>43. CASE TunnelDrops
  BY <1>43 DEF TunnelDrops, Networked
<1>44. CASE TimePasses
  BY <1>44 DEF TimePasses
<1>45. CASE EarlyFirewall
  BY <1>45 DEF EarlyFirewall, MayBootOpen, Open, Quarantine
<1>46. CASE StartNetworkManager
  BY <1>46 DEF StartNetworkManager
<1>47. CASE PowerLoss
  BY <1>47 DEF PowerLoss, Open, Dead, NoSession, ForgetAttempt
<1>48. CASE Corruption
  BY <1>48 DEF Corruption
\* process
<1>49. CASE Start
  BY <1>49 DEF Start, Barrier, Quarantine, Enter
<1>50. CASE SelectTimeout
  BY <1>50 DEF SelectTimeout
<1>51. CASE Exit
  BY <1>51 DEF Exit, Dead, NoSession, ForgetAttempt
<1>52. CASE Crash
  BY <1>52 DEF Crash, Dead, NoSession, ForgetAttempt
<1>53. CASE UNCHANGED vars
  BY <1>53 DEF vars
<1> QED
  BY <1>1, <1>2, <1>3, <1>4, <1>5, <1>6, <1>7, <1>8, <1>9, <1>10, <1>11,
     <1>12, <1>13, <1>14, <1>15, <1>16, <1>17, <1>18, <1>19, <1>20, <1>21,
     <1>22, <1>23, <1>24, <1>25, <1>26, <1>27, <1>28, <1>29, <1>30, <1>31,
     <1>32, <1>33, <1>34, <1>35, <1>36, <1>37, <1>38, <1>39, <1>40, <1>41,
     <1>42, <1>43, <1>44, <1>45, <1>46, <1>47, <1>48, <1>49, <1>50, <1>51,
     <1>52, <1>53 DEF Next, Request, Progress, Tick, Subroutine, Handling,
     Attempt, Environment

(* The inductive invariant about the modes.                                *)
THEOREM ModeCorrect == Spec => []ModeOK
<1>1. Init => ModeOK
  BY DEF Init, ModeOK, Attempting, Scheduling, OpenedSteps, AttemptSteps,
         EmergencySteps, DirectReturns, ConnectedAsIntended, PauseResumes,
         ConnectingIsScheduled, Serving, Loop
<1> QED
  BY <1>1, ModeStep, TypeCorrect, BarrierCorrect, PTL DEF Spec

-----------------------------------------------------------------------------
(* Every step preserves what is known of the links to clean up.            *)
LEMMA CleanupStep == TypeInv /\ CleanupOK /\ [Next]_vars => CleanupOK'
<1> SUFFICES ASSUME TypeInv, CleanupOK, [Next]_vars PROVE CleanupOK'
  OBVIOUS
<1> USE DEF TypeInv, ControlOK, IntentOK, CleanupOK, TidySteps,
        Requests, Loop, AttemptSteps, EmergencySteps, DirectSteps,
        EmergencyReturns, DirectReturns, machine, memory, files, network,
        control, intent, schedule, tracking, attempt, session
\* Request
<1>1. ASSUME NEW to \in Targets, Connect(to) PROVE CleanupOK'
  BY <1>1 DEF Connect, Barrier, Quarantine, Enter
<1>2. CASE Retry
  BY <1>2 DEF Retry, ScheduleConnecting, Barrier, Quarantine, Enter
<1>3. CASE Disconnect
  BY <1>3 DEF Disconnect, Enter
<1>4. CASE Pause
  BY <1>4 DEF Pause, Enter
\* Tick
<1>5. CASE PauseExpires
  BY <1>5 DEF PauseExpires, ScheduleConnecting, Barrier, Quarantine, Enter
<1>6. CASE AttemptDue
  BY <1>6 DEF AttemptDue, Enter
<1>7. CASE VerifyFails
  BY <1>7 DEF VerifyFails, Enter
<1>8. CASE TickQuiet
  BY <1>8 DEF TickQuiet, Verifiable, TunnelPolicy
\* Subroutine
<1>9. CASE Isolate
  BY <1>9 DEF Isolate, Barrier, Quarantine, Goto, RaiseSystemFailure,
         Enter
<1>10. CASE Detach
  BY <1>10 DEF Detach, NoSession, Goto
<1>11. CASE Close
  BY <1>11 DEF Close, Closed, Goto, Quarantine
<1>12. CASE UndoDns
  BY <1>12 DEF UndoDns, ClearBootstrap, RaiseSystemFailure, Enter, Goto
<1>13. CASE Unwind
  BY <1>13 DEF Unwind, ClearBootstrap, RaiseSystemFailure, Enter
<1>14. CASE DirectDetach
  BY <1>14 DEF DirectDetach, NoSession, Goto
<1>15. CASE DirectDns
  BY <1>15 DEF DirectDns, Goto, RaiseSystemFailure, Enter
<1>16. CASE DirectOpen
  BY <1>16 DEF DirectOpen, Open, Goto, RemoveFailures, RaiseSystemFailure,
         Enter
\* Handling
<1>17. CASE BootClose
  BY <1>17 DEF BootClose, Closed, Enter, Quarantine, RaiseSystemFailure
<1>18. CASE BootClear
  BY <1>18 DEF BootClear, WriteSaved, RaiseOSError, Enter, Finish
<1>19. CASE Finished
  BY <1>19 DEF Finished, Finish
<1>20. CASE PersistConnecting
  BY <1>20 DEF PersistConnecting, WriteState, RaiseOSError, Enter, Goto
<1>21. CASE DisconnectPersist
  BY <1>21 DEF DisconnectPersist, WriteState, RaiseOSError, Enter, Goto
<1>22. CASE DisconnectClear
  BY <1>22 DEF DisconnectClear, WriteSaved, RaiseOSError, Enter, Finish
<1>23. CASE PauseClear
  BY <1>23 DEF PauseClear, WriteSaved, RaiseOSError, Enter, Goto
<1>24. CASE PausePersist
  BY <1>24 DEF PausePersist, WriteState, RaiseOSError, Enter, Finish
<1>25. CASE Abort
  BY <1>25 DEF Abort, WriteState, RaiseOSError, Enter, Finish
<1>26. CASE Emergency
  BY <1>26 DEF Emergency, Enter, ForgetAttempt
<1>27. CASE EmergencyDone
  BY <1>27 DEF EmergencyDone, Finish
\* Attempt
<1>28. CASE Pick
  BY <1>28 DEF Pick, Goto
<1>29. CASE GiveUp
  BY <1>29 DEF GiveUp, Enter, ForgetAttempt
<1>30. CASE Inspect
  BY <1>30 DEF Inspect, Goto, NextCandidate, Enter
<1>31. CASE Stale
  BY <1>31 DEF Stale, Goto, NextCandidate, Enter, SavedLinks, TypeOK
<1>32. CASE Capture
  BY <1>32 DEF Capture, WriteSaved, RaiseOSError, Enter, Goto,
         NextCandidate, Captured, SavedLinks, TypeOK, Saved, Routing
<1>33. CASE Configure
  BY <1>33 DEF Configure, NeedsHostname, Goto, AfterConfigure, Registered,
         NextCandidate, Enter
<1>34. CASE BasePolicy
  BY <1>34 DEF BasePolicy, ApplyPolicy, Goto, Quarantine, NextCandidate,
         Enter, Closed
<1>35. CASE EndpointsPolicy
  BY <1>35 DEF EndpointsPolicy, ApplyPolicy, Goto, Quarantine,
         NextCandidate, Enter, EndpointPolicy
<1>36. CASE ConnectedPolicy
  BY <1>36 DEF ConnectedPolicy, ApplyPolicy, Goto, Quarantine,
         NextCandidate, Enter, TunnelPolicy
<1>37. CASE Activate
  BY <1>37 DEF Activate, Goto, NextCandidate, Enter
<1>38. CASE AwaitVerification
  BY <1>38 DEF AwaitVerification, Verifiable, TunnelPolicy, Goto,
         NextCandidate, Enter
<1>39. CASE Connected
  BY <1>39 DEF Connected, WriteState, RaiseOSError, Enter, Finish,
         ForgetAttempt
<1>40. CASE Failed
  BY <1>40 DEF Failed, Finish, RaiseOSError, Enter
\* Environment
<1>41. CASE UnderlayChanges
  BY <1>41 DEF UnderlayChanges, Networked
<1>42. CASE Republish
  BY <1>42 DEF Republish, Networked
<1>43. CASE TunnelDrops
  BY <1>43 DEF TunnelDrops, Networked
<1>44. CASE TimePasses
  BY <1>44 DEF TimePasses
<1>45. CASE EarlyFirewall
  BY <1>45 DEF EarlyFirewall, MayBootOpen, Open, Quarantine
<1>46. CASE StartNetworkManager
  BY <1>46 DEF StartNetworkManager
<1>47. CASE PowerLoss
  BY <1>47 DEF PowerLoss, Open, Dead, NoSession, ForgetAttempt
<1>48. CASE Corruption
  BY <1>48 DEF Corruption
\* process
<1>49. CASE Start
  BY <1>49 DEF Start, Barrier, Quarantine, Enter, SavedLinks
<1>50. CASE SelectTimeout
  BY <1>50 DEF SelectTimeout
<1>51. CASE Exit
  BY <1>51 DEF Exit, Dead, NoSession, ForgetAttempt
<1>52. CASE Crash
  BY <1>52 DEF Crash, Dead, NoSession, ForgetAttempt
<1>53. CASE UNCHANGED vars
  BY <1>53 DEF vars
<1> QED
  BY <1>1, <1>2, <1>3, <1>4, <1>5, <1>6, <1>7, <1>8, <1>9, <1>10, <1>11,
     <1>12, <1>13, <1>14, <1>15, <1>16, <1>17, <1>18, <1>19, <1>20, <1>21,
     <1>22, <1>23, <1>24, <1>25, <1>26, <1>27, <1>28, <1>29, <1>30, <1>31,
     <1>32, <1>33, <1>34, <1>35, <1>36, <1>37, <1>38, <1>39, <1>40, <1>41,
     <1>42, <1>43, <1>44, <1>45, <1>46, <1>47, <1>48, <1>49, <1>50, <1>51,
     <1>52, <1>53 DEF Next, Request, Progress, Tick, Subroutine, Handling,
     Attempt, Environment

(* The inductive invariant about the cleanup.                              *)
THEOREM CleanupCorrect == Spec => []CleanupOK
<1>1. Init => CleanupOK
  BY DEF Init, CleanupOK, Requests
<1> QED
  BY <1>1, CleanupStep, TypeCorrect, PTL DEF Spec

-----------------------------------------------------------------------------
(* Connected is what the user asked for and what a restart would ask for.  *)
THEOREM Spec_ConnectedAsIntended == Spec => []ConnectedAsIntended
<1>1. ModeOK => ConnectedAsIntended
  BY DEF ModeOK
<1> QED
  BY <1>1, ModeCorrect, PTL

(* A pause has its intent on disk, its expiry set and no tunnel up.        *)
THEOREM Spec_PauseResumes == Spec => []PauseResumes
<1>1. ModeOK => PauseResumes
  BY DEF ModeOK
<1> QED
  BY <1>1, ModeCorrect, PTL

(* A daemon that waits in connecting attempts at its next tick.            *)
THEOREM Spec_ConnectingIsScheduled == Spec => []ConnectingIsScheduled
<1>1. ModeOK => ConnectingIsScheduled
  BY DEF ModeOK
<1> QED
  BY <1>1, ModeCorrect, PTL

(* The daemon never waits with a host-name route left to clean up.         *)
THEOREM Spec_NoPendingCleanup == Spec => []NoPendingCleanup
<1>1. CleanupOK => NoPendingCleanup
  BY DEF CleanupOK, NoPendingCleanup, TidySteps, Serving
<1> QED
  BY <1>1, CleanupCorrect, PTL

(* An acknowledged disconnect is complete: on disk, in the firewall, in    *)
(* NetworkManager and on every link.                                       *)
THEOREM Spec_DisconnectIsComplete == Spec => DisconnectIsComplete
<1>1. ASSUME TypeInv, ModeOK, DnsOK, [Next]_vars,
             pc = "disconnect_clear", pc' = "tick"
      PROVE  /\ disk'.intent = "disabled"
             /\ saved' = NothingSaved
             /\ fw' = Open
             /\ active' = {}
             /\ \A l \in Links : dns'[l] = "own"
  <2>1. DisconnectClear
    BY <1>1 DEF Next, Request, Progress, Tick, Subroutine, Handling, Attempt,
           Environment, Start, Connect, Retry, Disconnect, Pause,
           PauseExpires, AttemptDue, VerifyFails, TickQuiet, Isolate, Detach,
           Close, UndoDns, Unwind, DirectDetach, DirectDns, DirectOpen,
           BootClose, BootClear, Finished, PersistConnecting,
           DisconnectPersist, PauseClear, PausePersist, Abort,
           Emergency, EmergencyDone, Pick, GiveUp, Inspect, Stale, Capture,
           Configure, BasePolicy, EndpointsPolicy, ConnectedPolicy, Activate,
           AwaitVerification, Connected, Failed, SelectTimeout, Exit, Crash,
           UnderlayChanges, Republish, TunnelDrops, TimePasses,
           EarlyFirewall, StartNetworkManager, PowerLoss, Corruption,
           ApplyPolicy, Dead, Networked, control, vars
  <2>2. saved' = NothingSaved
    BY <1>1, <2>1 DEF DisconnectClear, WriteSaved, RaiseOSError, Enter
  <2>3. fw = Open /\ active = {} /\ disk.intent = "disabled"
    BY <1>1 DEF ModeOK, OpenedSteps
  <2>4. \A l \in Links : dns[l] = "own"
    BY <1>1 DEF DnsOK, LinkOK, CleanSteps
  <2> QED
    BY <2>1, <2>2, <2>3, <2>4 DEF DisconnectClear, network
<1> QED
  BY <1>1, TypeCorrect, ModeCorrect, DnsCorrect, PTL
     DEF Spec, DisconnectIsComplete

-----------------------------------------------------------------------------
(***************************************************************************)
(* Every handler ends.  StepsLeft bounds the steps that the daemon still   *)
(* takes before it is back in its loop or its process is gone: Place for   *)
(* the steps of the present candidate, subroutine or handler, Reserve for  *)
(* the candidates to come.  An exception leads to a handler below, so that *)
(* exceptions in the handling of exceptions do not go on for ever.         *)
(***************************************************************************)

Resting == Loop \union {"dead"}

\* Step s of a candidate before (leg 1) and after its activation.
AttemptPlace(s, l) ==
  CASE s = "connected"       -> 8
    [] s = "verify"          -> 9
    [] s = "tunnel_policy"   -> 10
    [] s = "activate"        -> 15
    [] s = "endpoint_policy" -> 16
    [] s = "base_policy"     -> 17
    [] s = "configure"       -> IF l = 1 THEN 18 ELSE 11
    [] s = "capture"         -> IF l = 1 THEN 19 ELSE 12
    [] s = "stale"           -> IF l = 1 THEN 20 ELSE 13
    [] s = "inspect"         -> IF l = 1 THEN 21 ELSE 14

Place(s, l) ==
  IF s \in AttemptSteps \ {"pick"} THEN AttemptPlace(s, l)
  ELSE CASE s \in {"emergency", "boot_close"}       -> 8
         [] s \in {"isolate", "persist_connecting"} -> 7
         [] s = "detach"                            -> 6
         [] s \in {"close", "direct_detach"}        -> 5
         [] s \in {"undo_dns", "direct_dns"}        -> 4
         [] s \in {"pick", "direct_open"}           -> 3
         [] s \in {"unwind", "disconnect_persist", "pause_clear"} -> 2
         [] s \in {"die", "dead"} \union Loop       -> 0
         [] OTHER                                   -> 1

Trying == pc \in AttemptSteps \/ ret = "pick"

Reserve ==
  IF pc = "die" \/ handler = "emergency" THEN 0
  ELSE IF pc = "boot_close" THEN 20 + 30 * Cardinality(Profiles)
  ELSE IF Trying THEN 20 + 30 * Cardinality(untried)
  ELSE IF ret = "failed" /\ handler \in {"tick", "boot"} THEN 10
  ELSE 20

StepsLeft == Place(pc, leg) + Reserve

\* What is not the daemon's does not put its end off either.
Descent ==
  pc \notin Resting /\ pc' \notin Resting =>
    \/ Progress /\ StepsLeft' < StepsLeft
    \/ Environment /\ StepsLeft' = StepsLeft

MostSteps == 41 + 30 * Cardinality(Profiles)

(* Subsets of the catalog are finite.                                      *)
LEMMA CatalogCounts ==
  ASSUME NEW S \in SUBSET Profiles
  PROVE  /\ Cardinality(S) \in Nat /\ Cardinality(S) <= Cardinality(Profiles)
         /\ Cardinality(Profiles) \in Nat
         /\ \A p \in S : Cardinality(S \ {p}) = Cardinality(S) - 1
<1>1. IsFiniteSet(Profiles)
  BY CatalogIsFinite
<1>2. IsFiniteSet(S) /\ Cardinality(S) <= Cardinality(Profiles)
  BY <1>1, FS_Subset
<1> QED
  BY <1>1, <1>2, FS_CardinalityType, FS_RemoveElement

(* Place, step by step.                                                    *)
LEMMA AttemptPlaces ==
  /\ \A l : Place("connected", l) = 8 /\ Place("verify", l) = 9
  /\ \A l : Place("tunnel_policy", l) = 10 /\ Place("activate", l) = 15
  /\ \A l : Place("endpoint_policy", l) = 16 /\ Place("base_policy", l) = 17
  /\ Place("configure", 1) = 18 /\ Place("capture", 1) = 19
  /\ Place("stale", 1) = 20 /\ Place("inspect", 1) = 21
  /\ Place("configure", 2) = 11 /\ Place("capture", 2) = 12
  /\ Place("stale", 2) = 13 /\ Place("inspect", 2) = 14
<1> USE DEF Place, AttemptPlace, AttemptSteps
<1>1. \A l : Place("connected", l) = 8 /\ Place("verify", l) = 9
  OBVIOUS
<1>2. \A l : Place("tunnel_policy", l) = 10 /\ Place("activate", l) = 15
  OBVIOUS
<1>3. \A l : Place("endpoint_policy", l) = 16 /\ Place("base_policy", l) = 17
  OBVIOUS
<1>4. Place("configure", 1) = 18 /\ Place("capture", 1) = 19
  OBVIOUS
<1>5. Place("stale", 1) = 20 /\ Place("inspect", 1) = 21
  OBVIOUS
<1>6. Place("configure", 2) = 11 /\ Place("capture", 2) = 12
  OBVIOUS
<1>7. Place("stale", 2) = 13 /\ Place("inspect", 2) = 14
  OBVIOUS
<1> HIDE DEF Place
<1> QED
  BY <1>1, <1>2, <1>3, <1>4, <1>5, <1>6, <1>7

LEMMA HandlerPlaces ==
  ASSUME NEW l
  PROVE  /\ Place("emergency", l) = 8 /\ Place("boot_close", l) = 8
         /\ Place("isolate", l) = 7 /\ Place("persist_connecting", l) = 7
         /\ Place("detach", l) = 6 /\ Place("close", l) = 5
         /\ Place("direct_detach", l) = 5 /\ Place("undo_dns", l) = 4
         /\ Place("direct_dns", l) = 4 /\ Place("pick", l) = 3
         /\ Place("direct_open", l) = 3 /\ Place("unwind", l) = 2
         /\ Place("disconnect_persist", l) = 2 /\ Place("pause_clear", l) = 2
         /\ Place("abort", l) = 1 /\ Place("finish", l) = 1
         /\ Place("failed", l) = 1 /\ Place("emergency_failed", l) = 1
         /\ Place("emergency_disabled", l) = 1 /\ Place("boot_clear", l) = 1
         /\ Place("disconnect_clear", l) = 1 /\ Place("pause_persist", l) = 1
         /\ Place("die", l) = 0
BY DEF Place, AttemptSteps, Loop

(* An exception is handled by what is nearer to its end.                   *)
LEMMA RaiseDescends ==
  ASSUME Cardinality(Profiles) \in Nat, Cardinality(untried) \in Nat,
         pc # "die", Place(pc, leg) \in Nat \ {0},
         RaiseOSError \/ (RaiseSystemFailure /\ Place(pc, leg) > 1)
  PROVE  pc' \in Resting \/ StepsLeft' < StepsLeft
<1>1. /\ StepsLeft \in Nat /\ StepsLeft >= Place(pc, leg)
      /\ handler # "emergency" => StepsLeft >= Place(pc, leg) + 10
      /\ handler \notin {"emergency", "tick", "boot"} => StepsLeft >= Place(pc, leg) + 20
  BY DEF StepsLeft, Reserve
<1>2. CASE handler' = "emergency" /\ pc' = "emergency" /\ handler # "emergency"
  <2>1. StepsLeft' = 8
    BY <1>2, HandlerPlaces DEF StepsLeft, Reserve
  <2> QED
    BY <1>1, <1>2, <2>1
<1>3. CASE pc' = "die"
  <2>1. StepsLeft' = 0
    BY <1>3, HandlerPlaces DEF StepsLeft, Reserve
  <2> QED
    BY <1>1, <2>1
<1>4. CASE /\ handler \in {"disconnect", "pause"} /\ Place(pc, leg) > 1
           /\ Enter(handler, "abort", "none")
  <2>1. StepsLeft' = 21
    BY <1>4, HandlerPlaces DEF StepsLeft, Reserve, Trying, AttemptSteps, Enter
  <2> QED
    BY <1>1, <1>4, <2>1
<1>5. CASE handler = "verify" /\ Enter("tick", "isolate", "failed")
  <2>1. StepsLeft' = 17
    BY <1>5, HandlerPlaces DEF StepsLeft, Reserve, Trying, AttemptSteps, Enter
  <2> QED
    BY <1>1, <1>5, <2>1
<1>6. CASE RaiseOSError
  BY <1>2, <1>3, <1>6 DEF RaiseOSError, Enter, Requests
<1>7. CASE RaiseSystemFailure /\ Place(pc, leg) > 1
  BY <1>2, <1>3, <1>4, <1>5, <1>7
     DEF RaiseSystemFailure, Enter, Resting, Loop
<1> QED
  BY <1>6, <1>7

(* The next candidate is isolated before it is tried.                      *)
LEMMA NextCandidateDescends ==
  ASSUME Cardinality(untried) \in Nat, Place(pc, leg) \in Nat \ 0..7,
         pc \in AttemptSteps, handler # "emergency", UNCHANGED untried,
         NextCandidate
  PROVE  StepsLeft' < StepsLeft
<1>1. pc' = "isolate" /\ ret' = "pick" /\ handler' = handler
  BY DEF NextCandidate, Enter
<1>2. StepsLeft = Place(pc, leg) + (20 + 30 * Cardinality(untried))
  BY DEF StepsLeft, Reserve, Trying, AttemptSteps
<1>3. StepsLeft' = 7 + (20 + 30 * Cardinality(untried))
  BY <1>1, HandlerPlaces DEF StepsLeft, Reserve, Trying, AttemptSteps
<1> QED
  BY <1>2, <1>3

(* One step further on the same way.                                       *)
LEMMA GotoDescends ==
  ASSUME Cardinality(Profiles) \in Nat, Cardinality(untried) \in Nat,
         UNCHANGED <<handler, ret, untried>>,
         pc # "boot_close", pc' \notin {"die", "boot_close"},
         Trying' => Trying, Trying => Trying',
         pc # "die", Place(pc, leg) \in Nat, Place(pc, leg)' \in Nat,
         Place(pc, leg)' < Place(pc, leg)
  PROVE  StepsLeft' < StepsLeft
<1>1. Reserve' = Reserve /\ Reserve \in Nat
  BY DEF Reserve
<1> QED
  BY <1>1 DEF StepsLeft

(* Every step that the daemon takes in a handler brings its end nearer.    *)
LEMMA HandlerStep == TypeInv /\ [Next]_vars => [Descent]_vars
<1> SUFFICES ASSUME TypeInv, Next, pc \notin Resting, pc' \notin Resting
             PROVE  \/ Progress /\ StepsLeft' < StepsLeft
                    \/ Environment /\ StepsLeft' = StepsLeft
  BY DEF Descent
<1> DEFINE Nearer == pc' \in Resting \/ StepsLeft' < StepsLeft
<1>1. Cardinality(Profiles) \in Nat /\ Cardinality(untried) \in Nat
  BY CatalogCounts DEF TypeInv, TypeOK
<1>2. leg \in {1, 2}
  BY DEF TypeInv, TypeOK
<1>3. /\ (pc \in AttemptSteps \/ ret = "pick") => handler \in {"tick", "boot"}
      /\ pc \in EmergencySteps \ {"unwind"} => ret \in EmergencyReturns
      /\ pc \in DirectSteps => ret \in DirectReturns
  BY DEF TypeInv, ControlOK
<1> USE <1>1, <1>2, <1>3, AttemptPlaces, HandlerPlaces
    DEF Goto, memory, attempt, Trying, AttemptSteps, EmergencySteps,
        DirectSteps, EmergencyReturns, DirectReturns
<1>4. ASSUME Exit PROVE Nearer
  BY <1>4
     DEF Exit, Dead, Resting
<1>5. ASSUME Isolate PROVE Nearer
  BY <1>5, GotoDescends, RaiseDescends
     DEF Isolate
<1>6. ASSUME Detach PROVE Nearer
  BY <1>6, GotoDescends
     DEF Detach
<1>7. ASSUME Close PROVE Nearer
  BY <1>7, GotoDescends
     DEF Close
<1>8. ASSUME UndoDns PROVE Nearer
  BY <1>8, GotoDescends, RaiseDescends
     DEF UndoDns, ClearBootstrap
<1>9. ASSUME Unwind PROVE Nearer
  BY <1>9, RaiseDescends
     DEF Unwind, ClearBootstrap
<1>10. ASSUME DirectDetach PROVE Nearer
  BY <1>10, GotoDescends
     DEF DirectDetach
<1>11. ASSUME DirectDns PROVE Nearer
  BY <1>11, GotoDescends, RaiseDescends
     DEF DirectDns
<1>12. ASSUME DirectOpen PROVE Nearer
  BY <1>12, GotoDescends, RaiseDescends
     DEF DirectOpen
<1>13. ASSUME BootClear PROVE Nearer
  <2>1. RaiseOSError \/ pc' \in {"tick", "select"}
    BY <1>13 DEF BootClear, WriteSaved, Finish
  <2>2. Place(pc, leg) \in Nat \ {0} /\ pc # "die"
    BY <1>13 DEF BootClear
  <2>3. CASE RaiseOSError
    BY <2>2, <2>3, RaiseDescends
  <2> QED
    BY <2>1, <2>3 DEF Resting, Loop
<1>14. ASSUME Finished PROVE Nearer
  BY <1>14
     DEF Finished, Finish, Resting, Loop
<1>15. ASSUME PersistConnecting PROVE Nearer
  BY <1>15, GotoDescends, RaiseDescends
     DEF PersistConnecting, WriteState
<1>16. ASSUME DisconnectPersist PROVE Nearer
  <2>1. RaiseOSError \/ Goto("disconnect_clear")
    BY <1>16 DEF DisconnectPersist, WriteState
  <2>2. Place(pc, leg) = 2 /\ pc = "disconnect_persist" /\ UNCHANGED <<untried, leg>>
    BY <1>16 DEF DisconnectPersist
  <2>3. CASE Goto("disconnect_clear")
    BY <2>2, <2>3, GotoDescends
  <2> QED
    BY <2>1, <2>2, <2>3, RaiseDescends
<1>17. ASSUME DisconnectClear PROVE Nearer
  <2>1. RaiseOSError \/ pc' \in {"tick", "select"}
    BY <1>17 DEF DisconnectClear, WriteSaved, Finish
  <2>2. Place(pc, leg) \in Nat \ {0} /\ pc # "die"
    BY <1>17 DEF DisconnectClear
  <2>3. CASE RaiseOSError
    BY <2>2, <2>3, RaiseDescends
  <2> QED
    BY <2>1, <2>3 DEF Resting, Loop
<1>18. ASSUME PauseClear PROVE Nearer
  BY <1>18, GotoDescends, RaiseDescends
     DEF PauseClear, WriteSaved
<1>19. ASSUME PausePersist PROVE Nearer
  <2>1. RaiseOSError \/ pc' \in {"tick", "select"}
    BY <1>19 DEF PausePersist, WriteState, Finish
  <2>2. Place(pc, leg) \in Nat \ {0} /\ pc # "die"
    BY <1>19 DEF PausePersist
  <2>3. CASE RaiseOSError
    BY <2>2, <2>3, RaiseDescends
  <2> QED
    BY <2>1, <2>3 DEF Resting, Loop
<1>20. ASSUME Abort PROVE Nearer
  <2>1. RaiseOSError \/ pc' \in {"tick", "select"}
    BY <1>20 DEF Abort, WriteState, Finish
  <2>2. Place(pc, leg) \in Nat \ {0} /\ pc # "die"
    BY <1>20 DEF Abort
  <2>3. CASE RaiseOSError
    BY <2>2, <2>3, RaiseDescends
  <2> QED
    BY <2>1, <2>3 DEF Resting, Loop
<1>21. ASSUME Emergency PROVE Nearer
  <2>1. handler = "emergency"
    BY <1>21 DEF Emergency, TypeInv, ControlOK
  <2> QED
    BY <1>21, <2>1 DEF Emergency, Enter, StepsLeft, Reserve
<1>22. ASSUME EmergencyDone PROVE Nearer
  BY <1>22
     DEF EmergencyDone, Finish, Resting, Loop
<1>23. ASSUME GiveUp PROVE Nearer
  BY <1>23 DEF GiveUp, Enter, StepsLeft, Reserve
<1>24. ASSUME Inspect PROVE Nearer
  BY <1>24, GotoDescends, NextCandidateDescends
     DEF Inspect
<1>25. ASSUME Stale PROVE Nearer
  BY <1>25, GotoDescends, NextCandidateDescends
     DEF Stale
<1>26. ASSUME Capture PROVE Nearer
  BY <1>26, GotoDescends, RaiseDescends, NextCandidateDescends
     DEF Capture, WriteSaved
<1>27. ASSUME Configure PROVE Nearer
  BY <1>27, GotoDescends, NextCandidateDescends
     DEF Configure, AfterConfigure
<1>28. ASSUME BasePolicy PROVE Nearer
  BY <1>28, GotoDescends, NextCandidateDescends
     DEF BasePolicy, ApplyPolicy
<1>29. ASSUME EndpointsPolicy PROVE Nearer
  BY <1>29, GotoDescends, NextCandidateDescends
     DEF EndpointsPolicy, ApplyPolicy
<1>30. ASSUME ConnectedPolicy PROVE Nearer
  BY <1>30, GotoDescends, NextCandidateDescends
     DEF ConnectedPolicy, ApplyPolicy
<1>31. ASSUME Activate PROVE Nearer
  BY <1>31, GotoDescends, NextCandidateDescends
     DEF Activate
<1>32. ASSUME AwaitVerification PROVE Nearer
  BY <1>32, GotoDescends, NextCandidateDescends
     DEF AwaitVerification
<1>33. ASSUME Connected PROVE Nearer
  <2>1. RaiseOSError \/ pc' \in {"tick", "select"}
    BY <1>33 DEF Connected, WriteState, Finish
  <2>2. Place(pc, leg) \in Nat \ {0} /\ pc # "die"
    BY <1>33 DEF Connected
  <2>3. CASE RaiseOSError
    BY <2>2, <2>3, RaiseDescends
  <2> QED
    BY <2>1, <2>3 DEF Resting, Loop
<1>34. ASSUME Failed PROVE Nearer
  <2>1. RaiseOSError \/ pc' \in {"tick", "select"}
    BY <1>34 DEF Failed, Finish
  <2>2. Place(pc, leg) \in Nat \ {0} /\ pc # "die"
    BY <1>34 DEF Failed
  <2>3. CASE RaiseOSError
    BY <2>2, <2>3, RaiseDescends
  <2> QED
    BY <2>1, <2>3 DEF Resting, Loop
<1>35. ASSUME BootClose PROVE Nearer
  <2>1. CASE untried' = CandidatesOf[target] /\ Enter(handler, "isolate", "pick")
    <3>1. untried' \in SUBSET Profiles
      <4>1. enabled /\ target \in Targets
        BY <1>35 DEF BootClose, TypeInv, TypeOK, IntentOK
      <4> QED
        BY <2>1, <4>1, CatalogAssumption
    <3>2. Cardinality(untried') <= Cardinality(Profiles) /\ Cardinality(untried') \in Nat
      BY <3>1, CatalogCounts
    <3>3. handler = "boot"
      BY <1>35 DEF BootClose, TypeInv, ControlOK
    <3>4. StepsLeft = 28 + 30 * Cardinality(Profiles)
      BY <1>35, <3>3 DEF BootClose, StepsLeft, Reserve
    <3>5. StepsLeft' = 27 + 30 * Cardinality(untried')
      BY <2>1, <3>2, <3>3 DEF Enter, StepsLeft, Reserve
    <3> QED
      BY <3>2, <3>4, <3>5
  <2>2. CASE RaiseSystemFailure
    BY <1>35, <2>2, RaiseDescends DEF BootClose
  <2> QED
    BY <1>35, <2>1, <2>2 DEF BootClose
<1>36. ASSUME Pick PROVE Nearer
  <2>1. PICK p \in untried : untried' = untried \ {p}
    BY <1>36 DEF Pick
  <2>2. Cardinality(untried') = Cardinality(untried) - 1
    BY <2>1, CatalogCounts DEF TypeInv, TypeOK
  <2>3. pc = "pick" /\ pc' = "inspect" /\ leg' = 1 /\ handler' = handler
    BY <1>36 DEF Pick
  <2>4. StepsLeft = 23 + 30 * Cardinality(untried)
    BY <2>3 DEF StepsLeft, Reserve
  <2>5. StepsLeft' = 41 + 30 * Cardinality(untried')
    BY <2>2, <2>3 DEF StepsLeft, Reserve
  <2> QED
    BY <2>2, <2>4, <2>5
<1>37. ASSUME Environment PROVE pc' \in Resting \/ StepsLeft' = StepsLeft
  BY <1>37 DEF Environment, UnderlayChanges, Republish, TunnelDrops, TimePasses,
     EarlyFirewall, StartNetworkManager, PowerLoss, Corruption, Dead, control,
     Resting, StepsLeft, Reserve
<1>38. ~Start /\ ~Request /\ ~SelectTimeout /\ ~Tick
  BY DEF Start, Request, Connect, Retry, Disconnect, Pause, SelectTimeout, Tick,
     PauseExpires, AttemptDue, VerifyFails, TickQuiet, Resting, Loop
<1>39. Progress \/ Environment
  BY <1>38 DEF Next, Crash, Dead, Resting
<1>40. Progress => Nearer
  BY <1>4, <1>5, <1>6, <1>7, <1>8, <1>9, <1>10, <1>11, <1>12,
     <1>13, <1>14, <1>15, <1>16, <1>17, <1>18, <1>19, <1>20, <1>21,
     <1>22, <1>23, <1>24, <1>25, <1>26, <1>27, <1>28, <1>29, <1>30,
     <1>31, <1>32, <1>33, <1>34, <1>35, <1>36, <1>37, <1>38
     DEF Progress, Subroutine, Handling, Attempt
<1> QED
  BY <1>37, <1>39, <1>40

(* The steps left are a number, and no more than the candidates allow.     *)
LEMMA StepsAreBounded ==
  ASSUME TypeInv
  PROVE  StepsLeft \in 0..MostSteps
<1>1. /\ Cardinality(Profiles) \in Nat /\ Cardinality(untried) \in Nat
      /\ Cardinality(untried) <= Cardinality(Profiles)
  BY CatalogCounts DEF TypeInv, TypeOK
<1>2. leg \in {1, 2}
  BY DEF TypeInv, TypeOK
<1>3. Place(pc, leg) \in 0..21
  <2>1. CASE pc \in AttemptSteps \ {"pick"}
    BY <1>2, <2>1, AttemptPlaces DEF AttemptSteps
  <2>2. CASE pc \notin AttemptSteps \ {"pick"}
    BY <2>2 DEF Place
  <2> QED
    BY <2>1, <2>2
<1>4. Reserve \in 0..(20 + 30 * Cardinality(Profiles))
  BY <1>1 DEF Reserve
<1> QED
  BY <1>1, <1>3, <1>4 DEF StepsLeft, MostSteps

(* However often the commands and the files fail, and whatever happens to  *)
(* the links and the files meanwhile, a handler of the daemon is at an end *)
(* after at most MostSteps steps of its own: a step of it that does not    *)
(* end it leaves fewer steps, nothing else adds any, and there are never   *)
(* more than MostSteps nor less than none.                                 *)
THEOREM Spec_HandlersEnd == Spec => [](StepsLeft \in 0..MostSteps) /\ [][Descent]_vars
<1>1. TypeInv => StepsLeft \in 0..MostSteps
  BY StepsAreBounded
<1> QED
  BY <1>1, HandlerStep, TypeCorrect, PTL DEF Spec
=============================================================================
