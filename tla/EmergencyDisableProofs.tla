----------------------- MODULE EmergencyDisableProofs -----------------------
(***************************************************************************)
(* Proofs about EmergencyDisable, for every set of links, profiles and     *)
(* targets.  The steps of the daemon and of the machine are those of       *)
(* Controller, whose step lemmas are used as they are; what is added is    *)
(*                                                                         *)
(*   CommandOK   what the command has established at each of its steps,    *)
(*               which nothing disturbs once the daemon is stopped;        *)
(*   FoundOK     that Controller's invariant about links still holds, and  *)
(*               that what the command has restored stays restored.        *)
(***************************************************************************)
EXTENDS EmergencyDisableProperties, ControllerStateProofs

Stopped == {"deactivate", "restore", "check", "persist", "forget", "open",
            "confirm", "done"}

CommandOK ==
  /\ CommandTypeOK
  /\ cli \in Running \union {"done"} => phase # "off"
  /\ cli \in Stopped => pc = "dead" /\ ~unit
  /\ cli \in Stopped \ {"deactivate"} => active = {}
  /\ cli \in {"persist", "forget"} => ~unrestored
  /\ cli \in {"forget", "open", "confirm", "done"} => disk.intent = "disabled"
  /\ cli \in {"open", "confirm", "done"} => saved = NothingSaved
  /\ cli = "done" => ~fw.table

FoundOK ==
  ~lost =>
    /\ DnsOK
    /\ \A l \in Links : found[l] \in {"none", "own"}
    /\ cli \in {"check", "persist", "forget"} /\ ~unrestored =>
         \A l \in Links : found[l] = "own" => dns[l] = "own"

CommandInv == TypeInv /\ EarlyBarrier /\ CommandOK /\ FoundOK

-----------------------------------------------------------------------------
(* A daemon that is stopped can only be started.                           *)
LEMMA OnlyStart == pc = "dead" /\ Daemon => unit /\ Start
  BY DEF Daemon, Crash, Request, Connect, Retry, Disconnect, Pause, Progress,
       SelectTimeout, Exit, Tick, PauseExpires, AttemptDue, VerifyFails,
       TickQuiet, Subroutine, Isolate, Detach, Close, UndoDns, Unwind,
       DirectDetach, DirectDns, DirectOpen, Handling, BootClose, BootClear,
       Finished, PersistConnecting, DisconnectPersist, DisconnectClear,
       PauseClear, PausePersist, Abort, Emergency, EmergencyDone, Attempt,
       Pick, GiveUp, Inspect, Stale, Capture, Configure, BasePolicy,
       EndpointsPolicy, ConnectedPolicy, ApplyPolicy, Activate,
       AwaitVerification, Connected, Failed

(* What the machine does to a daemon that is gone, power kept.             *)
LEMMA Undisturbed ==
  ASSUME TypeInv, Environment, phase # "off", phase' # "off"
  PROVE  /\ fw' = fw /\ disk' = disk /\ saved' = saved /\ pc' = pc
         /\ active' \subseteq active
         /\ \A l \in Links : dns'[l] \in {dns[l], "own"}
  BY DEF TypeInv, TypeOK, Environment, UnderlayChanges, Republish,
         TunnelDrops, TimePasses, EarlyFirewall, StartNetworkManager,
         PowerLoss, Corruption, Networked, files, network, control, memory,
         machine, Routing

(* The daemon and the machine take steps of Controller.                    *)
LEMMA ControllerSteps == Daemon \/ Surroundings \/ UNCHANGED vars => [Next]_vars
  BY DEF Daemon, Surroundings, Next

-----------------------------------------------------------------------------
(* Every step of the command keeps Controller's types and control flow.    *)
LEMMA CommandTypes == CommandInv /\ Command => TypeInv'
<1> SUFFICES ASSUME CommandInv, Command PROVE TypeInv'
  OBVIOUS
<1> USE DEF CommandInv, CommandOK, CommandTypeOK, TypeInv, TypeOK, ControlOK,
        IntentOK, Stopped, Running, Ended, files, network, control, intent,
        schedule, tracking, attempt, session, memory, machine, vars
<1>1. CASE ReadSnapshot \/ Check \/ Confirm \/ Interrupt
  BY <1>1 DEF ReadSnapshot, Check, Confirm, Interrupt
<1>2. CASE StopDaemon
  <2>1. CASE UNCHANGED <<control, memory>>
    BY <1>2, <2>1 DEF StopDaemon
  <2>2. CASE Dead
    <3>1. TypeOK'
      BY <1>2, <2>2 DEF StopDaemon, Dead, NoSession, ForgetAttempt,
           NothingSaved, Saved, Steps, Returns, Handlers, Modes, Deadlines
    <3>2. ControlOK' /\ IntentOK'
      BY <1>2, <2>2 DEF StopDaemon, Dead, NoSession, ForgetAttempt,
           AttemptSteps, EmergencySteps, DirectSteps
    <3> QED
      BY <3>1, <3>2
  <2> QED
    BY <1>2, <2>1, <2>2 DEF StopDaemon
<1>3. CASE Deactivate
  BY <1>3 DEF Deactivate
<1>4. CASE RestoreDns
  BY <1>4 DEF RestoreDns, Restored, Partially, Saved, Routing
<1>5. CASE PersistDisabled
  BY <1>5 DEF PersistDisabled
<1>6. CASE ForgetSnapshot
  BY <1>6 DEF ForgetSnapshot, NothingSaved, Saved
<1>7. CASE RemoveTable
  BY <1>7, FirewallTypes DEF RemoveTable
<1> QED
  BY <1>1, <1>2, <1>3, <1>4, <1>5, <1>6, <1>7 DEF Command

(* Every step of the command keeps what it has established.                *)
LEMMA CommandKeeps == CommandInv /\ Command => CommandOK' /\ EarlyBarrier'
<1> SUFFICES ASSUME CommandInv, Command PROVE CommandOK' /\ EarlyBarrier'
  OBVIOUS
<1> USE DEF CommandInv, CommandOK, CommandTypeOK, TypeInv, EarlyBarrier,
        Stopped, Running, Ended, End, Continue, command, files, network,
        control, memory, machine, vars
<1>0. saved \in [Links -> Saved] /\ NothingSaved \in [Links -> Saved]
      /\ \A l \in Links : NothingSaved[l] = "none"
  BY DEF TypeOK, NothingSaved, Saved
<1>1. CASE ReadSnapshot
  BY <1>0, <1>1 DEF ReadSnapshot
<1>2. CASE StopDaemon
  BY <1>0, <1>2 DEF StopDaemon, Dead
<1>3. CASE Deactivate
  BY <1>0, <1>3 DEF Deactivate
<1>4. CASE RestoreDns
  BY <1>4 DEF RestoreDns
<1>5. CASE Check
  <2>1. UNCHANGED <<phase, fw, disk, saved, pc, active, unit, lost>>
    BY <1>5 DEF Check
  <2>2. CASE Checked /\ Continue("persist")
    BY <1>5, <2>1, <2>2 DEF Check, Checked
  <2>3. CASE End("failed")
    BY <1>0, <1>5, <2>1, <2>3
  <2> QED
    BY <1>5, <2>2, <2>3 DEF Check
<1>6. CASE PersistDisabled
  <2>1. UNCHANGED <<phase, fw, saved, pc, active, unit, lost>>
    BY <1>6 DEF PersistDisabled
  <2>2. CASE disk'.intent = "disabled" /\ Continue("forget")
    BY <1>6, <2>1, <2>2 DEF PersistDisabled
  <2>3. CASE disk' = disk /\ End("failed")
    BY <1>0, <1>6, <2>1, <2>3
  <2>4. [intent |-> "disabled", target |-> NoTarget].intent = "disabled"
    OBVIOUS
  <2> QED
    BY <1>6, <2>2, <2>3, <2>4 DEF PersistDisabled
<1>7. CASE ForgetSnapshot
  BY <1>0, <1>7 DEF ForgetSnapshot
<1>8. CASE RemoveTable
  BY <1>0, <1>8 DEF RemoveTable
<1>9. CASE Confirm
  BY <1>0, <1>9 DEF Confirm, Confirmed
<1>10. CASE Interrupt
  BY <1>0, <1>10 DEF Interrupt
<1> QED
  BY <1>1, <1>2, <1>3, <1>4, <1>5, <1>6, <1>7, <1>8, <1>9, <1>10 DEF Command

(* Every step of the command keeps the links recoverable, unless it loses  *)
(* a snapshot.                                                             *)
LEMMA CommandFound == CommandInv /\ Command => FoundOK'
<1> SUFFICES ASSUME CommandInv, Command, ~lost' PROVE FoundOK'
  BY DEF FoundOK
<1> USE DEF CommandInv, CommandOK, CommandTypeOK, FoundOK, TypeInv, DnsOK,
        LinkOK, CleanSteps, Stopped, Running, Ended, End, Continue, command,
        files, network, control, memory, machine, vars, tracking, attempt
<1>0. /\ ~lost
      /\ saved \in [Links -> Saved] /\ found \in [Links -> Saved]
      /\ dns \in [Links -> Routing]
      /\ \A l \in Links : NothingSaved[l] = "none"
  BY DEF TypeOK, NothingSaved, Command, ReadSnapshot, StopDaemon, Deactivate,
         RestoreDns, Check, PersistDisabled, ForgetSnapshot, RemoveTable,
         Confirm, Interrupt
<1>1. CASE ReadSnapshot
  BY <1>0, <1>1 DEF ReadSnapshot
<1>2. CASE StopDaemon
  BY <1>0, <1>2 DEF StopDaemon, Dead
<1>3. CASE Deactivate
  BY <1>0, <1>3 DEF Deactivate
<1>4. CASE RestoreDns
  <2>1. \A l \in Links : dns'[l] \in {dns[l], Restored(dns, found, Links)[l]}
    BY <1>0, <1>4 DEF RestoreDns, Restored, Partially
  <2>2. \A l \in Links : dns'[l] \in {dns[l], "own"}
    BY <1>0, <2>1 DEF Restored
  <2>3. ~unrestored' => \A l \in Links : found[l] = "own" => dns'[l] = "own"
    BY <1>0, <1>4 DEF RestoreDns, Restored
  <2> QED
    BY <1>0, <1>4, <2>2, <2>3 DEF RestoreDns
<1>5. CASE Check
  BY <1>0, <1>5 DEF Check
<1>6. CASE PersistDisabled
  BY <1>0, <1>6 DEF PersistDisabled
<1>7. CASE ForgetSnapshot
  <2>1. CASE saved' = saved
    BY <1>0, <1>7, <2>1 DEF ForgetSnapshot
  <2>2. CASE saved' = NothingSaved /\ saved = found
    <3>1. \A l \in Links : dns[l] = "own"
      BY <1>0, <1>7, <2>2 DEF ForgetSnapshot
    <3> QED
      BY <1>0, <1>7, <2>2, <3>1 DEF ForgetSnapshot
  <2> QED
    BY <1>7, <2>1, <2>2 DEF ForgetSnapshot
<1>8. CASE RemoveTable
  BY <1>0, <1>8 DEF RemoveTable
<1>9. CASE Confirm
  BY <1>0, <1>9 DEF Confirm
<1>10. CASE Interrupt
  BY <1>0, <1>10 DEF Interrupt
<1> QED
  BY <1>1, <1>2, <1>3, <1>4, <1>5, <1>6, <1>7, <1>8, <1>9, <1>10 DEF Command

-----------------------------------------------------------------------------
(* The daemon keeps what the command has established: it runs only before  *)
(* the command has stopped it.                                             *)
LEMMA DaemonKeeps == CommandInv /\ Daemon => CommandOK' /\ FoundOK'
<1> SUFFICES ASSUME CommandInv, Daemon PROVE CommandOK' /\ FoundOK'
  OBVIOUS
<1>1. [Next]_vars /\ TypeInv'
  BY ControllerSteps, TypeStep DEF CommandInv
<1>2. cli \notin Stopped /\ UNCHANGED <<unit, cli, found, unrestored, lost>>
  BY OnlyStart DEF CommandInv, CommandOK, Daemon, command
<1>3. phase # "off" => phase' # "off"
  <2>1. Start \/ Request \/ Progress \/ Crash
    BY DEF Daemon
  <2>2. CASE Start
    BY <2>2 DEF Start
  <2>3. CASE Request \/ Progress \/ Crash
    <3>1. phase' = phase
      BY <2>3 DEF Crash, Request, Connect, Retry, Disconnect, Pause, Progress,
           SelectTimeout, Exit, Tick, PauseExpires, AttemptDue, VerifyFails,
           TickQuiet, Subroutine, Isolate, Detach, Close, UndoDns, Unwind,
           DirectDetach, DirectDns, DirectOpen, Handling, BootClose,
           BootClear, Finished, PersistConnecting, DisconnectPersist,
           DisconnectClear, PauseClear, PausePersist, Abort, Emergency,
           EmergencyDone, Attempt, Pick, GiveUp, Inspect, Stale, Capture,
           Configure, BasePolicy, EndpointsPolicy, ConnectedPolicy,
           ApplyPolicy, Activate, AwaitVerification, Connected, Failed, machine
    <3> QED BY <3>1
  <2> QED BY <2>1, <2>2, <2>3
<1>4. CommandOK'
  BY <1>2, <1>3 DEF CommandInv, CommandOK, CommandTypeOK, Stopped, Running, Ended
<1>5. FoundOK'
  BY <1>1, <1>2, DnsStep DEF CommandInv, FoundOK, Stopped
<1> QED
  BY <1>4, <1>5

(* The machine keeps what the command has established, or loses power and  *)
(* with it the command.                                                    *)
LEMMA MachineKeeps == CommandInv /\ Surroundings => CommandOK' /\ FoundOK'
<1> SUFFICES ASSUME CommandInv, Surroundings PROVE CommandOK' /\ FoundOK'
  OBVIOUS
<1>1. [Next]_vars /\ Environment /\ UNCHANGED <<unit, lost>>
  BY ControllerSteps DEF Surroundings
<1>2. lost \/ DnsOK'
  BY <1>1, DnsStep DEF CommandInv, FoundOK
<1>3. CASE phase' = "off"
  <2>1. cli' = "none" /\ found' = NothingSaved /\ unrestored' = FALSE
    BY <1>3 DEF Surroundings, End
  <2>2. NothingSaved \in [Links -> Saved] /\ \A l \in Links : NothingSaved[l] = "none"
    BY DEF NothingSaved, Saved
  <2> QED
    BY <1>1, <1>2, <2>1, <2>2 DEF CommandInv, CommandOK, CommandTypeOK, FoundOK,
         Stopped, Running, Ended
<1>4. CASE phase' # "off" /\ phase # "off"
  <2>1. UNCHANGED <<cli, found, unrestored>>
    BY <1>4 DEF Surroundings, command
  <2>2. /\ fw' = fw /\ disk' = disk /\ saved' = saved /\ pc' = pc
        /\ active' \subseteq active
        /\ \A l \in Links : dns'[l] \in {dns[l], "own"}
    BY <1>1, <1>4, Undisturbed DEF CommandInv
  <2> QED
    BY <1>1, <1>2, <1>4, <2>1, <2>2 DEF CommandInv, CommandOK, CommandTypeOK,
         FoundOK
<1>5. CASE phase' # "off" /\ phase = "off"
  <2>1. UNCHANGED <<cli, found, unrestored>>
    BY <1>5 DEF Surroundings, command
  <2>2. cli \notin Running \union {"done"}
    BY <1>5 DEF CommandInv, CommandOK
  <2> QED
    BY <1>1, <1>2, <2>1, <2>2 DEF CommandInv, CommandOK, CommandTypeOK, FoundOK,
         Stopped, Running
<1> QED
  BY <1>3, <1>4, <1>5

(* The invariant of the daemon, the machine and the command together.      *)
THEOREM CommandCorrect == CommandSpec => []CommandInv
<1>1. ASSUME CommandInit PROVE CommandInv
  <2>1. TypeInv
    <3>1. enabled \in BOOLEAN /\ ~enabled /\ disk.intent # "enabled"
      BY <1>1 DEF CommandInit, Init
    <3>2. TypeOK
      BY <1>1, <3>1, FirewallTypes
         DEF CommandInit, Init, TypeOK, Steps, Loop, Returns, Modes, Deadlines,
             Handlers, Saved, Routing, NothingSaved
    <3>3. ControlOK /\ IntentOK
      BY <1>1, <3>1 DEF CommandInit, Init, ControlOK, IntentOK, AttemptSteps,
             EmergencySteps, DirectSteps
    <3> QED BY <3>2, <3>3 DEF TypeInv
  <2>2. DnsOK
    BY <1>1 DEF CommandInit, Init, DnsOK, LinkOK, CleanSteps, NothingSaved
  <2>3. EarlyBarrier /\ CommandOK /\ FoundOK
    BY <1>1, <2>2 DEF CommandInit, Init, EarlyBarrier, CommandOK, CommandTypeOK,
         FoundOK, Stopped, Running, Ended, NothingSaved, Saved
  <2> QED
    BY <2>1, <2>3 DEF CommandInv
<1>2. ASSUME CommandInv, [CommandNext]_allvars PROVE CommandInv'
  <2>1. CASE Command
    BY <1>2, <2>1, CommandTypes, CommandKeeps, CommandFound DEF CommandInv
  <2>2. CASE Daemon
    BY <1>2, <2>2, ControllerSteps, TypeStep, EarlyStep, DaemonKeeps
       DEF CommandInv
  <2>3. CASE Surroundings
    BY <1>2, <2>3, ControllerSteps, TypeStep, EarlyStep, MachineKeeps
       DEF CommandInv
  <2>4. CASE EnableUnit \/ UNCHANGED allvars
    <3>1. UNCHANGED vars
      BY <2>4 DEF EnableUnit, allvars
    <3>2. TypeInv' /\ EarlyBarrier'
      BY <1>2, <3>1, TypeStep, EarlyStep DEF CommandInv
    <3>3. DnsOK => DnsOK'
      BY <1>2, <3>1, DnsStep DEF CommandInv
    <3>4. NothingSaved \in [Links -> Saved] /\ \A l \in Links : NothingSaved[l] = "none"
      BY DEF NothingSaved, Saved
    <3>5. UNCHANGED <<phase, fw, disk, saved, pc, active, dns, lost>>
      BY <2>4, <3>1 DEF EnableUnit, allvars, vars, machine, files, network,
           control
    <3>6. CASE UNCHANGED <<unit, cli, found, unrestored>>
      BY <1>2, <3>2, <3>3, <3>5, <3>6
         DEF CommandInv, CommandOK, CommandTypeOK, FoundOK
    <3>7. CASE EnableUnit
      <4>1. /\ unit' = TRUE /\ cli' = "none" /\ found' = NothingSaved
            /\ unrestored' = FALSE
        BY <3>7 DEF EnableUnit, End
      <4>2. CommandOK'
        BY <1>2, <3>4, <3>5, <4>1
           DEF CommandInv, CommandOK, CommandTypeOK, Stopped, Running, Ended
      <4>3. FoundOK'
        BY <1>2, <3>3, <3>4, <3>5, <4>1 DEF CommandInv, FoundOK
      <4> QED
        BY <3>2, <4>2, <4>3 DEF CommandInv
    <3> QED
      BY <2>4, <3>2, <3>6, <3>7 DEF allvars, command
  <2> QED
    BY <1>2, <2>1, <2>2, <2>3, <2>4 DEF CommandNext
<1> QED
  BY <1>1, <1>2, PTL DEF CommandSpec

(* A successful run leaves a machine that is disabled in every respect.    *)
THEOREM Spec_EmergencyComplete == CommandSpec => []EmergencyComplete
<1>1. CommandInv => EmergencyComplete
  BY DEF CommandInv, CommandOK, EmergencyComplete, Stopped
<1> QED
  BY <1>1, CommandCorrect, PTL

(* Links stay recoverable unless a dns.json is removed that was not read.  *)
THEOREM Spec_RecoverableUnlessLost == CommandSpec => []RecoverableUnlessLost
<1>1. CommandInv => RecoverableUnlessLost
  BY DEF CommandInv, FoundOK, DnsOK, LinkOK, RecoverableUnlessLost, DnsRecoverable
<1> QED
  BY <1>1, CommandCorrect, PTL

(* The command never weakens the protection of a boot it runs in.          *)
THEOREM Command_EarlyBarrier == CommandSpec => []EarlyBarrier
<1>1. CommandInv => EarlyBarrier
  BY DEF CommandInv
<1> QED
  BY <1>1, CommandCorrect, PTL

(* Without a daemon the table goes only after the disabled intent is on    *)
(* disk, the tunnels are down and no restoration is pending.               *)
THEOREM Spec_TableOutlivesIntent == CommandSpec => TableOutlivesIntent
<1>1. ASSUME CommandInv, [CommandNext]_allvars,
             pc = "dead", phase # "off", fw.table, phase' # "off", ~fw'.table
      PROVE  disk.intent = "disabled" /\ saved = NothingSaved /\ active = {}
  <2>1. CASE RemoveTable
    BY <1>1, <2>1 DEF RemoveTable, CommandInv, CommandOK, Stopped
  <2>2. CASE Daemon
    <3>1. Start
      BY <1>1, <2>2, OnlyStart
    <3> QED
      BY <1>1, <3>1, FirewallEffects
         DEF Start, Barrier, Quarantine, CommandInv, TypeInv, TypeOK
  <2>3. CASE Surroundings
    BY <1>1, <2>3, Undisturbed DEF CommandInv, Surroundings
  <2>4. ASSUME fw' # fw PROVE RemoveTable \/ Daemon \/ Surroundings
    BY <1>1, <2>4 DEF CommandNext, Command, ReadSnapshot, StopDaemon,
         Deactivate, RestoreDns, Check, PersistDisabled, ForgetSnapshot,
         Confirm, Interrupt, EnableUnit, machine, vars, allvars
  <2> QED
    BY <1>1, <2>1, <2>2, <2>3, <2>4
<1> QED
  BY <1>1, CommandCorrect, PTL DEF CommandSpec, TableOutlivesIntent
=============================================================================
