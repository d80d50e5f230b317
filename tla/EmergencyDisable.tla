-------------------------- MODULE EmergencyDisable --------------------------
(***************************************************************************)
(* The root-only recovery command: bin/omarchy-wireguard's                 *)
(* emergency_disable, running beside the daemon, the early unit and the    *)
(* machine of Controller.                                                  *)
(*                                                                         *)
(* The command reads dns.json, stops the daemon's unit, takes the tunnels  *)
(* down, gives the links their DNS back, and then, in this order, writes   *)
(* the disabled intent, removes dns.json and removes the table.  It is a   *)
(* process of its own: until the unit is stopped the daemon goes on, and   *)
(* it can fail, be interrupted or lose power between any two commands.     *)
(*                                                                         *)
(* "lost" is a history variable: the dns.json that a run of the command    *)
(* removed was not the one it had read.  No action depends on it.          *)
(***************************************************************************)
EXTENDS Controller

VARIABLES
  unit,         \* omarchy-wireguard.service is enabled
  cli,          \* the next step of the command, or how the last run ended
  found,        \* dns_restore: the snapshot it read
  unrestored,   \* dns_restore_failed
  lost          \* history

command == <<cli, found, unrestored>>
allvars == <<vars, unit, command, lost>>

Running == {"stop", "deactivate", "restore", "check", "persist", "forget",
            "open", "confirm"}

\* The end of a run: it reported success, or an error, or the machine lost
\* power, or nobody has run it.
Ended == {"none", "done", "failed"}

CommandTypeOK ==
  /\ unit \in BOOLEAN
  /\ cli \in Running \union Ended
  /\ found \in [Links -> Saved]
  /\ unrestored \in BOOLEAN
  /\ lost \in BOOLEAN

\* The process of the command ends; its memory goes.
End(how) == cli' = how /\ found' = NothingSaved /\ unrestored' = FALSE

Continue(step) == cli' = step /\ UNCHANGED <<found, unrestored>>

-----------------------------------------------------------------------------
\* dns.json is read before the daemon is stopped.  A file that cannot be
\* read is an error that is reported after the restoration.
ReadSnapshot ==
  /\ cli \in Ended /\ phase # "off"
  /\ cli' = "stop"
  /\ \/ found' = saved /\ unrestored' = FALSE
     \/ found' = NothingSaved /\ unrestored' = TRUE
  /\ UNCHANGED <<vars, unit, lost>>

\* systemctl disable --now: the unit, then the process; failing, neither or
\* one of the two.
StopDaemon ==
  /\ cli = "stop"
  /\ \/ unit' = FALSE /\ Dead /\ Continue("deactivate")
     \/ unit' \in {unit, FALSE} /\ (Dead \/ UNCHANGED <<control, memory>>)
        /\ End("failed")
  /\ UNCHANGED <<machine, lost>>

\* The profiles the catalog owns are listed and the active ones taken down;
\* without NetworkManager or with a failing nmcli the command gives up.
Deactivate ==
  /\ cli = "deactivate"
  /\ \/ Networked /\ active' = {} /\ Continue("restore")
     \/ active' \in SUBSET active /\ End("failed")
  /\ UNCHANGED <<phase, files, fw, network, control, memory, unit, lost>>

\* resolvectl for every link of the snapshot; errors are noted.
RestoreDns ==
  /\ cli = "restore"
  /\ LET goal == Restored(dns, found, Links)
     IN  \/ dns' = goal /\ UNCHANGED unrestored
         \/ dns' \in Partially(dns, goal) /\ unrestored' = TRUE
  /\ cli' = "check"
  /\ UNCHANGED <<phase, files, fw, active, physical, control, memory, unit,
                 found, lost>>

\* Mutant: a failed restoration is reported at the end only.
CheckedWithoutDns == pc = "dead" /\ active = {}

\* What has to hold for the intent to be given up.
Checked == pc = "dead" /\ active = {} /\ ~unrestored

Check ==
  /\ cli = "check"
  /\ \/ Checked /\ Continue("persist")
     \/ End("failed")
  /\ UNCHANGED <<vars, unit, lost>>

\* Mutant: a write that failed does not end the command.
PersistUnchecked ==
  /\ cli = "persist"
  /\ disk' \in {disk, [intent |-> "disabled", target |-> NoTarget]}
  /\ Continue("forget")
  /\ UNCHANGED <<phase, saved, fw, active, network, control, memory, unit, lost>>

\* state.json is replaced by the disabled intent.
PersistDisabled ==
  /\ cli = "persist"
  /\ \/ disk' = [intent |-> "disabled", target |-> NoTarget] /\ Continue("forget")
     \/ disk' = disk /\ End("failed")
  /\ UNCHANGED <<phase, saved, fw, active, network, control, memory, unit, lost>>

ForgetSnapshot ==
  /\ cli = "forget"
  /\ \/ /\ saved' = NothingSaved
        /\ lost' = (lost \/ saved # found)
        /\ Continue("open")
     \/ saved' = saved /\ End("failed") /\ UNCHANGED lost
  /\ UNCHANGED <<phase, disk, fw, active, network, control, memory, unit>>

\* nft delete table, whose result is not looked at.
RemoveTable ==
  /\ cli = "open"
  /\ fw' \in {fw, Open}
  /\ Continue("confirm")
  /\ UNCHANGED <<phase, files, active, network, control, memory, unit, lost>>

\* Mutant: success needs no observation.
ConfirmedBlindly == TRUE

\* The table is not among those nft lists.
Confirmed == ~fw.table

Confirm ==
  /\ cli = "confirm"
  /\ \/ Confirmed /\ End("done")
     \/ End("failed")
  /\ UNCHANGED <<vars, unit, lost>>

\* Killed or interrupted between two commands.
Interrupt ==
  /\ cli \in Running
  /\ End("failed")
  /\ UNCHANGED <<vars, unit, lost>>

Command ==
  \/ ReadSnapshot \/ StopDaemon \/ Deactivate \/ RestoreDns \/ Check
  \/ PersistDisabled \/ ForgetSnapshot \/ RemoveTable \/ Confirm \/ Interrupt

-----------------------------------------------------------------------------
\* The last steps of an installation: the unit is enabled and started again.
EnableUnit ==
  /\ ~unit /\ cli \in Ended
  /\ unit' = TRUE
  /\ End("none")
  /\ UNCHANGED <<vars, lost>>

\* systemd starts the daemon at boot, or again after a failure, as long as
\* its unit is enabled.
Daemon ==
  /\ (unit /\ Start) \/ Request \/ Progress \/ Crash
  /\ UNCHANGED <<unit, command, lost>>

Surroundings ==
  /\ Environment
  /\ IF phase' = "off" THEN End("none") ELSE UNCHANGED command
  /\ UNCHANGED <<unit, lost>>

CommandInit ==
  /\ Init
  /\ unit = TRUE
  /\ cli = "none" /\ found = NothingSaved /\ unrestored = FALSE
  /\ lost = FALSE

CommandNext == Command \/ EnableUnit \/ Daemon \/ Surroundings

CommandSpec == CommandInit /\ [][CommandNext]_allvars
=============================================================================
