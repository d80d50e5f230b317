--------------------- MODULE EmergencyDisableProperties ---------------------
(* What emergency-disable promises, as properties of EmergencyDisable.     *)
EXTENDS EmergencyDisable, ControllerProperties

(* A run that reported success left a machine that is disabled and stays   *)
(* so: intent, pending restoration, table, tunnels, daemon and unit are    *)
(* all gone, whatever the daemon was doing when it was stopped.            *)
EmergencyComplete ==
  cli = "done" =>
    /\ disk.intent = "disabled" /\ saved = NothingSaved
    /\ ~fw.table /\ active = {}
    /\ pc = "dead" /\ ~unit

(* Without a daemon nothing opens the network of a running machine before  *)
(* the disabled intent is on disk, the tunnels are down and no restoration *)
(* is pending: a command that fails or is interrupted leaves the table.    *)
TableOutlivesIntent ==
  [][pc = "dead" /\ phase # "off" /\ fw.table /\ phase' # "off" /\ ~fw'.table =>
       disk.intent = "disabled" /\ saved = NothingSaved /\ active = {}]_allvars

(* However many runs fail half-way, with reboots and new installations     *)
(* between them, links can be given back their routing, unless a run has   *)
(* removed a dns.json that it had not read.                                *)
RecoverableUnlessLost == ~lost => DnsRecoverable

(* "On disconnect, pause, disabled boot, or emergency disable, [...] the   *)
(* exact physical-link snapshot is restored before it is cleared."  The    *)
(* daemon can change dns.json between the read and its end.                *)
EmergencyRestoresDns ==
  cli = "done" => \A l \in Links : dns[l] = "own"
=============================================================================
