-------------------------- MODULE SwitchProperties --------------------------
(***************************************************************************)
(* What the coordinator of the two VPNs has to guarantee.                  *)
(***************************************************************************)
EXTENDS Switch

\* The shape of every variable, and what ties the phases of a switch to the
\* commands that are running for them.
TypeOK ==
  /\ status \in Reports \cup {Unknown} /\ recovery \in BOOLEAN
  /\ act \in [cmd : {"none", "stopped", "connect", "disconnect", "retry",
                     "import"}, to : Locations \cup {None}]
  /\ {poll, nmQuery, cliQuery} \subseteq
       [runs : BOOLEAN, current : BOOLEAN, since : BOOLEAN]
  /\ nm \in NmReports \cup {NmUnknown} /\ nmNew \in BOOLEAN
  /\ cliSays \in BOOLEAN /\ seen \subseteq {"status", "gone", "disconnected"}
  /\ pact \in [cmd : {"none", "stopped", "connect", "disconnect"},
               to : Choices \cup {None}]
  /\ config \in {"idle", "running", "dying"}
  /\ later \subseteq ({"connect", "disconnect"} \X {"done", "failed"}) \cup
       ({"killSwitch"} \X {"off", "on", ""}) \cup
       {<<"advance", "">>}
  /\ other \in Others \cup {"none"}
  /\ {request, target, pending, recorded, wanted} \subseteq Targets \cup {None}
  /\ phase \in {"", "wg-disconnect", "wg-wait", "proton-connect", "ks-check",
                "proton-disconnect", "proton-wait"}
  /\ queued \in BOOLEAN /\ reached \in BOOLEAN
  /\ evidence \subseteq {"disabled", "gone", "disconnected", "off"}

\* The panel runs one VPN command at a time: a command of one VPN never
\* starts while a command of the other, or the read of the kill switch, is
\* still running, stopped ones that have not ended included (busy).
OneCommand ==
  Cardinality({x \in {"act", "pact", "config"} :
    CASE x = "act" -> act # NoCommand
      [] x = "pact" -> pact # NoCommand
      [] OTHER -> config # "idle"}) <= 1

StartsWireGuard ==
  act.cmd # "connect" /\ act'.cmd = "connect"
StartsProton ==
  pact.cmd # "connect" /\ pact'.cmd = "connect"

\* A switch starts Proton only if a status poll that was itself started after
\* the WireGuard disconnect had ended reported the daemon disabled, and no
\* later one denied it (PROTON.md, "waits until a new WireGuard status
\* reports disabled").
ProtonAfterRelease ==
  [][StartsProton /\ phase # "" => "disabled" \in evidence]_vars

\* A switch starts WireGuard only if the kill switch was read as off for this
\* switch, and both NetworkManager and protonvpn, asked after the Proton
\* disconnect had ended, found no Proton connection.
WireGuardAfterProton ==
  [][StartsWireGuard /\ phase # "" =>
       {"off", "gone", "disconnected"} \subseteq evidence]_vars

\* A late result from a stopped switch starts nothing: whatever is started by
\* an exit, a timer or a deferred call (all steps but clicks), or taken down to
\* make room for it, is part of the switch the user confirmed last and that
\* has not been stopped since.
LateStartsNothing ==
  [][~Click =>
       /\ StartsWireGuard => wanted = act'.to
       /\ StartsProton => wanted = pact'.to
       /\ pact.cmd # "disconnect" /\ pact'.cmd = "disconnect"
            => wanted \in Locations]_vars

\* The report of a Proton connect was overtaken by the click that started the
\* next one: it is delivered while the command for the pending target runs.
Overtaken == pact = Command("connect", pending)

\* The quick button offers a connection only after it was successful: what is
\* recorded is the pending target, reported connected by an answer asked for
\* since it became pending.  The one exception is the panel's own: a report
\* that was overtaken records the target of the later command (protonActionDone
\* reads pendingConnection when it runs).  It never concerns a location.
RecordedUnlessOvertaken ==
  [][recorded' # None => recorded' = pending /\ (reached' \/ Overtaken)]_vars

\* A hung command or a switch that makes no progress cannot wedge the panel:
\* there is always a later moment at which it takes commands again.
Hung == act # NoCommand \/ ProtonBusy \/ phase # ""
NeverWedged == Hung ~> ~Hung

\* What the documentation promises: the panel does not start two connections
\* at the same time.  (It starts Proton while its own connect request, given
\* up by the client, still waits at the daemon.)
OneConnectionAtATime ==
  [][StartsProton => ~queued]_vars
=============================================================================
