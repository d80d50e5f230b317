------------------------------- MODULE Switch -------------------------------
(***************************************************************************)
(* The panel's coordinator of the two VPNs: plugin/Service.qml (commands   *)
(* to the WireGuard daemon, status polls, the confirmed switch) together   *)
(* with plugin/ProtonService.qml (commands to protonvpn, observations of   *)
(* NetworkManager and of the Proton CLI).                                  *)
(*                                                                         *)
(* Everything happens in callbacks of one event loop: a click, a one-second *)
(* timer, the exit of a process, a deferred call (Qt.callLater).  What the *)
(* processes answer is any answer they can give, at any time; a hung       *)
(* process may never answer.  Late answers are recognised by numbers of    *)
(* which only comparisons matter, so only these are kept: a query is       *)
(* `current` while the revision (generation) it was started under is the   *)
(* present one, and a timestamp is newer than another one or is not        *)
(* (`seen`, `nmNew`, `cliSays`).                                           *)
(***************************************************************************)
EXTENDS Naturals, FiniteSets

CONSTANTS Locations,   \* catalog entries of the WireGuard daemon
          Choices,     \* what protonvpn can be asked to connect to
          None,
          Reported,    \* the states a status of the daemon can report
          NmReports,   \* what one look at NetworkManager can show
          Others,      \* the panel's other processes: "helper", "install"
          GivesUp      \* whether a client may leave its request behind

ASSUME TargetsDisjoint ==
  /\ Locations \cap Choices = {}
  /\ None \notin Locations \cup Choices

Targets == Locations \cup Choices

VARIABLES
  status,    \* last status of the daemon, or Unknown
  recovery,  \* disconnectRecovery: the last known status was an active one
  act,       \* actionProcess of Service.qml
  poll,      \* statusProcess of Service.qml
  nm,        \* the NetworkManager observation, NmUnknown once it is stale
  nmNew,     \* nm is known and nm.at > wireGuardObservationAfter
  cliSays,   \* a fresh "connected" of `protonvpn status`, newer than nm
  nmQuery,   \* nmProcess
  cliQuery,  \* statusProcess of ProtonService.qml
  pact,      \* actionProcess of ProtonService.qml
  config,    \* configProcess: reading the kill switch setting
  later,     \* calls deferred with Qt.callLater
  other,     \* a picker, diagnostics or installer process of the panel
  request,   \* switchRequest: a switch that awaits confirmation
  phase,     \* switchPhase
  target,    \* switchTarget
  seen,      \* in a waiting phase: what arrived since the phase began
  pending,   \* pendingConnection: to be recorded once it succeeds
  recorded,  \* what this step handed to recordConnection, or None
  \* History, read by no guard of the panel:
  queued,    \* a connect of the panel may wait at the daemon, its client gone
  reached,   \* the pending target was reported connected since it is pending
  evidence,  \* what was learned after the last command of a switch ended
  wanted     \* what the confirmed, not yet stopped switch is to start

daemon == <<status, recovery, act, poll, queued>>
observed == <<nm, nmNew, cliSays>>
queries == <<nmQuery, cliQuery>>
commands == <<pact, config>>
proton == <<observed, queries, commands>>
switch == <<phase, target, seen, wanted, evidence>>
record == <<pending, reached>>
vars == <<daemon, proton, later, other, request, switch, record, recorded>>

(***************************************************************************)
(* Values                                                                  *)
(***************************************************************************)
\* Every state that is neither connected nor connecting nor disabled
\* (failed, paused, enabled-unverified) is handled alike: "failed".
Reports ==
  [state : Reported \ {"disabled"}, at : Locations] \cup
  [state : Reported \cap {"disabled"}, at : {None}]
Unknown == [state |-> "unknown", at |-> None]

NmUnknown == [match |-> "unknown", managed |-> "unknown"]

\* The command of a process.  A stopped one was sent SIGTERM and has not
\* ended yet; its exit will be ignored.
NoCommand == [cmd |-> "none", to |-> None]
Stopped == [cmd |-> "stopped", to |-> None]
Command(cmd, to) == [cmd |-> cmd, to |-> to]
Running(p) == p \notin {NoCommand, Stopped}

\* A query.  since: it was started after the last command it is to report on
\* had ended (history; the panel itself decides by `current`).
NoQuery == [runs |-> FALSE, current |-> FALSE, since |-> FALSE]
Started == [runs |-> TRUE, current |-> TRUE, since |-> TRUE]
Outdated(q) == [q EXCEPT !.current = FALSE, !.since = FALSE]

(***************************************************************************)
(* What the panel derives                                                  *)
(***************************************************************************)
ProtonBusy == pact # NoCommand \/ config # "idle"

\* Mutant: only the commands of Service.qml count as busy.
BusyWithoutProton == act # NoCommand \/ other # "none" \/ phase # ""

Busy == act # NoCommand \/ other # "none" \/ ProtonBusy \/ phase # ""

Active(state, recovering) ==
  recovering \/ state \in {"connected", "connecting", "failed"}

WireGuardAbsent ==
  status.state = "unknown" /\ nm.managed = "absent" /\ nmNew /\ ~recovery

ProtonState ==
  CASE pact.cmd = "connect" -> "connecting"
    [] pact.cmd = "disconnect" -> "disconnecting"
    [] OTHER ->
         CASE nm.match = "one" -> "connected"
           [] nm.match = "activating" -> "connecting"
           [] nm.match = "none" /\ ~cliSays -> "disconnected"
           [] OTHER -> "unknown"

WireGuardReleased == status.state = "disabled" /\ "status" \in seen

ProtonReleased == {"gone", "disconnected"} \subseteq seen

(***************************************************************************)
(* Pieces of handlers                                                      *)
(***************************************************************************)
\* Mutant: a command does not advance statusRevision.
RunActionSameRevision(cmd, to) ==
  /\ act' = Command(cmd, to)
  /\ nmNew' = (nmNew /\ cmd = "import")
  /\ poll' = [poll EXCEPT !.since = FALSE]
  /\ status' = Unknown
  /\ reached' = (reached /\ (cmd = "connect" => to = pending))
  /\ UNCHANGED <<recovery, queued>>

\* runAction, once its guards have passed.
RunAction(cmd, to) ==
  /\ act' = Command(cmd, to)
  /\ nmNew' = (nmNew /\ cmd = "import")
  /\ poll' = Outdated(poll)
  /\ status' = Unknown
  /\ reached' = (reached /\ (cmd = "connect" => to = pending))
  /\ UNCHANGED <<recovery, queued>>

MayRun(cmd) == ~Busy /\ (status.state # "unknown" \/ cmd = "disconnect")

\* ProtonService.connect and disconnect.  The new generation outdates the
\* queries in flight.
RunProton(cmd, to) ==
  /\ pact' = Command(cmd, to)
  /\ nmQuery' = Outdated(nmQuery)
  /\ cliQuery' = Outdated(cliQuery)
  /\ reached' = (reached /\ (cmd = "connect" => to = pending))
  /\ UNCHANGED config

\* Mutant: the end of a command does not advance the generation.
FinishProtonSameGeneration(result) ==
  /\ nmQuery' = [nmQuery EXCEPT !.since = FALSE]
  /\ cliQuery' = [cliQuery EXCEPT !.since = FALSE]
  /\ evidence' = evidence \ {"gone", "disconnected"}
  /\ later' = later \cup {<<pact.cmd, result>>}

\* Mutant: the deferred report reads the name of the action when it runs.
FinishProtonUnnamed(result) ==
  /\ nmQuery' = Outdated(nmQuery)
  /\ cliQuery' = Outdated(cliQuery)
  /\ evidence' = evidence \ {"gone", "disconnected"}
  /\ later' = later \cup {<<"none", result>>}

\* finishAction of ProtonService: a new generation, and the report deferred.
FinishProton(result) ==
  /\ nmQuery' = Outdated(nmQuery)
  /\ cliQuery' = Outdated(cliQuery)
  /\ evidence' = evidence \ {"gone", "disconnected"}
  /\ later' = later \cup {<<pact.cmd, result>>}

EndSwitch ==
  /\ phase' = "" /\ target' = None
  /\ seen' = {} /\ wanted' = None /\ evidence' = {}

\* The report of an earlier command has been delivered.  Every pass of the
\* event loop delivers what was deferred before it, so a click, an exit or a
\* timer can overtake a report, but a command that was started while one was
\* deferred is not seen to end, nor grows old, before it.
Delivered ==
  \A call \in later : call[1] \notin {"connect", "disconnect", "killSwitch"}

\* Mutant: stopping a switch forgets its target but not its phase.
AbortSwitchInPhase ==
  /\ pending' = None /\ target' = None /\ wanted' = None
  /\ UNCHANGED <<phase, seen, evidence>>

AbortSwitch == pending' = None /\ EndSwitch

\* Mutant: an attempt is recorded once it is under way.
CheckPendingEarly(r) ==
  IF pending \notin Locations \/ r.state = "unknown"
  THEN recorded' = None /\ UNCHANGED pending
  ELSE /\ pending' = None
       /\ recorded' = IF r.at = pending THEN pending ELSE None

\* checkPendingConnection under the new status r: recorded, given up, or kept.
CheckPending(r) ==
  IF pending \notin Locations \/ r.state = "connecting"
  THEN recorded' = None /\ UNCHANGED pending
  ELSE /\ pending' = None
       /\ recorded' = IF r.state = "connected" /\ r.at = pending
                      THEN pending ELSE None

\* applyStatus.  A failed status may come with an intent or without one.
ApplyStatus(r) ==
  /\ status' = r
  /\ recovery' \in IF r.state = "failed" THEN BOOLEAN
                   ELSE {r.state # "disabled"}
  /\ CheckPending(r)

\* History: what the answer r, asked for recently enough, has shown.
Reach(r) ==
  reached' = (reached \/ (r.state = "connected" /\ r.at = pending))

\* History: what an answer has shown to the switch in progress.
Learn(query, fact, shown) ==
  evidence' = IF ~query.since \/ phase = "" THEN evidence
              ELSE IF shown THEN evidence \cup {fact} ELSE evidence \ {fact}

\* What has arrived since the waiting phase began.
See(waiting, fact, shown) ==
  seen' = IF phase # waiting THEN seen
          ELSE IF shown THEN seen \cup {fact} ELSE seen \ {fact}

-----------------------------------------------------------------------------
(***************************************************************************)
(* Clicks, delivered before or after the calls deferred until then.        *)
(***************************************************************************)
ConnectLocation(l) ==
  /\ MayRun("connect")
  /\ \/ /\ ProtonState \in {"connected", "connecting"}
        /\ request' = l
        /\ recorded' = None
        /\ UNCHANGED <<daemon, nmNew, record>>
     \/ /\ ProtonState = "disconnected"
        /\ RunAction("connect", l)
        /\ pending' = l
        /\ recorded' = None
        /\ UNCHANGED request
  /\ UNCHANGED <<nm, cliSays, queries, commands, later, other, switch>>

ConnectProton(c) ==
  /\ ~Busy
  /\ \/ /\ Active(status.state, recovery)
        /\ pending' = None
        /\ request' = c
        /\ UNCHANGED <<queries, commands, reached>>
     \/ /\ ~Active(status.state, recovery \/ nm.managed = "present")
        /\ status.state # "unknown" \/ WireGuardAbsent
        /\ ProtonState \in {"connected", "disconnected"}
        /\ RunProton("connect", c)
        /\ pending' = c
        /\ UNCHANGED request
  /\ recorded' = None
  /\ UNCHANGED <<daemon, observed, later, other, switch>>

DisconnectProton ==
  /\ ~Busy
  /\ RunProton("disconnect", None)
  /\ recorded' = None
  /\ UNCHANGED <<daemon, observed, later, other, request, switch, pending>>

Disconnect ==
  /\ MayRun("disconnect")
  /\ status.state # "unknown" \/ recovery \/ nm.managed = "present"
  /\ RunAction("disconnect", None)
  /\ recorded' = None
  /\ UNCHANGED <<nm, cliSays, queries, commands, later, other, request, switch,
                 pending>>

\* retry, and the import that follows the file chooser (a helper).
RetryOrImport ==
  /\ \E cmd \in {"retry", "import"} :
       /\ cmd = "import" => "helper" \in Others
       /\ MayRun(cmd) /\ RunAction(cmd, None)
  /\ recorded' = None
  /\ UNCHANGED <<nm, cliSays, queries, commands, later, other, request, switch,
                 pending>>

CancelSwitch ==
  /\ request # None
  /\ request' = None
  /\ recorded' = None
  /\ UNCHANGED <<daemon, proton, later, other, switch, record>>

ConfirmSwitch ==
  /\ ~Busy /\ request # None
  /\ request' = None
  /\ target' = request /\ wanted' = request
  /\ \/ /\ request \in Choices
        /\ phase' = "wg-disconnect"
        /\ RunAction("disconnect", None)
        /\ UNCHANGED config
     \/ /\ request \in Locations
        /\ phase' = "ks-check"
        /\ config' = "running"
        /\ UNCHANGED <<daemon, nmNew, reached>>
  /\ recorded' = None
  /\ UNCHANGED <<nm, cliSays, queries, pact, later, other, seen, evidence,
                 pending>>

\* copyDiagnostics is possible at any time, uninstallBackend with any known
\* status, a switch included; the file chooser and installBackend need ~Busy.
StartOther ==
  /\ other = "none"
  /\ other' \in Others
  /\ other' = "install" => status.state # "unknown" \/ ~Busy
  /\ recorded' = None
  /\ UNCHANGED <<daemon, proton, later, request, switch, record>>

OtherExits ==
  /\ other # "none"
  /\ other' = "none"
  /\ recorded' = None
  /\ UNCHANGED <<daemon, proton, later, request, switch, record>>

-----------------------------------------------------------------------------
(***************************************************************************)
(* The WireGuard side: the command and the status poll                     *)
(***************************************************************************)
\* actionProcess.onExited with code 0.  The daemon serves its queue in order:
\* an answered command proves that nothing older waits there.
ActionSucceeds ==
  /\ Running(act) /\ Delivered
  /\ act' = NoCommand
  /\ queued' = FALSE
  /\ \E r \in Reports \cup {Unknown} :
       /\ act.cmd = "import" => r = Unknown
       /\ Reach(r)
       /\ IF r = Unknown
          THEN /\ status' = Unknown
               /\ recorded' = None
               /\ UNCHANGED <<recovery, pending>>
          ELSE ApplyStatus(r)
  /\ phase' = IF phase = "wg-disconnect" THEN "wg-wait" ELSE phase
  /\ UNCHANGED <<poll, proton, later, other, request, target, seen, wanted,
                 evidence>>

\* Whether the daemon still has the command of a client that is gone.
LeftBehind ==
  queued' \in {queued, queued \/ (GivesUp /\ act.cmd = "connect")}

\* The same with another code; the client gives up after 30 seconds.
ActionFails ==
  /\ Running(act) /\ Delivered
  /\ act' = NoCommand
  /\ LeftBehind
  /\ status' = Unknown
  /\ IF phase = "wg-disconnect" THEN AbortSwitch
     ELSE /\ pending' = IF pending \in Locations THEN None ELSE pending
          /\ UNCHANGED switch
  /\ recorded' = None
  /\ UNCHANGED <<recovery, poll, proton, later, other, request, reached>>

\* Mutant: only the command of a switch is bounded.
ExpireActionInSwitch ==
  /\ Running(act) /\ Delivered /\ phase = "wg-disconnect"
  /\ act' = Stopped
  /\ LeftBehind
  /\ poll' = Outdated(poll)
  /\ status' = Unknown
  /\ AbortSwitch
  /\ recorded' = None
  /\ UNCHANGED <<recovery, proton, later, other, request, reached>>

\* expireAction: after 120 seconds the command is abandoned.
ExpireAction ==
  /\ Running(act) /\ Delivered
  /\ act' = Stopped
  /\ LeftBehind
  /\ poll' = Outdated(poll)
  /\ status' = Unknown
  /\ IF phase = "wg-disconnect" THEN AbortSwitch
     ELSE UNCHANGED <<switch, pending>>
  /\ recorded' = None
  /\ UNCHANGED <<recovery, proton, later, other, request, reached>>

\* The exit of an abandoned command is ignored.
AbandonedExits ==
  /\ act = Stopped
  /\ act' = NoCommand
  /\ recorded' = None
  /\ UNCHANGED <<status, recovery, poll, queued, proton, later, other, request,
                 switch, record>>

\* refresh: no poll while a command or the installer runs.
Refresh ==
  /\ act = NoCommand /\ other # "install" /\ ~poll.runs
  /\ poll' = Started
  /\ recorded' = None
  /\ UNCHANGED <<status, recovery, act, queued, proton, later, other, request,
                 switch, record>>

\* statusProcess.onExited with code 0 and a well-formed answer: applyPoll.
\* The daemon serves in order, so the answer to a newer poll also shows that
\* no older request waits.
PollAnswers ==
  /\ poll.runs
  /\ queued' = (queued /\ ~poll.since)
  /\ poll' = NoQuery
  /\ \E r \in Reports :
       /\ Learn(poll, "disabled", r.state = "disabled")
       /\ IF poll.since THEN Reach(r) ELSE UNCHANGED reached
       /\ IF poll.current
          THEN /\ ApplyStatus(r)
               /\ See("wg-wait", "status", TRUE)
               /\ later' = IF phase = "wg-wait"
                           THEN later \cup {<<"advance", "">>} ELSE later
          ELSE /\ recorded' = None
               /\ UNCHANGED <<status, recovery, later, seen, pending>>
  /\ UNCHANGED <<act, proton, other, request, phase, target, wanted>>

\* The poll fails, or its answer is malformed or took too long.  A failure is
\* reported whatever the revision.
PollFails ==
  /\ poll.runs
  /\ poll' = NoQuery
  /\ status' = Unknown
  /\ recorded' = None
  /\ UNCHANGED <<recovery, act, queued, proton, later, other, request, switch,
                 record>>

\* expireStatus: a poll of more than 10 seconds is stopped, and a status that
\* has grown old is no longer shown.
ExpireStatus ==
  /\ \/ poll.current /\ poll' = Outdated(poll)
     \/ status # Unknown /\ UNCHANGED poll
  /\ status' = Unknown
  /\ recorded' = None
  /\ UNCHANGED <<recovery, act, queued, proton, later, other, request, switch,
                 record>>

-----------------------------------------------------------------------------
(***************************************************************************)
(* The Proton side: the command, the kill switch, the two observations     *)
(***************************************************************************)
ProtonSucceeds ==
  /\ Running(pact) /\ Delivered
  /\ pact' = NoCommand
  /\ FinishProton("done")
  /\ reached' = (reached \/ (pact.cmd = "connect" /\ pact.to = pending))
  /\ recorded' = None
  /\ UNCHANGED <<daemon, observed, config, other, request, phase, target, seen,
                 wanted, pending>>

\* The command fails; if it could not be launched the CLI becomes unknown.
ProtonFails ==
  /\ Running(pact) /\ Delivered
  /\ pact' = NoCommand
  /\ FinishProton("failed")
  /\ cliSays' \in {cliSays, FALSE}
  /\ seen' \in {seen, seen \ {"disconnected"}}
  /\ recorded' = None
  /\ UNCHANGED <<daemon, nm, nmNew, config, other, request, phase, target,
                 wanted, record>>

\* expire: 120 seconds for a connect, 60 for a disconnect.
ExpireProton ==
  /\ Running(pact) /\ Delivered
  /\ pact' = Stopped
  /\ FinishProton("failed")
  /\ recorded' = None
  /\ UNCHANGED <<daemon, observed, config, other, request, phase, target, seen,
                 wanted, record>>

\* revision is -1: the late exit is ignored.
ExpiredProtonExits ==
  /\ pact = Stopped
  /\ pact' = NoCommand
  /\ recorded' = None
  /\ UNCHANGED <<daemon, observed, queries, config, later, other, request,
                 switch, record>>

\* configProcess exits; "" is a failure or an output without the setting.
ConfigExits ==
  /\ config = "running" /\ Delivered
  /\ config' = "idle"
  /\ \E value \in {"off", "on", ""} :
       /\ later' = later \cup {<<"killSwitch", value>>}
       /\ Learn(Started, "off", value = "off")
  /\ recorded' = None
  /\ UNCHANGED <<daemon, observed, queries, pact, other, request, phase, target,
                 seen, wanted, record>>

ExpireConfig ==
  /\ config = "running" /\ Delivered
  /\ config' = "dying"
  /\ later' = later \cup {<<"killSwitch", "">>}
  /\ recorded' = None
  /\ UNCHANGED <<daemon, observed, queries, pact, other, request, switch,
                 record>>

ExpiredConfigExits ==
  /\ config = "dying"
  /\ config' = "idle"
  /\ recorded' = None
  /\ UNCHANGED <<daemon, observed, queries, pact, later, other, request, switch,
                 record>>

\* The timers that start the observations.  That `protonvpn status` is left
\* out while nothing needs it (statusWanted) depends on whether the panel is
\* open, which the user can change at any time.
StartNm ==
  /\ ~nmQuery.runs
  /\ nmQuery' = Started
  /\ recorded' = None
  /\ UNCHANGED <<daemon, observed, cliQuery, commands, later, other, request,
                 switch, record>>

StartCli ==
  /\ ~cliQuery.runs /\ pact = NoCommand
  /\ cliQuery' = Started
  /\ recorded' = None
  /\ UNCHANGED <<daemon, observed, nmQuery, commands, later, other, request,
                 switch, record>>

\* observed and protonObserved: advanceSwitch is called for an observation of
\* which the panel learns in proton-wait.
Observed ==
  later' = IF phase = "proton-wait" THEN later \cup {<<"advance", "">>}
           ELSE later

\* nmProcess.onExited and storeNm; NmUnknown is a failed look.
NmExits ==
  /\ nmQuery.runs
  /\ nmQuery' = NoQuery
  /\ \E r \in NmReports \cup {NmUnknown} :
       /\ Learn(nmQuery, "gone", r.match = "none")
       /\ IF nmQuery.current
          THEN /\ nm' = r /\ nmNew' = (r # NmUnknown) /\ cliSays' = FALSE
               /\ See("proton-wait", "gone", r.match = "none")
               /\ Observed
          ELSE UNCHANGED <<observed, seen, later>>
  /\ recorded' = None
  /\ UNCHANGED <<daemon, cliQuery, commands, other, request, phase, target,
                 wanted, record>>

\* statusProcess.onExited of ProtonService and storeCli
CliExits ==
  /\ cliQuery.runs
  /\ cliQuery' = NoQuery
  /\ \E r \in {"connected", "disconnected", "unknown"} :
       /\ Learn(cliQuery, "disconnected", r = "disconnected")
       /\ IF cliQuery.current
          THEN /\ cliSays' = (r = "connected")
               /\ See("proton-wait", "disconnected", r = "disconnected")
               /\ Observed
          ELSE UNCHANGED <<cliSays, seen, later>>
  /\ recorded' = None
  /\ UNCHANGED <<daemon, nm, nmNew, nmQuery, commands, other, request, phase,
                 target, wanted, record>>

\* An observation is older than STALE_MS, or a query in flight is stopped.
ObservationsAge ==
  /\ \/ nm # NmUnknown /\ nm' = NmUnknown /\ nmNew' = FALSE
        /\ UNCHANGED <<cliSays, queries>>
     \/ cliSays /\ cliSays' = FALSE /\ UNCHANGED <<nm, nmNew, queries>>
     \/ nmQuery.current /\ nmQuery' = Outdated(nmQuery)
        /\ UNCHANGED <<observed, cliQuery>>
     \/ cliQuery.current /\ cliQuery' = Outdated(cliQuery)
        /\ UNCHANGED <<observed, nmQuery>>
  /\ recorded' = None
  /\ UNCHANGED <<daemon, commands, later, other, request, switch, record>>

-----------------------------------------------------------------------------
(***************************************************************************)
(* Deferred calls and the deadline of the switch                           *)
(***************************************************************************)
\* protonService.refresh
RefreshProton ==
  /\ nmQuery' = IF nmQuery.runs THEN nmQuery ELSE Started
  /\ cliQuery' = IF cliQuery.runs \/ pact # NoCommand THEN cliQuery
                 ELSE Started

\* protonActionDone("connect", ...)
ProtonConnectDone ==
  \E result \in {"done", "failed"} :
    /\ <<"connect", result>> \in later
    /\ later' = later \ {<<"connect", result>>}
    /\ IF pending \notin Choices THEN recorded' = None /\ UNCHANGED pending
       ELSE /\ pending' = None
            /\ recorded' = IF /\ result = "done"
                              /\ phase \in {"", "proton-connect"}
                           THEN pending ELSE None
    /\ IF phase = "proton-connect" THEN EndSwitch ELSE UNCHANGED switch
    /\ RefreshProton
    /\ UNCHANGED <<daemon, observed, commands, other, request, reached>>

\* protonActionDone("disconnect", ...)
ProtonDisconnectDone ==
  \E result \in {"done", "failed"} :
    /\ <<"disconnect", result>> \in later
    /\ later' = later \ {<<"disconnect", result>>}
    /\ IF phase # "proton-disconnect" THEN UNCHANGED <<switch, pending>>
       ELSE IF result = "failed" THEN AbortSwitch
       ELSE /\ phase' = "proton-wait"
            /\ UNCHANGED <<target, seen, wanted, evidence, pending>>
    /\ RefreshProton
    /\ recorded' = None
    /\ UNCHANGED <<daemon, observed, commands, other, request, reached>>

\* protonKillSwitchRead
KillSwitchRead ==
  \E value \in {"off", "on", ""} :
    /\ <<"killSwitch", value>> \in later
    /\ later' = later \ {<<"killSwitch", value>>}
    /\ IF phase # "ks-check"
       THEN UNCHANGED <<queries, commands, switch, pending, reached>>
       ELSE IF value # "off" \/ ProtonBusy
       THEN AbortSwitch /\ UNCHANGED <<queries, commands, reached>>
       ELSE /\ phase' = "proton-disconnect"
            /\ RunProton("disconnect", None)
            /\ UNCHANGED <<target, seen, wanted, evidence, pending>>
    /\ recorded' = None
    /\ UNCHANGED <<daemon, observed, other, request>>

\* advanceSwitch, from wg-wait: the daemon is known to be disabled.
StartProton ==
  IF ProtonBusy THEN AbortSwitch /\ UNCHANGED <<queries, commands, reached>>
  ELSE /\ phase' = "proton-connect" /\ seen' = {}
       /\ RunProton("connect", target)
       /\ pending' = target
       /\ UNCHANGED <<target, wanted, evidence>>

\* advanceSwitch, from proton-wait: Proton is known to be gone.
StartWireGuard ==
  /\ EndSwitch
  /\ IF status.state = "unknown" \/ act # NoCommand \/ ProtonBusy
        \/ other # "none"
     THEN UNCHANGED <<daemon, nmNew, reached>>
     ELSE RunAction("connect", target)
  /\ pending' = IF act' # NoCommand THEN target ELSE pending

\* advanceSwitch runs in whatever phase it is by then.
AdvanceSwitch ==
  /\ <<"advance", "">> \in later
  /\ later' = later \ {<<"advance", "">>}
  /\ IF phase = "wg-wait" /\ WireGuardReleased
     THEN StartProton /\ UNCHANGED <<daemon, nmNew>>
     ELSE IF phase = "proton-wait" /\ ProtonReleased
     THEN StartWireGuard /\ UNCHANGED <<queries, commands>>
     ELSE UNCHANGED <<daemon, nmNew, queries, commands, switch, pending,
                      reached>>
  /\ recorded' = None
  /\ UNCHANGED <<nm, cliSays, other, request>>

\* checkSwitchDeadline: 150 seconds for a switch, 30 in a waiting phase.
SwitchDeadline ==
  /\ phase # ""
  /\ request' \in {request, None}
  /\ AbortSwitch
  /\ recorded' = None
  /\ UNCHANGED <<daemon, proton, later, other, reached>>

-----------------------------------------------------------------------------
Init ==
  /\ status = Unknown /\ recovery = FALSE
  /\ act = NoCommand /\ poll = Started
  /\ nm = NmUnknown /\ nmNew = FALSE /\ cliSays = FALSE
  /\ nmQuery = Started /\ cliQuery = NoQuery
  /\ pact = NoCommand /\ config = "idle"
  /\ later = {} /\ other = "none"
  /\ request = None /\ phase = "" /\ target = None /\ seen = {}
  /\ pending = None /\ recorded = None
  /\ queued = FALSE /\ reached = FALSE /\ evidence = {} /\ wanted = None

Click ==
  \/ \E l \in Locations : ConnectLocation(l)
  \/ \E c \in Choices : ConnectProton(c)
  \/ DisconnectProton \/ Disconnect \/ RetryOrImport
  \/ CancelSwitch \/ ConfirmSwitch \/ StartOther

Answer ==
  \/ ActionSucceeds \/ ActionFails \/ PollAnswers \/ PollFails
  \/ ProtonSucceeds \/ ProtonFails \/ ConfigExits \/ NmExits \/ CliExits
  \/ OtherExits

Start == Refresh \/ StartNm \/ StartCli

\* A stopped process does exit.
Ends == AbandonedExits \/ ExpiredProtonExits \/ ExpiredConfigExits

Expire ==
  ExpireAction \/ ExpireStatus \/ ExpireProton \/ ExpireConfig \/
  ObservationsAge \/ SwitchDeadline

Deferred ==
  ProtonConnectDone \/ ProtonDisconnectDone \/ KillSwitchRead \/ AdvanceSwitch

Next == Click \/ Answer \/ Start \/ Ends \/ Expire \/ Deferred

Spec == Init /\ [][Next]_vars

\* Nothing is assumed of a command that was not stopped: it may hang.
LiveSpec ==
  /\ Spec
  /\ WF_vars(Ends)
  /\ WF_vars(ProtonConnectDone) /\ WF_vars(ProtonDisconnectDone)
  /\ WF_vars(KillSwitchRead) /\ WF_vars(AdvanceSwitch)
  /\ WF_vars(ExpireAction) /\ WF_vars(ExpireProton) /\ WF_vars(ExpireConfig)
  /\ WF_vars(SwitchDeadline)
=============================================================================
