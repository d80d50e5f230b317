----------------------------- MODULE SwitchProofs -----------------------------
(***************************************************************************)
(* Proofs about Switch, for every set of locations, choices, reports and   *)
(* views of NetworkManager.                                                *)
(*                                                                         *)
(* What makes late answers harmless is not in any guard: it is which       *)
(* commands can be running in each phase (Alone), what the phase's target  *)
(* is (Aimed), that at most one report of a command is deferred, which may *)
(* be an earlier switch's or a click's in every phase but one (Reporting), *)
(* and that what the panel goes by was asked for after the phase began     *)
(* (Grounded).  Recordable says whose success a deferred report can be.    *)
(* Wait, at the end, says how far a hung panel is from taking commands at  *)
(* most.                                                                   *)
(***************************************************************************)
EXTENDS SwitchProperties, FiniteSetTheorems, TLAPS

Results  == {"done", "failed"}
Settings == {"off", "on", ""}

Queries == [runs : BOOLEAN, current : BOOLEAN, since : BOOLEAN]

Phases == {"", "wg-disconnect", "wg-wait", "proton-connect", "ks-check",
           "proton-disconnect", "proton-wait"}

Facts == {"disabled", "gone", "disconnected", "off"}

Calls == ({"connect", "disconnect"} \X Results) \cup
         ({"killSwitch"} \X Settings) \cup {<<"advance", "">>}

\* The commands that the panel runs.
WireGuardCommands == {NoCommand, Stopped} \cup
  {Command(c, t) : c \in {"connect", "disconnect", "retry", "import"},
                   t \in Locations \cup {None}}

ProtonCommands == {NoCommand, Stopped} \cup
  {Command(c, t) : c \in {"connect", "disconnect"}, t \in Choices \cup {None}}

\* TypeOK by what it is about.
CommandsTyped ==
  /\ act \in WireGuardCommands /\ pact \in ProtonCommands
  /\ config \in {"idle", "running", "dying"} /\ phase \in Phases

QueriesTyped == poll \in Queries /\ nmQuery \in Queries /\ cliQuery \in Queries

SeenTyped ==
  /\ status \in Reports \cup {Unknown} /\ recovery \in BOOLEAN
  /\ nm \in NmReports \cup {NmUnknown} /\ nmNew \in BOOLEAN
  /\ cliSays \in BOOLEAN /\ seen \subseteq {"status", "gone", "disconnected"}
  /\ other \in Others \cup {"none"}
  /\ queued \in BOOLEAN /\ reached \in BOOLEAN /\ evidence \subseteq Facts

LaterTyped == later \subseteq Calls

TargetsTyped ==
  /\ request \in Targets \cup {None} /\ target \in Targets \cup {None}
  /\ pending \in Targets \cup {None} /\ recorded \in Targets \cup {None}
  /\ wanted \in Targets \cup {None}

Typed ==
  CommandsTyped /\ QueriesTyped /\ SeenTyped /\ LaterTyped /\ TargetsTyped

ToProton    == {"wg-disconnect", "wg-wait", "proton-connect"}
ToWireGuard == {"ks-check", "proton-disconnect", "proton-wait"}

\* One command at a time, and which of them a phase rules out.
Alone ==
  /\ act # NoCommand => pact = NoCommand /\ config = "idle"
  /\ pact # NoCommand => config = "idle"
  /\ phase \notin {"", "wg-disconnect"} => act = NoCommand
  /\ phase \notin {"", "ks-check"} => config = "idle"
  /\ phase \in {"wg-disconnect", "wg-wait", "ks-check"} => pact = NoCommand
  /\ phase = "proton-wait" => ~Running(pact)

\* A switch is for its target, which the user confirmed last.
Aimed ==
  /\ phase \in ToProton => target \in Choices
  /\ phase \in ToWireGuard => target \in Locations
  /\ phase # "" => wanted = target

\* At most one report is deferred.  While the disconnect of a switch runs it
\* is none at all: an earlier one would be taken for the end of this one.
Reporting ==
  /\ \A c, d \in later \ {<<"advance", "">>} : c = d
  /\ phase = "proton-disconnect" /\ Running(pact) =>
       later \subseteq {<<"advance", "">>}

\* What a switch goes by was asked for after the command it is about.
Grounded ==
  /\ poll.current = poll.since
  /\ nmQuery.current = nmQuery.since
  /\ cliQuery.current = cliQuery.since
  /\ phase \notin {"wg-wait", "proton-wait"} => seen = {}
  /\ phase = "wg-wait" /\ "status" \in seen /\ status.state = "disabled" =>
       "disabled" \in evidence
  /\ phase = "ks-check" /\ config # "running" /\
       <<"killSwitch", "off">> \in later => "off" \in evidence
  /\ phase \in {"proton-disconnect", "proton-wait"} => "off" \in evidence
  /\ phase = "proton-wait" => seen \subseteq evidence

\* A Proton connection that a report will record has succeeded, or its own
\* command has overtaken the report.
Recordable ==
  /\ <<"connect", "done">> \in later /\ pending \in Choices =>
       reached \/ Overtaken
  /\ pact.cmd = "connect" /\ pending \in Choices => pact.to = pending

SwitchInv == Typed /\ Alone /\ Aimed /\ Reporting /\ Grounded /\ Recordable

-----------------------------------------------------------------------------
(* What the operations on queries return.                                  *)
LEMMA QueryFacts ==
  /\ Started \in Queries /\ Started.current = TRUE /\ Started.since = TRUE
  /\ NoQuery \in Queries /\ NoQuery.current = NoQuery.since
  /\ \A q \in Queries :
       Outdated(q) \in Queries /\ Outdated(q).current = Outdated(q).since
BY DEF Started, NoQuery, Outdated, Queries

(* What the commands are made of.                                          *)
LEMMA CommandFacts ==
  /\ {NoCommand, Stopped} \subseteq WireGuardCommands \cap ProtonCommands
  /\ \A c \in {"disconnect", "retry", "import"} :
       Command(c, None) \in WireGuardCommands
  /\ \A l \in Locations : Command("connect", l) \in WireGuardCommands
  /\ Command("disconnect", None) \in ProtonCommands
  /\ \A c \in Choices : Command("connect", c) \in ProtonCommands
  /\ \A p \in ProtonCommands : Running(p) => p.cmd \in {"connect", "disconnect"}
  /\ \A c, t : Command(c, t).cmd = c /\ Command(c, t).to = t
  /\ \A c, t : c \in {"connect", "disconnect", "retry", "import"} =>
       Running(Command(c, t))
  /\ ~Running(NoCommand) /\ ~Running(Stopped) /\ NoCommand # Stopped
  /\ NoCommand.cmd = "none" /\ Stopped.cmd = "stopped"
<1>1. {NoCommand, Stopped} \subseteq WireGuardCommands \cap ProtonCommands
  BY DEF WireGuardCommands, ProtonCommands
<1>2. \A c \in {"disconnect", "retry", "import"} :
        Command(c, None) \in WireGuardCommands
  BY DEF WireGuardCommands
<1>3. \A l \in Locations : Command("connect", l) \in WireGuardCommands
  BY DEF WireGuardCommands
<1>4. Command("disconnect", None) \in ProtonCommands
  BY DEF ProtonCommands
<1>5. \A c \in Choices : Command("connect", c) \in ProtonCommands
  BY DEF ProtonCommands
<1>6. \A c, t : Command(c, t).cmd = c /\ Command(c, t).to = t
  BY DEF Command
<1>7. \A p \in ProtonCommands : Running(p) => p.cmd \in {"connect", "disconnect"}
  BY <1>6 DEF ProtonCommands, Running
<1>8. NoCommand.cmd = "none" /\ Stopped.cmd = "stopped"
  BY DEF NoCommand, Stopped
<1>9. \A c, t : c \in {"connect", "disconnect", "retry", "import"} =>
        Running(Command(c, t))
  BY <1>6, <1>8 DEF Running
<1> QED
  BY <1>1, <1>2, <1>3, <1>4, <1>5, <1>6, <1>7, <1>8, <1>9 DEF Running

(* What is deferred.                                                       *)
LEMMA CallFacts ==
  /\ \A c \in {"connect", "disconnect"}, r \in Results : <<c, r>> \in Calls
  /\ \A v \in Settings : <<"killSwitch", v>> \in Calls
  /\ <<"advance", "">> \in Calls
  /\ "" \in Settings /\ "done" \in Results /\ "failed" \in Results
BY DEF Calls, Results, Settings

(* What can be deferred when no report is.                                 *)
LEMMA DeliveredFacts ==
  ASSUME LaterTyped, Delivered
  PROVE  later \subseteq {<<"advance", "">>}
BY DEF LaterTyped, Calls, Delivered

(* What advanceSwitch does.                                                *)
LEMMA AdvanceCases == AdvanceSwitch =>
  /\ later' \subseteq later
  /\ recorded' = None /\ UNCHANGED <<nm, cliSays, other, request>>
  /\ \/ /\ phase = "wg-wait" /\ WireGuardReleased
        /\ StartProton /\ UNCHANGED <<daemon, nmNew>>
     \/ /\ phase = "proton-wait" /\ ProtonReleased
        /\ StartWireGuard /\ UNCHANGED <<queries, commands>>
     \/ UNCHANGED <<daemon, nmNew, queries, commands, switch, pending, reached>>
BY DEF AdvanceSwitch

-----------------------------------------------------------------------------
(* Commands and phases.                                                    *)
LEMMA CommandsStep == SwitchInv /\ [Next]_vars => CommandsTyped'
<1> SUFFICES ASSUME SwitchInv, [Next]_vars PROVE CommandsTyped'
  OBVIOUS
<1> USE DEF SwitchInv, Typed, CommandsTyped, Phases, daemon, observed,
        queries, commands, proton, switch, record
<1>1. ASSUME NEW l \in Locations, ConnectLocation(l) PROVE CommandsTyped'
  <2>1. act' \in WireGuardCommands
    BY <1>1, CommandFacts DEF ConnectLocation, RunAction
  <2> QED
    BY <1>1, <2>1 DEF ConnectLocation
<1>2. ASSUME NEW c \in Choices, ConnectProton(c) PROVE CommandsTyped'
  <2>1. pact' \in ProtonCommands /\ UNCHANGED config
    BY <1>2, CommandFacts DEF ConnectProton, RunProton
  <2> QED
    BY <1>2, <2>1 DEF ConnectProton
<1>3. CASE RetryOrImport
  <2>1. PICK cmd \in {"retry", "import"} : act' = Command(cmd, None)
    BY <1>3 DEF RetryOrImport, RunAction
  <2>2. act' \in WireGuardCommands
    BY <2>1, CommandFacts
  <2> QED
    BY <1>3, <2>2 DEF RetryOrImport
<1>4. CASE ConfirmSwitch
  <2>1. act' \in WireGuardCommands
    BY <1>4, CommandFacts DEF ConfirmSwitch, RunAction
  <2> QED
    BY <1>4, <2>1 DEF ConfirmSwitch
<1>5. CASE DisconnectProton \/ Disconnect \/ CancelSwitch \/ StartOther
  BY <1>5, CommandFacts DEF DisconnectProton, RunProton, Disconnect,
       RunAction, CancelSwitch, StartOther
<1>6. CASE Answer
  BY <1>6, CommandFacts DEF Answer, ActionSucceeds, ActionFails, AbortSwitch,
       EndSwitch, PollAnswers, PollFails, ProtonSucceeds, ProtonFails,
       ConfigExits, NmExits, CliExits, OtherExits
<1>7. CASE Start
  BY <1>7, CommandFacts DEF Start, Refresh, StartNm, StartCli
<1>8. CASE Ends
  BY <1>8, CommandFacts DEF Ends, AbandonedExits, ExpiredProtonExits,
       ExpiredConfigExits
<1>9. CASE Expire
  BY <1>9, CommandFacts DEF Expire, ExpireAction, AbortSwitch, EndSwitch,
       ExpireStatus, ExpireProton, ExpireConfig, ObservationsAge,
       SwitchDeadline
<1>10. CASE AdvanceSwitch
  <2>1. CASE phase = "wg-wait" /\ StartProton /\ UNCHANGED daemon
    BY <2>1, CommandFacts DEF StartProton, RunProton,
           AbortSwitch, EndSwitch, Aimed, ToProton
  <2>2. CASE phase = "proton-wait" /\ StartWireGuard /\ UNCHANGED commands
    BY <2>2, CommandFacts DEF StartWireGuard, RunAction,
           EndSwitch, Aimed, ToWireGuard
  <2> QED
    BY <1>10, <2>1, <2>2, AdvanceCases
<1>11. CASE ProtonConnectDone \/ ProtonDisconnectDone \/ KillSwitchRead
  BY <1>11, CommandFacts DEF ProtonConnectDone, EndSwitch,
       ProtonDisconnectDone, AbortSwitch, KillSwitchRead, RunProton
<1>12. CASE UNCHANGED vars
  BY <1>12 DEF vars
<1> QED
  BY <1>1, <1>2, <1>3, <1>4, <1>5, <1>6, <1>7, <1>8, <1>9, <1>10, <1>11,
       <1>12 DEF Next, Click, Answer, Start, Ends, Expire, Deferred

(* Queries.  Outdated and Started are used by what they return.            *)
LEMMA QueriesStep == SwitchInv /\ [Next]_vars => QueriesTyped'
<1> SUFFICES ASSUME SwitchInv, [Next]_vars PROVE QueriesTyped'
  OBVIOUS
<1> USE DEF SwitchInv, Typed, QueriesTyped, daemon, observed, queries,
        commands, proton, switch, record
<1>1. ASSUME NEW l \in Locations, ConnectLocation(l) PROVE QueriesTyped'
  BY <1>1, QueryFacts DEF ConnectLocation, RunAction
<1>2. ASSUME NEW c \in Choices, ConnectProton(c) PROVE QueriesTyped'
  BY <1>2, QueryFacts DEF ConnectProton, RunProton
<1>3. CASE DisconnectProton \/ Disconnect \/ RetryOrImport \/ CancelSwitch \/
          ConfirmSwitch \/ StartOther
  BY <1>3, QueryFacts DEF DisconnectProton, RunProton, Disconnect, RunAction,
       RetryOrImport, CancelSwitch, ConfirmSwitch, StartOther
<1>4. CASE Answer
  BY <1>4, QueryFacts DEF Answer, ActionSucceeds, ActionFails, PollAnswers,
       PollFails, ProtonSucceeds, FinishProton, ProtonFails, ConfigExits,
       NmExits, CliExits, OtherExits
<1>5. CASE Start
  BY <1>5, QueryFacts DEF Start, Refresh, StartNm, StartCli
<1>6. CASE Ends
  BY <1>6, QueryFacts DEF Ends, AbandonedExits, ExpiredProtonExits,
       ExpiredConfigExits
<1>7. CASE Expire
  BY <1>7, QueryFacts DEF Expire, ExpireAction, ExpireStatus, ExpireProton,
       FinishProton, ExpireConfig, ObservationsAge, SwitchDeadline
<1>8. CASE KillSwitchRead
  BY <1>8, QueryFacts DEF KillSwitchRead, RunProton
<1>9. CASE AdvanceSwitch
  BY <1>9, QueryFacts, AdvanceCases DEF StartProton, StartWireGuard,
       RunProton, RunAction
<1>10. CASE ProtonConnectDone \/ ProtonDisconnectDone
  BY <1>10, QueryFacts DEF ProtonConnectDone, RefreshProton,
       ProtonDisconnectDone
<1>11. CASE UNCHANGED vars
  BY <1>11 DEF vars
<1> QED
  BY <1>1, <1>2, <1>3, <1>4, <1>5, <1>6, <1>7, <1>8, <1>9, <1>10, <1>11 DEF
       Next, Click, Answer, Start, Ends, Expire, Deferred

(* What the panel has seen, and the history.                               *)
LEMMA SeenStep == SwitchInv /\ [Next]_vars => SeenTyped'
<1> SUFFICES ASSUME SwitchInv, [Next]_vars PROVE SeenTyped'
  OBVIOUS
<1> USE DEF SwitchInv, Typed, SeenTyped, Facts, daemon, observed, queries,
        commands, proton, switch, record
<1>1. ASSUME NEW l \in Locations, ConnectLocation(l) PROVE SeenTyped'
  BY <1>1 DEF ConnectLocation, RunAction
<1>2. ASSUME NEW c \in Choices, ConnectProton(c) PROVE SeenTyped'
  BY <1>2 DEF ConnectProton, RunProton
<1>3. CASE DisconnectProton \/ Disconnect \/ RetryOrImport \/ CancelSwitch \/
          ConfirmSwitch \/ StartOther
  BY <1>3 DEF DisconnectProton, RunProton, Disconnect, RunAction,
       RetryOrImport, CancelSwitch, ConfirmSwitch, StartOther
<1>4. CASE Answer
  BY <1>4 DEF Answer, ActionSucceeds, Reach, ApplyStatus, ActionFails,
       LeftBehind, AbortSwitch, EndSwitch, PollAnswers, Learn, See,
       PollFails, ProtonSucceeds, FinishProton, ProtonFails, ConfigExits,
       NmExits, CliExits, OtherExits
<1>5. CASE Start
  BY <1>5 DEF Start, Refresh, StartNm, StartCli
<1>6. CASE Ends
  BY <1>6 DEF Ends, AbandonedExits, ExpiredProtonExits, ExpiredConfigExits
<1>7. CASE Expire
  BY <1>7 DEF Expire, ExpireAction, LeftBehind, AbortSwitch, EndSwitch,
       ExpireStatus, ExpireProton, FinishProton, ExpireConfig,
       ObservationsAge, SwitchDeadline
<1>8. CASE Deferred
  BY <1>8 DEF Deferred, ProtonConnectDone, EndSwitch, ProtonDisconnectDone,
       AbortSwitch, KillSwitchRead, RunProton, AdvanceSwitch, StartProton,
       StartWireGuard, RunAction
<1>9. CASE UNCHANGED vars
  BY <1>9 DEF vars
<1> QED
  BY <1>1, <1>2, <1>3, <1>4, <1>5, <1>6, <1>7, <1>8, <1>9 DEF Next, Click,
       Answer, Start, Ends, Expire, Deferred

(* Deferred calls.                                                         *)
LEMMA LaterStep == SwitchInv /\ [Next]_vars => LaterTyped'
<1> SUFFICES ASSUME SwitchInv, [Next]_vars PROVE LaterTyped'
  OBVIOUS
<1> USE DEF SwitchInv, Typed, LaterTyped, daemon, observed, queries,
        commands, proton, switch, record
<1>a. Running(pact) => pact.cmd \in {"connect", "disconnect"}
  BY CommandFacts DEF CommandsTyped
<1>1. ASSUME NEW l \in Locations, ConnectLocation(l) PROVE LaterTyped'
  BY <1>1, CallFacts DEF ConnectLocation
<1>2. ASSUME NEW c \in Choices, ConnectProton(c) PROVE LaterTyped'
  BY <1>2, CallFacts DEF ConnectProton
<1>3. CASE DisconnectProton \/ Disconnect \/ RetryOrImport \/ CancelSwitch \/
          ConfirmSwitch \/ StartOther
  BY <1>3, CallFacts DEF DisconnectProton, Disconnect, RetryOrImport,
       CancelSwitch, ConfirmSwitch, StartOther
<1>4. CASE PollAnswers
  BY <1>4, CallFacts DEF PollAnswers
<1>5. CASE ProtonSucceeds
  BY <1>a, <1>5, CallFacts DEF ProtonSucceeds, FinishProton
<1>6. CASE ProtonFails
  BY <1>a, <1>6, CallFacts DEF ProtonFails, FinishProton
<1>7. CASE ConfigExits \/ ExpireConfig
  BY <1>7, CallFacts DEF ConfigExits, ExpireConfig, Settings
<1>8. CASE NmExits \/ CliExits
  BY <1>8, CallFacts DEF NmExits, CliExits, Observed
<1>9. CASE ActionSucceeds \/ ActionFails \/ PollFails \/ OtherExits
  BY <1>9, CallFacts DEF ActionSucceeds, ActionFails, PollFails, OtherExits
<1>10. CASE Start
  BY <1>10, CallFacts DEF Start, Refresh, StartNm, StartCli
<1>11. CASE Ends
  BY <1>11, CallFacts DEF Ends, AbandonedExits, ExpiredProtonExits,
       ExpiredConfigExits
<1>12. CASE ExpireProton
  BY <1>a, <1>12, CallFacts DEF ExpireProton, FinishProton
<1>13. CASE ExpireAction \/ ExpireStatus \/ ObservationsAge \/ SwitchDeadline
  BY <1>13, CallFacts DEF ExpireAction, ExpireStatus, ObservationsAge,
       SwitchDeadline
<1>14. CASE Deferred
  BY <1>14, CallFacts DEF Deferred, ProtonConnectDone, ProtonDisconnectDone,
       KillSwitchRead, AdvanceSwitch, StartProton, StartWireGuard
<1>15. CASE UNCHANGED vars
  BY <1>15 DEF vars
<1> QED
  BY <1>1, <1>2, <1>3, <1>4, <1>5, <1>6, <1>7, <1>8, <1>9, <1>10, <1>11,
       <1>12, <1>13, <1>14, <1>15 DEF Next, Click, Answer, Start, Ends,
       Expire, Deferred

(* Targets.                                                                *)
LEMMA TargetsStep == SwitchInv /\ [Next]_vars => TargetsTyped'
<1> SUFFICES ASSUME SwitchInv, [Next]_vars PROVE TargetsTyped'
  OBVIOUS
<1> USE DEF SwitchInv, Typed, TargetsTyped, Targets, daemon, observed,
        queries, commands, proton, switch, record
<1>1. ASSUME NEW l \in Locations, ConnectLocation(l) PROVE TargetsTyped'
  BY <1>1, TargetsDisjoint DEF ConnectLocation
<1>2. ASSUME NEW c \in Choices, ConnectProton(c) PROVE TargetsTyped'
  BY <1>2, TargetsDisjoint DEF ConnectProton
<1>3. CASE DisconnectProton \/ Disconnect \/ RetryOrImport \/ CancelSwitch \/
          ConfirmSwitch \/ StartOther
  BY <1>3, TargetsDisjoint DEF DisconnectProton, Disconnect, RetryOrImport,
       CancelSwitch, ConfirmSwitch, StartOther
<1>4. CASE Answer
  BY <1>4, TargetsDisjoint DEF Answer, ActionSucceeds, ApplyStatus,
       CheckPending, ActionFails, AbortSwitch, EndSwitch, PollAnswers,
       PollFails, ProtonSucceeds, ProtonFails, ConfigExits, NmExits,
       CliExits, OtherExits
<1>5. CASE Start
  BY <1>5, TargetsDisjoint DEF Start, Refresh, StartNm, StartCli
<1>6. CASE Ends
  BY <1>6, TargetsDisjoint DEF Ends, AbandonedExits, ExpiredProtonExits,
       ExpiredConfigExits
<1>7. CASE Expire
  BY <1>7, TargetsDisjoint DEF Expire, ExpireAction, AbortSwitch, EndSwitch,
       ExpireStatus, ExpireProton, ExpireConfig, ObservationsAge,
       SwitchDeadline
<1>8. CASE Deferred
  BY <1>8, TargetsDisjoint DEF Deferred, ProtonConnectDone, EndSwitch,
       ProtonDisconnectDone, AbortSwitch, KillSwitchRead, AdvanceSwitch,
       StartProton, StartWireGuard
<1>9. CASE UNCHANGED vars
  BY <1>9 DEF vars
<1> QED
  BY <1>1, <1>2, <1>3, <1>4, <1>5, <1>6, <1>7, <1>8, <1>9 DEF Next, Click,
       Answer, Start, Ends, Expire, Deferred

(* One command at a time, and the phases that exclude one.                 *)
LEMMA AloneStep == SwitchInv /\ [Next]_vars => Alone'
<1> SUFFICES ASSUME SwitchInv, [Next]_vars PROVE Alone'
  OBVIOUS
<1> USE DEF SwitchInv, Alone, daemon, observed, queries, commands, proton,
        switch, record
<1>1. ASSUME NEW l \in Locations, ConnectLocation(l) PROVE Alone'
  BY <1>1, CommandFacts DEF ConnectLocation, MayRun, RunAction, Busy,
       ProtonBusy
<1>2. ASSUME NEW c \in Choices, ConnectProton(c) PROVE Alone'
  BY <1>2, CommandFacts DEF ConnectProton, RunProton, Busy, ProtonBusy
<1>3. CASE DisconnectProton \/ Disconnect \/ RetryOrImport \/ CancelSwitch \/
          ConfirmSwitch \/ StartOther
  BY <1>3, CommandFacts DEF DisconnectProton, RunProton, Busy, ProtonBusy,
       Disconnect, MayRun, RunAction, RetryOrImport, CancelSwitch,
       ConfirmSwitch, StartOther
<1>4. CASE Answer
  BY <1>4, CommandFacts DEF Answer, ActionSucceeds, ActionFails, AbortSwitch,
       EndSwitch, PollAnswers, PollFails, ProtonSucceeds, ProtonFails,
       ConfigExits, NmExits, CliExits, OtherExits
<1>5. CASE Start
  BY <1>5, CommandFacts DEF Start, Refresh, StartNm, StartCli
<1>6. CASE Ends
  BY <1>6, CommandFacts DEF Ends, AbandonedExits, ExpiredProtonExits,
       ExpiredConfigExits
<1>7. CASE Expire
  BY <1>7, CommandFacts DEF Expire, ExpireAction, AbortSwitch, EndSwitch,
       ExpireStatus, ExpireProton, ExpireConfig, ObservationsAge,
       SwitchDeadline
<1>8. CASE ProtonDisconnectDone
  BY <1>8 DEF ProtonDisconnectDone, AbortSwitch, EndSwitch, Reporting, Results
<1>9. CASE KillSwitchRead
  BY <1>9, CommandFacts DEF KillSwitchRead, AbortSwitch, EndSwitch,
         RunProton, ProtonBusy
<1>10. CASE AdvanceSwitch
  BY <1>10, CommandFacts, AdvanceCases DEF StartProton, StartWireGuard,
         RunProton, RunAction, AbortSwitch, EndSwitch, ProtonBusy
<1>11. CASE ProtonConnectDone
  BY <1>11, CommandFacts DEF ProtonConnectDone, EndSwitch
<1>12. CASE UNCHANGED vars
  BY <1>12 DEF vars
<1> QED
  BY <1>1, <1>2, <1>3, <1>4, <1>5, <1>6, <1>7, <1>8, <1>9, <1>10, <1>11,
       <1>12 DEF Next, Click, Answer, Start, Ends, Expire, Deferred

(* A switch keeps its target.                                              *)
LEMMA AimedStep == SwitchInv /\ [Next]_vars => Aimed'
<1> SUFFICES ASSUME SwitchInv, [Next]_vars PROVE Aimed'
  OBVIOUS
<1> USE DEF SwitchInv, Aimed, ToProton, ToWireGuard, daemon, observed,
        queries, commands, proton, switch, record
<1>1. ASSUME NEW l \in Locations, ConnectLocation(l) PROVE Aimed'
  BY <1>1, TargetsDisjoint DEF ConnectLocation
<1>2. ASSUME NEW c \in Choices, ConnectProton(c) PROVE Aimed'
  BY <1>2, TargetsDisjoint DEF ConnectProton
<1>3. CASE DisconnectProton \/ Disconnect \/ RetryOrImport \/ CancelSwitch \/
          ConfirmSwitch \/ StartOther
  BY <1>3, TargetsDisjoint DEF DisconnectProton, Disconnect, RetryOrImport,
       CancelSwitch, ConfirmSwitch, StartOther
<1>4. CASE Answer
  BY <1>4, TargetsDisjoint DEF Answer, ActionSucceeds, ActionFails,
       AbortSwitch, EndSwitch, PollAnswers, PollFails, ProtonSucceeds,
       ProtonFails, ConfigExits, NmExits, CliExits, OtherExits
<1>5. CASE Start
  BY <1>5, TargetsDisjoint DEF Start, Refresh, StartNm, StartCli
<1>6. CASE Ends
  BY <1>6, TargetsDisjoint DEF Ends, AbandonedExits, ExpiredProtonExits,
       ExpiredConfigExits
<1>7. CASE Expire
  BY <1>7, TargetsDisjoint DEF Expire, ExpireAction, AbortSwitch, EndSwitch,
       ExpireStatus, ExpireProton, ExpireConfig, ObservationsAge,
       SwitchDeadline
<1>8. CASE ProtonConnectDone
  BY <1>8 DEF ProtonConnectDone, EndSwitch
<1>9. CASE ProtonDisconnectDone
  BY <1>9 DEF ProtonDisconnectDone, AbortSwitch, EndSwitch
<1>10. CASE KillSwitchRead \/ AdvanceSwitch
  BY <1>10, TargetsDisjoint DEF KillSwitchRead, AbortSwitch, EndSwitch,
       AdvanceSwitch, StartProton, StartWireGuard
<1>11. CASE UNCHANGED vars
  BY <1>11 DEF vars
<1> QED
  BY <1>1, <1>2, <1>3, <1>4, <1>5, <1>6, <1>7, <1>8, <1>9, <1>10, <1>11 DEF
       Next, Click, Answer, Start, Ends, Expire, Deferred

(* Reports of a command are delivered before the phase they would mislead. *)
LEMMA ReportingStep == SwitchInv /\ [Next]_vars => Reporting'
<1> SUFFICES ASSUME SwitchInv, [Next]_vars PROVE Reporting'
  OBVIOUS
<1> USE DEF SwitchInv, Alone, Reporting, daemon, observed, queries, commands,
        proton, switch, record
<1>a. Delivered => later \subseteq {<<"advance", "">>}
  BY DeliveredFacts DEF Typed
<1>1. ASSUME NEW l \in Locations, ConnectLocation(l) PROVE Reporting'
  BY <1>1, CommandFacts DEF ConnectLocation
<1>2. ASSUME NEW c \in Choices, ConnectProton(c) PROVE Reporting'
  BY <1>2, CommandFacts DEF ConnectProton, RunProton, Busy
<1>3. CASE DisconnectProton \/ Disconnect \/ RetryOrImport \/ CancelSwitch \/
          ConfirmSwitch \/ StartOther
  BY <1>3, CommandFacts DEF DisconnectProton, RunProton, Busy, Disconnect,
       RetryOrImport, CancelSwitch, ConfirmSwitch, StartOther
<1>4. CASE PollAnswers
  <2>1. later' \subseteq later \cup {<<"advance", "">>}
    BY <1>4 DEF PollAnswers
  <2> QED
    BY <1>4, <2>1 DEF PollAnswers
<1>5. CASE NmExits
  <2>1. later' \subseteq later \cup {<<"advance", "">>}
    BY <1>5 DEF NmExits, Observed
  <2> QED
    BY <1>5, <2>1 DEF NmExits
<1>6. CASE CliExits
  <2>1. later' \subseteq later \cup {<<"advance", "">>}
    BY <1>6 DEF CliExits, Observed
  <2> QED
    BY <1>6, <2>1 DEF CliExits
<1>7. CASE ActionSucceeds \/ ActionFails \/ PollFails \/ OtherExits
  BY <1>7 DEF ActionSucceeds, ActionFails, AbortSwitch, EndSwitch, PollFails,
       OtherExits
<1>8. CASE ProtonSucceeds \/ ProtonFails \/ ExpireProton
  <2>1. later \subseteq {<<"advance", "">>} /\ UNCHANGED phase
    BY <1>a, <1>8 DEF ProtonSucceeds, ProtonFails, ExpireProton
  <2>2. \E call : later' = later \cup {call}
    BY <1>8 DEF ProtonSucceeds, ProtonFails, ExpireProton, FinishProton
  <2>3. ~Running(pact')
    BY <1>8, CommandFacts DEF ProtonSucceeds, ProtonFails, ExpireProton
  <2> QED
    BY <2>1, <2>2, <2>3 DEF Running
<1>9. CASE ConfigExits \/ ExpireConfig
  <2>1. later \subseteq {<<"advance", "">>} /\ config = "running"
    BY <1>a, <1>9 DEF ConfigExits, ExpireConfig
  <2>2. UNCHANGED <<phase, pact>> /\ \E call : later' = later \cup {call}
    BY <1>9 DEF ConfigExits, ExpireConfig
  <2>3. ~Running(pact)
    BY <2>1, CommandFacts DEF Running
  <2> QED
    BY <2>1, <2>2, <2>3 DEF Running
<1>10. CASE Start \/ Ends
  BY <1>10, CommandFacts DEF Start, Refresh, StartNm, StartCli, Ends,
       AbandonedExits, ExpiredProtonExits, ExpiredConfigExits, Running
<1>11. CASE ExpireAction \/ ExpireStatus \/ ObservationsAge \/ SwitchDeadline
  BY <1>11 DEF ExpireAction, AbortSwitch, EndSwitch, ExpireStatus,
       ObservationsAge, SwitchDeadline
<1>12. CASE ProtonConnectDone
  BY <1>12 DEF ProtonConnectDone, EndSwitch
<1>13. CASE ProtonDisconnectDone
  BY <1>13 DEF ProtonDisconnectDone, AbortSwitch, EndSwitch
<1>14. CASE KillSwitchRead
  BY <1>14 DEF KillSwitchRead, AbortSwitch, EndSwitch
<1>15. CASE AdvanceSwitch
  BY <1>15, AdvanceCases DEF StartProton, StartWireGuard, AbortSwitch, EndSwitch
<1>16. CASE UNCHANGED vars
  BY <1>16 DEF vars
<1> QED
  BY <1>1, <1>2, <1>3, <1>4, <1>5, <1>6, <1>7, <1>8, <1>9, <1>10, <1>11,
       <1>12, <1>13, <1>14, <1>15, <1>16 DEF Next, Click, Answer, Start, Ends,
       Expire, Deferred

(* What a switch has seen was asked for after the command it is about.     *)
LEMMA GroundedStep == SwitchInv /\ [Next]_vars => Grounded'
<1> SUFFICES ASSUME SwitchInv, [Next]_vars PROVE Grounded'
  OBVIOUS
<1> USE DEF SwitchInv, Typed, QueriesTyped, Grounded, daemon, observed,
        queries, commands, proton, switch, record
<1>1. ASSUME NEW l \in Locations, ConnectLocation(l) PROVE Grounded'
  BY <1>1, QueryFacts DEF ConnectLocation, MayRun, RunAction, Busy
<1>2. ASSUME NEW c \in Choices, ConnectProton(c) PROVE Grounded'
  BY <1>2, QueryFacts DEF ConnectProton, RunProton, Busy
<1>3. CASE DisconnectProton \/ Disconnect \/ RetryOrImport \/ CancelSwitch \/
          ConfirmSwitch \/ StartOther
  BY <1>3, QueryFacts DEF DisconnectProton, RunProton, Busy, Disconnect,
       MayRun, RunAction, RetryOrImport, CancelSwitch, ConfirmSwitch,
       StartOther
<1>4. CASE ActionSucceeds
  BY <1>4, QueryFacts, CommandFacts DEF ActionSucceeds, Alone
<1>5. CASE ActionFails
  BY <1>5, QueryFacts, CommandFacts DEF ActionFails, AbortSwitch, EndSwitch,
       Alone
<1>6. CASE PollAnswers
  <2>1. PICK r \in Reports :
          /\ Learn(poll, "disabled", r.state = "disabled")
          /\ IF poll.current
             THEN status' = r /\ See("wg-wait", "status", TRUE)
             ELSE UNCHANGED <<status, seen>>
    BY <1>6 DEF PollAnswers, ApplyStatus
  <2>2. /\ poll' = NoQuery /\ later' \subseteq later \cup {<<"advance", "">>}
        /\ UNCHANGED <<nmQuery, cliQuery, phase, config>>
    BY <1>6 DEF PollAnswers
  <2>3. evidence \ {"disabled"} \subseteq evidence'
    BY <2>1 DEF Learn
  <2>4. phase # "wg-wait" => seen' = seen
    BY <2>1 DEF See
  <2>5. phase = "wg-wait" /\ "status" \in seen' /\ status'.state = "disabled" =>
          "disabled" \in evidence'
    BY <2>1 DEF Learn
  <2>6. phase = "proton-wait" => seen' \subseteq evidence'
    BY <2>3, <2>4 DEF Typed, SeenTyped
  <2> QED
    BY <2>2, <2>3, <2>4, <2>5, <2>6, QueryFacts
<1>7. CASE PollFails
  BY <1>7, QueryFacts DEF PollFails, Unknown
<1>8. CASE ProtonSucceeds
  BY <1>8, QueryFacts, CommandFacts DEF ProtonSucceeds, FinishProton, Alone,
       Typed, SeenTyped, CommandsTyped
<1>9. CASE ProtonFails
  BY <1>9, QueryFacts, CommandFacts DEF ProtonFails, FinishProton, Alone,
       Typed, SeenTyped, CommandsTyped
<1>10. CASE ConfigExits
  <2>1. PICK v \in {"off", "on", ""} :
          /\ later' = later \cup {<<"killSwitch", v>>}
          /\ Learn(Started, "off", v = "off")
    BY <1>10 DEF ConfigExits
  <2>2. config = "running" /\ UNCHANGED <<status, poll, nmQuery, cliQuery, phase, seen>>
    BY <1>10 DEF ConfigExits
  <2>3. phase \in {"", "ks-check"} /\ <<"killSwitch", "off">> \notin later
    BY <1>10, <2>2, DeliveredFacts DEF Alone, Typed, ConfigExits
  <2>4. phase = "ks-check" /\ v = "off" => "off" \in evidence'
    BY <2>1, QueryFacts DEF Learn
  <2> QED
    BY <2>1, <2>2, <2>3, <2>4
<1>11. CASE NmExits
  <2>1. PICK r \in NmReports \cup {NmUnknown} :
          /\ Learn(nmQuery, "gone", r.match = "none")
          /\ IF nmQuery.current THEN See("proton-wait", "gone", r.match = "none")
             ELSE UNCHANGED seen
    BY <1>11 DEF NmExits
  <2>2. /\ nmQuery' = NoQuery /\ later' \subseteq later \cup {<<"advance", "">>}
        /\ UNCHANGED <<status, poll, cliQuery, phase, config>>
    BY <1>11 DEF NmExits, Observed
  <2>3. evidence \ {"gone"} \subseteq evidence'
    BY <2>1 DEF Learn
  <2>4. phase # "proton-wait" => seen' = seen
    BY <2>1 DEF See
  <2>5. phase = "proton-wait" => seen' \subseteq evidence'
    BY <2>1 DEF Learn, See
  <2> QED
    BY <2>2, <2>3, <2>4, <2>5, QueryFacts
<1>12. CASE CliExits
  <2>1. PICK r \in {"connected", "disconnected", "unknown"} :
          /\ Learn(cliQuery, "disconnected", r = "disconnected")
          /\ IF cliQuery.current
             THEN See("proton-wait", "disconnected", r = "disconnected")
             ELSE UNCHANGED seen
    BY <1>12 DEF CliExits
  <2>2. /\ cliQuery' = NoQuery /\ later' \subseteq later \cup {<<"advance", "">>}
        /\ UNCHANGED <<status, poll, nmQuery, phase, config>>
    BY <1>12 DEF CliExits, Observed
  <2>3. evidence \ {"disconnected"} \subseteq evidence'
    BY <2>1 DEF Learn
  <2>4. phase # "proton-wait" => seen' = seen
    BY <2>1 DEF See
  <2>5. phase = "proton-wait" => seen' \subseteq evidence'
    BY <2>1 DEF Learn, See
  <2> QED
    BY <2>2, <2>3, <2>4, <2>5, QueryFacts
<1>13. CASE OtherExits
  BY <1>13, QueryFacts DEF OtherExits
<1>14. CASE Refresh
  BY <1>14, QueryFacts DEF Refresh
<1>15. CASE StartNm
  BY <1>15, QueryFacts DEF StartNm
<1>16. CASE StartCli
  BY <1>16, QueryFacts DEF StartCli
<1>17. CASE Ends
  BY <1>17, QueryFacts DEF Ends, AbandonedExits, ExpiredProtonExits,
       ExpiredConfigExits
<1>18. CASE ExpireAction
  BY <1>18, QueryFacts, CommandFacts DEF ExpireAction, AbortSwitch,
       EndSwitch, Alone
<1>19. CASE ExpireStatus
  BY <1>19, QueryFacts DEF ExpireStatus, Unknown, Typed, QueriesTyped
<1>20. CASE ExpireProton
  BY <1>20, QueryFacts, CommandFacts DEF ExpireProton, FinishProton, Alone,
       Typed, SeenTyped, CommandsTyped
<1>21. CASE ObservationsAge
  BY <1>21, QueryFacts DEF ObservationsAge
<1>22. CASE ExpireConfig
  <2>1. <<"killSwitch", "off">> \notin later'
    BY <1>22, DeliveredFacts DEF ExpireConfig, Typed
  <2> QED
    BY <1>22, <2>1, QueryFacts DEF ExpireConfig
<1>22b. CASE SwitchDeadline
  BY <1>22b, QueryFacts DEF SwitchDeadline, AbortSwitch, EndSwitch
<1>23. CASE ProtonConnectDone
  BY <1>23, QueryFacts DEF ProtonConnectDone, RefreshProton, EndSwitch
<1>24. CASE ProtonDisconnectDone
  BY <1>24, QueryFacts DEF ProtonDisconnectDone, RefreshProton, AbortSwitch,
       EndSwitch
<1>25. CASE KillSwitchRead
  BY <1>25, QueryFacts DEF KillSwitchRead, AbortSwitch, EndSwitch, RunProton,
       ProtonBusy
<1>26. CASE AdvanceSwitch
  <2>1. CASE phase = "wg-wait" /\ StartProton /\ UNCHANGED daemon /\ later' \subseteq later
    BY <2>1, QueryFacts DEF StartProton, RunProton, AbortSwitch, EndSwitch,
         Typed, QueriesTyped
  <2>2. CASE phase = "proton-wait" /\ StartWireGuard /\ UNCHANGED queries /\ later' \subseteq later
    BY <2>2, QueryFacts DEF StartWireGuard, RunAction, EndSwitch, Typed,
         QueriesTyped
  <2>3. CASE UNCHANGED <<daemon, queries, commands, switch>> /\ later' \subseteq later
    BY <2>3
  <2> QED
    BY <1>26, <2>1, <2>2, <2>3, AdvanceCases
<1>27. CASE UNCHANGED vars
  BY <1>27 DEF vars
<1> QED
  BY <1>1, <1>2, <1>3, <1>4, <1>5, <1>6, <1>7, <1>8, <1>9, <1>10, <1>11,
       <1>12, <1>13, <1>14, <1>15, <1>16, <1>17, <1>18, <1>19, <1>20, <1>21,
       <1>22, <1>23, <1>24, <1>25, <1>26, <1>27, <1>22b DEF Next, Click, Answer,
       Start, Ends, Expire, Deferred

(* A success that is still to be reported is the pending target's.         *)
LEMMA RecordableStep == SwitchInv /\ [Next]_vars => Recordable'
<1> SUFFICES ASSUME SwitchInv, [Next]_vars PROVE Recordable'
  OBVIOUS
<1> USE DEF SwitchInv, Recordable, Overtaken, daemon, observed, queries,
        commands, proton, switch, record
<1>1. ASSUME NEW l \in Locations, ConnectLocation(l) PROVE Recordable'
  BY <1>1, CommandFacts, TargetsDisjoint DEF ConnectLocation, RunAction
<1>2. ASSUME NEW c \in Choices, ConnectProton(c) PROVE Recordable'
  BY <1>2, CommandFacts, TargetsDisjoint DEF ConnectProton, RunProton
<1>3. CASE DisconnectProton
  <2>1. reached => reached'
    BY <1>3, Zenon DEF DisconnectProton, RunProton
  <2>2. pact = NoCommand /\ pact' = Command("disconnect", None)
        /\ UNCHANGED <<later, pending>>
    BY <1>3 DEF DisconnectProton, RunProton, Busy, ProtonBusy
  <2> QED
    BY <2>1, <2>2, CommandFacts
<1>4. CASE Disconnect \/ RetryOrImport \/ CancelSwitch \/ ConfirmSwitch \/
          StartOther
  BY <1>4, CommandFacts, TargetsDisjoint DEF Disconnect, RunAction,
       RetryOrImport, CancelSwitch, ConfirmSwitch, StartOther
<1>5. CASE PollAnswers
  <2>1. later' \subseteq later \cup {<<"advance", "">>}
    BY <1>5 DEF PollAnswers
  <2>2. pending' \in {pending, None} /\ (reached => reached')
    BY <1>5 DEF PollAnswers, Reach, ApplyStatus, CheckPending
  <2> QED
    BY <1>5, <2>1, <2>2, TargetsDisjoint DEF PollAnswers
<1>6. CASE NmExits
  <2>1. later' \subseteq later \cup {<<"advance", "">>}
    BY <1>6 DEF NmExits, Observed
  <2> QED
    BY <1>6, <2>1 DEF NmExits
<1>7. CASE CliExits
  <2>1. later' \subseteq later \cup {<<"advance", "">>}
    BY <1>7 DEF CliExits, Observed
  <2> QED
    BY <1>7, <2>1 DEF CliExits
<1>8. CASE ActionSucceeds \/ ActionFails \/ PollFails \/ ConfigExits \/
          OtherExits
  BY <1>8, CommandFacts, TargetsDisjoint DEF ActionSucceeds, Reach,
       ApplyStatus, CheckPending, ActionFails, AbortSwitch, EndSwitch,
       PollFails, ConfigExits, OtherExits
<1>8b. CASE ProtonSucceeds \/ ProtonFails \/ ExpireProton
  <2>1. <<"connect", "done">> \notin later
    BY <1>8b, DeliveredFacts DEF ProtonSucceeds, ProtonFails, ExpireProton,
         Typed
  <2>2. pact'.cmd # "connect" /\ UNCHANGED pending
    BY <1>8b, CommandFacts DEF ProtonSucceeds, ProtonFails, ExpireProton
  <2>3. ASSUME <<"connect", "done">> \in later', pending \in Choices
        PROVE  reached'
    <3>1. ProtonSucceeds /\ pact.cmd = "connect"
      <4>1. ASSUME NEW r \in Results, later' = later \cup {<<pact.cmd, r>>}
            PROVE  pact.cmd = "connect" /\ r = "done"
        BY <2>1, <2>3, <4>1
      <4>2. ProtonSucceeds
        BY <1>8b, <4>1 DEF ProtonFails, ExpireProton, FinishProton, Results
      <4> QED
        BY <4>1, <4>2 DEF ProtonSucceeds, FinishProton, Results
    <3>2. pact.to = pending
      BY <2>3, <3>1
    <3>3. ProtonSucceeds /\ pact.cmd = "connect" /\ pact.to = pending => reached'
      BY Zenon DEF ProtonSucceeds
    <3> QED
      BY <3>1, <3>2, <3>3
  <2> QED
    BY <2>2, <2>3
<1>9. CASE Start
  BY <1>9, CommandFacts, TargetsDisjoint DEF Start, Refresh, StartNm, StartCli
<1>10. CASE Ends
  BY <1>10, CommandFacts, TargetsDisjoint DEF Ends, AbandonedExits,
       ExpiredProtonExits, ExpiredConfigExits
<1>11. CASE ExpireAction \/ ExpireStatus \/ ExpireConfig \/
           ObservationsAge \/ SwitchDeadline
  BY <1>11, CommandFacts, TargetsDisjoint DEF ExpireAction,
       AbortSwitch, EndSwitch, ExpireStatus, ExpireConfig, ObservationsAge,
       SwitchDeadline
<1>12. CASE ProtonConnectDone
  BY <1>12, TargetsDisjoint DEF ProtonConnectDone
<1>13. CASE ProtonDisconnectDone
  BY <1>13, TargetsDisjoint DEF ProtonDisconnectDone, AbortSwitch
<1>14. CASE KillSwitchRead
  <2>1. pending' = None \/ UNCHANGED <<pact, pending, reached>>
        \/ /\ RunProton("disconnect", None) /\ pact = NoCommand
           /\ UNCHANGED pending
    BY <1>14 DEF KillSwitchRead, AbortSwitch, ProtonBusy
  <2>2. later' \subseteq later
    BY <1>14 DEF KillSwitchRead
  <2>3. RunProton("disconnect", None) =>
          pact' = Command("disconnect", None) /\ (reached => reached')
    BY Zenon DEF RunProton
  <2> QED
    BY <2>1, <2>2, <2>3, CommandFacts, TargetsDisjoint
<1>15. CASE AdvanceSwitch
  <2>1. CASE phase = "wg-wait" /\ StartProton /\ later' \subseteq later
    BY <2>1, CommandFacts, TargetsDisjoint DEF StartProton, RunProton,
         AbortSwitch
  <2>2. CASE phase = "proton-wait" /\ StartWireGuard /\ UNCHANGED commands /\ later' \subseteq later
    <3>1. pending' = target \/ UNCHANGED <<pending, reached>>
      BY <2>2, CommandFacts DEF StartWireGuard, RunAction, Alone
    <3>2. target \in Locations
      BY <2>2 DEF Aimed, ToWireGuard
    <3> QED
      BY <2>2, <3>1, <3>2, TargetsDisjoint
  <2>3. CASE UNCHANGED <<commands, pending, reached>> /\ later' \subseteq later
    BY <2>3
  <2> QED
    BY <1>15, <2>1, <2>2, <2>3, AdvanceCases
<1>16. CASE UNCHANGED vars
  BY <1>16 DEF vars
<1> QED
  BY <1>1, <1>2, <1>3, <1>4, <1>5, <1>6, <1>7, <1>8, <1>9, <1>10, <1>11,
       <1>12, <1>13, <1>14, <1>15, <1>16, <1>8b DEF Next, Click, Answer, Start,
       Ends, Expire, Deferred

-----------------------------------------------------------------------------
(* The invariant holds of every reachable state.                           *)
LEMMA SwitchInit == Init => SwitchInv
<1> SUFFICES ASSUME Init PROVE SwitchInv
  OBVIOUS
<1> USE QueryFacts, CommandFacts DEF Init
<1>1. CommandsTyped /\ QueriesTyped
  BY DEF CommandsTyped, QueriesTyped, Phases
<1>2. SeenTyped /\ LaterTyped /\ TargetsTyped
  BY DEF SeenTyped, LaterTyped, TargetsTyped
<1>3. Alone /\ Aimed /\ Reporting /\ Recordable
  BY TargetsDisjoint DEF Alone, Aimed, Reporting, Recordable, ToProton,
         ToWireGuard
<1>4. Grounded
  BY DEF Grounded
<1> QED
  BY <1>1, <1>2, <1>3, <1>4 DEF SwitchInv, Typed

(* In every behaviour of the panel commands, phases, targets, reports and  *)
(* evidence fit together, whatever the processes answer, and whenever.     *)
THEOREM SwitchCorrect == Spec => []SwitchInv
<1>1. SwitchInv /\ [Next]_vars => SwitchInv'
  BY CommandsStep, QueriesStep, SeenStep, LaterStep, TargetsStep, AloneStep,
     AimedStep, ReportingStep, GroundedStep, RecordableStep DEF SwitchInv, Typed
<1> QED
  BY SwitchInit, <1>1, PTL DEF Spec

(* Every variable keeps its type: in particular only commands, phases and  *)
(* reports that the handlers know are ever under way.                      *)
THEOREM Spec_TypeOK == Spec => []TypeOK
<1>1. ASSUME Typed PROVE TypeOK
  <2>1. /\ act \in [cmd : {"none", "stopped", "connect", "disconnect", "retry",
                           "import"}, to : Locations \cup {None}]
        /\ pact \in [cmd : {"none", "stopped", "connect", "disconnect"},
                     to : Choices \cup {None}]
    BY <1>1 DEF Typed, CommandsTyped, WireGuardCommands, ProtonCommands,
           Command, NoCommand, Stopped
  <2>2. {poll, nmQuery, cliQuery} \subseteq
          [runs : BOOLEAN, current : BOOLEAN, since : BOOLEAN]
    BY <1>1 DEF Typed, QueriesTyped, Queries
  <2>3. later \subseteq ({"connect", "disconnect"} \X {"done", "failed"}) \cup
          ({"killSwitch"} \X {"off", "on", ""}) \cup
          {<<"advance", "">>}
    BY <1>1 DEF Typed, LaterTyped, Calls, Results, Settings
  <2>4. {request, target, pending, recorded, wanted} \subseteq Targets \cup {None}
    BY <1>1 DEF Typed, TargetsTyped
  <2> QED
    BY <1>1, <2>1, <2>2, <2>3, <2>4 DEF TypeOK, Typed, CommandsTyped, Phases,
           SeenTyped, Facts
<1> QED
  BY SwitchCorrect, <1>1, PTL DEF SwitchInv

(* At most one of the two commands and the read of the kill switch has a   *)
(* process, stopped ones included: busy covers every way to start one.     *)
THEOREM Spec_OneCommand == Spec => []OneCommand
<1>1. ASSUME Alone PROVE OneCommand
  <2> DEFINE S == {x \in {"act", "pact", "config"} :
                     CASE x = "act" -> act # NoCommand
                       [] x = "pact" -> pact # NoCommand
                       [] OTHER -> config # "idle"}
  <2>1. S = {} \/ \E x : S = {x}
    <3>1. CASE act # NoCommand
      <4>1. S = {"act"}
        BY <1>1, <3>1 DEF Alone
      <4> QED
        BY <4>1
    <3>2. CASE act = NoCommand /\ pact # NoCommand
      <4>1. S = {"pact"}
        BY <1>1, <3>2 DEF Alone
      <4> QED
        BY <4>1
    <3>3. CASE act = NoCommand /\ pact = NoCommand
      <4>1. S \subseteq {"config"}
        BY <3>3
      <4> QED
        BY <4>1
    <3> QED
      BY <3>1, <3>2, <3>3
  <2> HIDE DEF S
  <2>2. ASSUME S = {} PROVE Cardinality(S) <= 1
    BY <2>2, FS_EmptySet
  <2>3. ASSUME NEW x, S = {x} PROVE Cardinality(S) <= 1
    BY <2>3, FS_Singleton
  <2>4. Cardinality(S) <= 1
    BY <2>1, <2>2, <2>3
  <2> QED
    BY <2>4 DEF OneCommand, S
<1> QED
  BY SwitchCorrect, <1>1, PTL DEF SwitchInv

-----------------------------------------------------------------------------
(* How a connect of the daemon starts: by a click while no switch is in    *)
(* progress, or at the end of one.                                         *)
LEMMA WireGuardStarts ==
  SwitchInv /\ [Next]_vars /\ StartsWireGuard =>
    \/ Click /\ phase = ""
    \/ /\ phase = "proton-wait" /\ ProtonReleased
       /\ act'.to = target
<1> DEFINE Begun == \/ Click /\ phase = ""
                    \/ /\ phase = "proton-wait" /\ ProtonReleased
                       /\ act'.to = target
<1> SUFFICES ASSUME SwitchInv, [Next]_vars, StartsWireGuard PROVE Begun
  OBVIOUS
<1> USE DEF StartsWireGuard, daemon
<1>1. ASSUME NEW l \in Locations, ConnectLocation(l) PROVE Begun
  BY <1>1 DEF ConnectLocation, MayRun, Busy, Click
<1>2. ASSUME NEW c \in Choices, ConnectProton(c) PROVE Begun
  BY <1>2 DEF ConnectProton
<1>3. CASE Disconnect \/ RetryOrImport
  BY <1>3 DEF Disconnect, RetryOrImport, MayRun, Busy, Click
<1>4. CASE ConfirmSwitch
  BY <1>4 DEF ConfirmSwitch, Busy, Click
<1>5. CASE DisconnectProton \/ CancelSwitch \/ StartOther
  BY <1>5 DEF DisconnectProton, CancelSwitch, StartOther
<1>6. CASE Answer
  BY <1>6, CommandFacts DEF Answer, ActionSucceeds, ActionFails, PollAnswers,
         PollFails, ProtonSucceeds, ProtonFails, ConfigExits, NmExits,
         CliExits, OtherExits
<1>7. CASE Start \/ Ends
  BY <1>7, CommandFacts DEF Start, Ends, Refresh, StartNm, StartCli,
         AbandonedExits, ExpiredProtonExits, ExpiredConfigExits
<1>8. CASE Expire
  BY <1>8, CommandFacts DEF Expire, ExpireAction, ExpireStatus, ExpireProton,
         ExpireConfig, ObservationsAge, SwitchDeadline
<1>9. CASE ProtonConnectDone \/ ProtonDisconnectDone \/ KillSwitchRead
  BY <1>9 DEF ProtonConnectDone, ProtonDisconnectDone, KillSwitchRead
<1>10. CASE AdvanceSwitch
  <2>1. \/ UNCHANGED act
        \/ /\ phase = "proton-wait" /\ ProtonReleased
           /\ act' = Command("connect", target)
    BY <1>10, AdvanceCases DEF StartWireGuard, RunAction
  <2>2. Command("connect", target).to = target
    BY CommandFacts
  <2> QED
    BY <2>1, <2>2
<1>11. CASE UNCHANGED vars
  BY <1>11 DEF vars
<1> QED
  BY <1>1, <1>2, <1>3, <1>4, <1>5, <1>6, <1>7, <1>8, <1>9, <1>10, <1>11
     DEF Next, Click, Deferred

(* How a connect of Proton starts.                                         *)
LEMMA ProtonStarts ==
  SwitchInv /\ [Next]_vars /\ StartsProton =>
    \/ Click /\ phase = ""
    \/ /\ phase = "wg-wait" /\ WireGuardReleased
       /\ pact'.to = target
<1> DEFINE Begun == \/ Click /\ phase = ""
                    \/ /\ phase = "wg-wait" /\ WireGuardReleased
                       /\ pact'.to = target
<1> SUFFICES ASSUME SwitchInv, [Next]_vars, StartsProton PROVE Begun
  OBVIOUS
<1> USE DEF StartsProton, proton, commands
<1>1. ASSUME NEW l \in Locations, ConnectLocation(l) PROVE Begun
  BY <1>1 DEF ConnectLocation
<1>2. ASSUME NEW c \in Choices, ConnectProton(c) PROVE Begun
  BY <1>2 DEF ConnectProton, Busy, Click
<1>3. CASE DisconnectProton
  BY <1>3 DEF DisconnectProton, Busy, Click
<1>4. CASE Disconnect \/ RetryOrImport \/ ConfirmSwitch \/ CancelSwitch \/
           StartOther
  BY <1>4 DEF Disconnect, RetryOrImport, ConfirmSwitch, CancelSwitch, StartOther
<1>5. CASE Answer
  BY <1>5, CommandFacts DEF Answer, ActionSucceeds, ActionFails, PollAnswers,
         PollFails, ProtonSucceeds, ProtonFails, ConfigExits, NmExits,
         CliExits, OtherExits
<1>6. CASE Start \/ Ends
  BY <1>6, CommandFacts DEF Start, Ends, Refresh, StartNm, StartCli,
         AbandonedExits, ExpiredProtonExits, ExpiredConfigExits
<1>7. CASE Expire
  BY <1>7, CommandFacts DEF Expire, ExpireAction, ExpireStatus, ExpireProton,
         ExpireConfig, ObservationsAge, SwitchDeadline
<1>8. CASE ProtonConnectDone \/ ProtonDisconnectDone
  BY <1>8 DEF ProtonConnectDone, ProtonDisconnectDone
<1>9. CASE KillSwitchRead
  <2>1. UNCHANGED pact \/ pact' = Command("disconnect", None)
    BY <1>9 DEF KillSwitchRead, RunProton
  <2>2. Command("disconnect", None).cmd = "disconnect"
    BY CommandFacts
  <2> QED
    BY <2>1, <2>2
<1>10. CASE AdvanceSwitch
  <2>1. \/ UNCHANGED pact
        \/ /\ phase = "wg-wait" /\ WireGuardReleased
           /\ pact' = Command("connect", target)
    BY <1>10, AdvanceCases DEF StartProton, RunProton
  <2>2. Command("connect", target).to = target
    BY CommandFacts
  <2> QED
    BY <2>1, <2>2
<1>11. CASE UNCHANGED vars
  BY <1>11 DEF vars
<1> QED
  BY <1>1, <1>2, <1>3, <1>4, <1>5, <1>6, <1>7, <1>8, <1>9, <1>10, <1>11
     DEF Next, Click, Deferred

(* How a disconnect of Proton starts.                                      *)
LEMMA ProtonIsTakenDown ==
  SwitchInv /\ [Next]_vars /\ pact.cmd # "disconnect"
            /\ pact'.cmd = "disconnect" =>
    Click \/ phase = "ks-check"
<1> SUFFICES ASSUME SwitchInv, [Next]_vars, pact.cmd # "disconnect",
                    pact'.cmd = "disconnect"
             PROVE  Click \/ phase = "ks-check"
  OBVIOUS
<1> USE DEF proton, commands
<1>1. CASE Click
  BY <1>1 DEF Click, ConnectLocation, ConnectProton, DisconnectProton,
         Disconnect, RetryOrImport, CancelSwitch, ConfirmSwitch, StartOther
<1>2. CASE Answer
  BY <1>2, CommandFacts DEF Answer, ActionSucceeds, ActionFails, PollAnswers,
         PollFails, ProtonSucceeds, ProtonFails, ConfigExits, NmExits,
         CliExits, OtherExits
<1>3. CASE Start \/ Ends
  BY <1>3, CommandFacts DEF Start, Ends, Refresh, StartNm, StartCli,
         AbandonedExits, ExpiredProtonExits, ExpiredConfigExits
<1>4. CASE Expire
  BY <1>4, CommandFacts DEF Expire, ExpireAction, ExpireStatus, ExpireProton,
         ExpireConfig, ObservationsAge, SwitchDeadline
<1>5. CASE ProtonConnectDone \/ ProtonDisconnectDone \/ KillSwitchRead
  BY <1>5 DEF ProtonConnectDone, ProtonDisconnectDone, KillSwitchRead
<1>6. CASE AdvanceSwitch
  BY <1>6, CommandFacts, AdvanceCases DEF StartProton, RunProton
<1>7. CASE UNCHANGED vars
  BY <1>7 DEF vars
<1> QED
  BY <1>1, <1>2, <1>3, <1>4, <1>5, <1>6, <1>7 DEF Next, Deferred

-----------------------------------------------------------------------------
(* A switch starts Proton on evidence: the daemon was reported disabled by *)
(* a poll that began after the disconnect had ended.                       *)
THEOREM Spec_ProtonAfterRelease == Spec => ProtonAfterRelease
<1>1. SwitchInv /\ [Next]_vars =>
        [StartsProton /\ phase # "" => "disabled" \in evidence]_vars
  BY ProtonStarts DEF SwitchInv, Grounded, WireGuardReleased
<1> QED
  BY SwitchCorrect, <1>1, PTL DEF Spec, ProtonAfterRelease

(* A switch starts WireGuard on evidence: kill switch off, and no Proton   *)
(* connection for NetworkManager and for protonvpn, both asked after the   *)
(* disconnect had ended.                                                   *)
THEOREM Spec_WireGuardAfterProton == Spec => WireGuardAfterProton
<1>1. SwitchInv /\ [Next]_vars =>
        [StartsWireGuard /\ phase # "" =>
           {"off", "gone", "disconnected"} \subseteq evidence]_vars
  BY WireGuardStarts DEF SwitchInv, Grounded, ProtonReleased
<1> QED
  BY SwitchCorrect, <1>1, PTL DEF Spec, WireGuardAfterProton

(* Exits, expiries and deferred calls start nothing but what the switch    *)
(* that was confirmed last, and not stopped since, is for.                 *)
THEOREM Spec_LateStartsNothing == Spec => LateStartsNothing
<1>1. ASSUME SwitchInv, [Next]_vars, ~Click
      PROVE  /\ StartsWireGuard => wanted = act'.to
             /\ StartsProton => wanted = pact'.to
             /\ pact.cmd # "disconnect" /\ pact'.cmd = "disconnect"
                  => wanted \in Locations
  <2>1. phase # "" => wanted = target
    BY <1>1 DEF SwitchInv, Aimed
  <2>2. StartsWireGuard => wanted = act'.to
    BY <1>1, <2>1, WireGuardStarts
  <2>3. StartsProton => wanted = pact'.to
    BY <1>1, <2>1, ProtonStarts
  <2>4. pact.cmd # "disconnect" /\ pact'.cmd = "disconnect" =>
          wanted \in Locations
    BY <1>1, <2>1, ProtonIsTakenDown DEF SwitchInv, Aimed, ToWireGuard
  <2> QED
    BY <2>2, <2>3, <2>4
<1>2. SwitchInv /\ [Next]_vars =>
        [~Click =>
           /\ StartsWireGuard => wanted = act'.to
           /\ StartsProton => wanted = pact'.to
           /\ pact.cmd # "disconnect" /\ pact'.cmd = "disconnect"
                => wanted \in Locations]_vars
  BY <1>1
<1> QED
  BY SwitchCorrect, <1>2, PTL DEF Spec, LateStartsNothing

(* What is recorded for the quick button was reached since it is pending,  *)
(* or its own command has overtaken the report of the one before.          *)
THEOREM Spec_RecordedUnlessOvertaken == Spec => RecordedUnlessOvertaken
<1>1. ASSUME SwitchInv, [Next]_vars, recorded' # None, ~UNCHANGED vars
      PROVE  recorded' = pending /\ (reached' \/ Overtaken)
  <2> USE <1>1 DEF daemon, proton, record
  <2>1. CASE Click
    BY <2>1 DEF Click, ConnectLocation, ConnectProton, DisconnectProton,
           Disconnect, RetryOrImport, CancelSwitch, ConfirmSwitch, StartOther
  <2>2. CASE ActionSucceeds
    BY <2>2 DEF ActionSucceeds, ApplyStatus, CheckPending, Reach
  <2>3. CASE PollAnswers
    BY <2>3 DEF PollAnswers, ApplyStatus, CheckPending, Reach, SwitchInv,
           Grounded
  <2>4. CASE ActionFails \/ PollFails \/ ProtonSucceeds \/ ProtonFails \/
             ConfigExits \/ NmExits \/ CliExits \/ OtherExits
    BY <2>4 DEF ActionFails, PollFails, ProtonSucceeds, ProtonFails,
           ConfigExits, NmExits, CliExits, OtherExits
  <2>5. CASE Start \/ Ends
    BY <2>5 DEF Start, Ends, Refresh, StartNm, StartCli,
           AbandonedExits, ExpiredProtonExits, ExpiredConfigExits
  <2>6. CASE Expire
    BY <2>6 DEF Expire, ExpireAction, ExpireStatus, ExpireProton,
           ExpireConfig, ObservationsAge, SwitchDeadline
  <2>7. CASE ProtonConnectDone
    <3>1. PICK result \in {"done", "failed"} :
            /\ <<"connect", result>> \in later
            /\ pending \in Choices /\ result = "done" /\ recorded' = pending
            /\ UNCHANGED reached
      BY <2>7 DEF ProtonConnectDone
    <3> QED
      BY <3>1 DEF SwitchInv, Recordable
  <2>8. CASE ProtonDisconnectDone \/ KillSwitchRead
    BY <2>8 DEF ProtonDisconnectDone, KillSwitchRead
  <2>9. CASE AdvanceSwitch
    BY <2>9, AdvanceCases
  <2> QED
    BY <1>1, <2>1, <2>2, <2>3, <2>4, <2>5, <2>6, <2>7, <2>8, <2>9
       DEF Next, Answer, Deferred
<1>2. SwitchInv /\ [Next]_vars =>
        [recorded' # None => recorded' = pending /\ (reached' \/ Overtaken)]_vars
  BY <1>1
<1> QED
  BY SwitchCorrect, <1>2, PTL DEF Spec, RecordedUnlessOvertaken

-----------------------------------------------------------------------------
(***************************************************************************)
(* Why a hung panel takes commands again.  Wait says how far off that is:  *)
(* a phase costs the commands that the switch can still start, a command   *)
(* its end and, if it has to be stopped, its exit.                         *)
(***************************************************************************)
ActWait == IF act = NoCommand THEN 0 ELSE IF act = Stopped THEN 1 ELSE 2

ProtonWait == IF pact = NoCommand THEN 0 ELSE IF pact = Stopped THEN 1 ELSE 2

ConfigWait ==
  IF config = "idle" THEN 0 ELSE IF config = "dying" THEN 1 ELSE 2

ToProtonWait ==
  IF phase = "wg-disconnect" THEN 5
  ELSE IF phase = "wg-wait" THEN 4
  ELSE IF phase = "proton-connect" THEN 1 ELSE 0

ToWireGuardWait ==
  IF phase = "ks-check" THEN 7
  ELSE IF phase = "proton-disconnect" THEN 4
  ELSE IF phase = "proton-wait" THEN 3 ELSE 0

Wait == ToProtonWait + ToWireGuardWait + ActWait + ProtonWait + ConfigWait

\* What ends, stops or replaces a command, or changes the phase of a hung
\* panel, brings the end of its waiting nearer.
Shrinking ==
  Hung => Wait' < Wait \/ UNCHANGED <<act, pact, config, phase>>

Switching == ToProton \cup ToWireGuard

(* A phase other than "" is one of a switch.                               *)
LEMMA SwitchingFacts ==
  /\ "" \notin Switching
  /\ \A p \in Phases : p = "" \/ p \in Switching
BY Zenon DEF Switching, ToProton, ToWireGuard, Phases

(* A command that ends or is stopped, and what it does to a switch.        *)
LEMMA ActEnds ==
  ASSUME \/ Running(act) /\ act' \in {NoCommand, Stopped}
         \/ act = Stopped /\ act' = NoCommand,
         UNCHANGED <<pact, config>>,
         \/ phase' = phase \/ phase' \notin Switching
         \/ phase = "wg-disconnect" /\ phase' = "wg-wait"
  PROVE  Wait' < Wait
<1> USE CommandFacts DEF Wait, ToProtonWait, ToWireGuardWait, ActWait,
        ProtonWait, ConfigWait, Running, Switching, ToProton, ToWireGuard
<1>1. CASE phase' = phase
  BY <1>1
<1>2. CASE phase' \notin Switching
  BY <1>2
<1>3. CASE phase = "wg-disconnect" /\ phase' = "wg-wait"
  BY <1>3
<1> QED
  BY <1>1, <1>2, <1>3

LEMMA ProtonEnds ==
  ASSUME \/ Running(pact) /\ pact' \in {NoCommand, Stopped}
         \/ pact = Stopped /\ pact' = NoCommand,
         UNCHANGED <<act, config, phase>>
  PROVE  Wait' < Wait
BY CommandFacts DEF Wait, ToProtonWait, ToWireGuardWait, ActWait, ProtonWait,
     ConfigWait, Running

LEMMA ConfigEnds ==
  ASSUME \/ config = "running" /\ config' \in {"dying", "idle"}
         \/ config = "dying" /\ config' = "idle",
         UNCHANGED <<act, pact, phase>>
  PROVE  Wait' < Wait
BY CommandFacts DEF Wait, ToProtonWait, ToWireGuardWait, ActWait, ProtonWait,
     ConfigWait

(* A phase that ends or passes on to the next one, with a command or none. *)
LEMMA PhaseEnds ==
  ASSUME phase \in Switching, phase' \notin Switching,
         UNCHANGED <<act, pact, config>>
  PROVE  Wait' < Wait
<1>1. /\ ToProtonWait' = 0 /\ ToWireGuardWait' = 0
      /\ ToProtonWait \in 0..5 /\ ToWireGuardWait \in 0..7
      /\ ToProtonWait > 0 \/ ToWireGuardWait > 0
  BY DEF ToProtonWait, ToWireGuardWait, Switching, ToProton, ToWireGuard
<1>2. /\ ActWait' = ActWait /\ ActWait \in 0..2
      /\ ProtonWait' = ProtonWait /\ ProtonWait \in 0..2
      /\ ConfigWait' = ConfigWait /\ ConfigWait \in 0..2
  BY DEF ActWait, ProtonWait, ConfigWait
<1> QED
  BY <1>1, <1>2 DEF Wait

LEMMA PhasePasses ==
  ASSUME UNCHANGED config,
         \/ phase = "wg-wait" /\ phase' = "proton-connect" /\ UNCHANGED act
         \/ phase = "ks-check" /\ phase' = "proton-disconnect" /\ UNCHANGED act
         \/ /\ phase = "proton-disconnect" /\ phase' = "proton-wait"
            /\ UNCHANGED <<act, pact>>
         \/ phase = "proton-wait" /\ phase' \notin Switching /\ UNCHANGED pact
  PROVE  Wait' < Wait
<1> USE CommandFacts DEF Wait, ToProtonWait, ToWireGuardWait, ActWait,
        ProtonWait, ConfigWait, Switching, ToProton, ToWireGuard
<1>1. CASE phase = "wg-wait" /\ phase' = "proton-connect" /\ UNCHANGED act
  BY <1>1
<1>2. CASE phase = "ks-check" /\ phase' = "proton-disconnect" /\ UNCHANGED act
  BY <1>2
<1>3. CASE /\ phase = "proton-disconnect" /\ phase' = "proton-wait"
           /\ UNCHANGED <<act, pact>>
  BY <1>3
<1>4. CASE phase = "proton-wait" /\ phase' \notin Switching /\ UNCHANGED pact
  BY <1>4
<1> QED
  BY <1>1, <1>2, <1>3, <1>4

(* Every step of a hung panel.                                             *)
LEMMA WaitStep == SwitchInv /\ [Next]_vars => [Shrinking]_vars
<1> SUFFICES ASSUME SwitchInv, Next, Hung,
                    ~UNCHANGED <<act, pact, config, phase>>
             PROVE  Wait' < Wait
  BY DEF Shrinking, vars
<1> USE DEF daemon, commands, proton, switch
<1>1. phase = "" \/ phase \in Switching
  BY SwitchingFacts DEF SwitchInv, Typed, CommandsTyped
<1>2. ~Click
  BY DEF Click, ConnectLocation, ConnectProton, DisconnectProton, Disconnect,
     RetryOrImport, CancelSwitch, ConfirmSwitch, StartOther, MayRun, Busy, Hung
<1>3. ~Start
  BY DEF Start, Refresh, StartNm, StartCli
<1>4. ~PollAnswers /\ ~PollFails /\ ~NmExits /\ ~CliExits /\ ~OtherExits
  BY DEF PollAnswers, PollFails, NmExits, CliExits, OtherExits
<1>5. ~ExpireStatus /\ ~ObservationsAge
  BY DEF ExpireStatus, ObservationsAge
<1>6. CASE ActionSucceeds \/ ActionFails \/ ExpireAction \/ AbandonedExits
  BY <1>6, ActEnds, SwitchingFacts DEF ActionSucceeds, ActionFails, ExpireAction,
     AbandonedExits, AbortSwitch, EndSwitch
<1>7. CASE ProtonSucceeds \/ ProtonFails \/ ExpireProton \/ ExpiredProtonExits
  BY <1>7, ProtonEnds DEF ProtonSucceeds, ProtonFails, ExpireProton,
     ExpiredProtonExits
<1>8. CASE ConfigExits \/ ExpireConfig \/ ExpiredConfigExits
  BY <1>8, ConfigEnds DEF ConfigExits, ExpireConfig, ExpiredConfigExits
<1>9. CASE SwitchDeadline
  BY <1>1, <1>9, PhaseEnds, SwitchingFacts DEF SwitchDeadline, AbortSwitch, EndSwitch
<1>10. CASE ProtonConnectDone
  BY <1>1, <1>10, PhaseEnds, SwitchingFacts DEF ProtonConnectDone, EndSwitch
<1>11. CASE ProtonDisconnectDone
  BY <1>1, <1>11, PhaseEnds, PhasePasses, SwitchingFacts DEF ProtonDisconnectDone, AbortSwitch,
     EndSwitch
<1>12. CASE KillSwitchRead
  BY <1>1, <1>12, PhaseEnds, PhasePasses, SwitchingFacts DEF KillSwitchRead, AbortSwitch,
     EndSwitch, RunProton
<1>13. CASE AdvanceSwitch
  <2>1. CASE phase = "wg-wait" /\ StartProton /\ UNCHANGED daemon
    BY <1>1, <2>1, PhaseEnds, PhasePasses, SwitchingFacts DEF StartProton, AbortSwitch,
       EndSwitch, RunProton
  <2>2. CASE phase = "proton-wait" /\ StartWireGuard /\ UNCHANGED commands
    BY <2>2, PhasePasses, SwitchingFacts DEF StartWireGuard, EndSwitch
  <2> QED
    BY <1>13, <2>1, <2>2, AdvanceCases
<1> QED
  BY <1>2, <1>3, <1>4, <1>5, <1>6, <1>7, <1>8, <1>9, <1>10, <1>11, <1>12,
     <1>13 DEF Next, Answer, Ends, Expire, Deferred

(* A panel that takes no commands is at most nine endings away from taking *)
(* them again, and starts nothing by which it gets further off: neither a  *)
(* switch nor a late answer keeps it busy for ever.  That one of these     *)
(* endings comes is what NeverWedged adds.                                 *)
THEOREM Spec_WaitShrinks ==
  Spec => [](Wait \in 0..9 /\ (Hung <=> Wait # 0)) /\ [][Shrinking]_vars
<1>1. SwitchInv => Wait \in 0..9 /\ (Hung <=> Wait # 0)
  <2> SUFFICES ASSUME SwitchInv
               PROVE  Wait \in 0..9 /\ (Hung <=> Wait # 0)
    OBVIOUS
  <2>1. phase \in Switching <=> phase # ""
    BY SwitchingFacts DEF SwitchInv, Typed, CommandsTyped
  <2>2. /\ ToProtonWait \in Int /\ ToWireGuardWait \in Int
        /\ ToProtonWait + ToWireGuardWait \in 0..7
        /\ ToProtonWait + ToWireGuardWait > 0 <=> phase \in Switching
    BY DEF ToProtonWait, ToWireGuardWait, Switching, ToProton, ToWireGuard
  <2>3. ConfigWait \in 0..2 /\ (ConfigWait = 0 <=> config = "idle")
    BY DEF SwitchInv, Typed, CommandsTyped, ConfigWait
  <2>4. ActWait \in 0..2 /\ (ActWait = 0 <=> act = NoCommand)
    BY CommandFacts DEF ActWait
  <2>5. ProtonWait \in 0..2 /\ (ProtonWait = 0 <=> pact = NoCommand)
    BY CommandFacts DEF ProtonWait
  <2>6. /\ act # NoCommand => pact = NoCommand /\ config = "idle"
        /\ pact # NoCommand => config = "idle"
    BY DEF SwitchInv, Alone
  <2>7. ActWait + ProtonWait + ConfigWait \in 0..2
    BY <2>3, <2>4, <2>5, <2>6
  <2>8. Hung <=> \/ phase \in Switching \/ act # NoCommand
                 \/ pact # NoCommand \/ config # "idle"
    BY <2>1 DEF Hung, ProtonBusy
  <2>9. Wait \in 0..9
    BY <2>2, <2>3, <2>4, <2>5, <2>7 DEF Wait
  <2>10. Wait = 0 <=> /\ ToProtonWait + ToWireGuardWait = 0
                      /\ ActWait = 0 /\ ProtonWait = 0 /\ ConfigWait = 0
    BY <2>2, <2>3, <2>4, <2>5 DEF Wait
  <2>11. Wait = 0 <=> /\ phase \notin Switching /\ act = NoCommand
                      /\ pact = NoCommand /\ config = "idle"
    BY <2>2, <2>3, <2>4, <2>5, <2>10
  <2> QED
    BY <2>8, <2>9, <2>11
<1> QED
  BY <1>1, WaitStep, SwitchCorrect, PTL DEF Spec
=============================================================================
