# Verification of omarchy-wireguard

TLA+ models of the program in this repository, the TLC configurations that
check them on small instances, and proofs checked by TLAPS.

## 1. The system

Traffic of an Omarchy desktop is forced through a WireGuard tunnel. An
unprivileged panel plugin talks over a Unix socket to a root daemon, and the
daemon drives NetworkManager (`nmcli`), nftables (`nft`) and systemd-resolved
(`resolvectl`). A oneshot unit decides about the firewall before the network
comes up, and a CLI contains the lifecycle commands (install, emergency
disable, uninstall).

| component | source | state | operations |
| --- | --- | --- | --- |
| controller | `backend/.../controller.py` | mode, intent (`enabled`, `target`, `mru`), session (`current`, `interface`, `firewall_context`), schedule (`retry_at`, `pause_until`), DNS tracking (`dns_restore`, `bootstrap_interfaces`) | `boot`, `tick`, `emergency`, `connect`, `disconnect`, `pause`, `retry`, `import_profiles`; `status`, `list`, `diagnostics` only read |
| daemon loop | `backend/.../daemon.py` | none of its own | `serve`, `_handle_connection`, `reconcile_early_firewall` |
| state files | `backend/.../storage.py` | `state.json`, `dns.json`, `profiles.json`, `network.json`, `notification.json` | atomic `write` (rename, then directory sync), `read` |
| host commands | `backend/.../system.py` | the machine: nftables table, NetworkManager profiles and connections, DNS routing per link | apply, quarantine, remove, inspect, capture, configure, restore, activate, deactivate, import, verify |
| policy rendering | `backend/.../nftables.py` | none | `render`, `render_quarantine`, comparison with the observed ruleset |
| importer | `backend/.../importer.py` | none | archive and profile validation |
| protocol | `backend/.../protocol.py` | none | framing of one request, peer credentials |
| early unit | `packaging/systemd/*` | none | ordering: early firewall, NetworkManager, daemon |
| lifecycle CLI | `bin/omarchy-wireguard`, `scripts/*` | installed files, owned profiles | emergency disable, uninstall, install with rollback |
| switch coordinator | `plugin/Service.qml`, `plugin/Model.js` | last status, pending connection, running processes | poll, connect, disconnect, pause, switch between VPNs |
| Proton coordination | `plugin/ProtonService.qml`, `plugin/Proton.js` | state of the other VPN's CLI | status, connect, disconnect with timeouts |
| small services | `plugin/TrafficService.qml`, `plugin/last_connection.py`, ... | generation counters, a writer queue | sampling, recording |
| user interface | `plugin/BarWidget.qml` | layout | input |

How they interact. The daemon is one thread: `selector.select(timeout=2)`, at
most one request per wake-up from an accepted connection, then `tick()`. A
request and a tick never overlap; what overlaps is the *host*: every command
is a process that can fail before, in the middle of or after its effect, the
network changes between two commands, the daemon can be killed and the machine
can lose power between any two of them. Two kinds of exception end handlers
and are treated differently: `SystemFailure` (a command failed) and everything
else, `OSError` of a file write above all. Cleanup code runs inside `except`
and `finally` clauses and can itself raise. That is where this program is
hard, and where the core model has its detail.

What makes the components correct:

* **controller**: an intent is never without its barrier, but by pause and
  disconnect; nothing the backend does to DNS is irreversible; a failed
  handler leaves a state in which the next tick or request does the right
  thing; connected means what the user asked for.
* **daemon loop**: no exception stops the loop or skips the isolation.
* **early unit**: what an interrupted daemon left on disk is enough to decide.
* **import**: the catalog and NetworkManager agree, or the answer says not.
* **lifecycle CLI**: a partial emergency disable does not come back as an
  enabled machine without a barrier, or as a blocked one without a way out.
* **policy rendering**: the order of the rules keeps what the daemon's states
  promise, for this machine and for the guests it forwards for.
* **protocol**: one client cannot hold up the loop, and no descriptor that a
  client sends is lost or closed twice.
* **switch coordinator**: late answers never revive an abandoned switch.
* **small services**: the last record reaches the file last, and a rate is
  never computed from two interfaces.

## 2. Modules

| module | models | extends |
| --- | --- | --- |
| `Host` | the machine as commands leave it: nftables table, routing of each link, outcomes of failing commands | - |
| `Policy` | the two chains that are rendered for a table of `Host`, rule by rule, and what a packet may do | `Host` |
| `Controller` | the daemon: handlers of `controller.py`, loop and exception policy of `daemon.py`, `state.json` and `dns.json`, early unit, power loss | `Host` |
| `Protection` | the abstract service: what is reported, wanted, stored and let through, without the daemon's steps | - |
| `ControllerProperties` | what the daemon guarantees, and the refinement mapping to `Protection` | `Controller`, `Policy` |
| `ControllerStateProofs`, `ControllerSessionProofs`, `ControllerProtectionProofs` | proofs, each on the ones before | `ControllerProperties` |
| `EmergencyDisable` | `bin/omarchy-wireguard emergency-disable` as a second process beside the daemon and the machine | `ControllerProperties` |
| `EmergencyDisableProperties`, `EmergencyDisableProofs` | its guarantees and their proofs | the two above |
| `Import` | `import_profiles` with the catalog, the policy file and NetworkManager's profiles | - |
| `ImportProperties`, `ImportProofs` | its guarantees and their proofs | `Import` |
| `Socket` | the control socket with its clients: accept, read, handle, answer | - |
| `SocketProperties`, `SocketProofs` | its guarantees and their proofs | `Socket` |
| `Switch` | the panel's coordinator of the two VPNs | - |
| `SwitchProperties`, `SwitchProofs` | its guarantees and their proofs | `Switch` |
| `Recorder` | the writer and the reader of the last connection | - |
| `Traffic` | the traffic display and its reader | - |
| `PanelServices`, `PanelServicesProofs` | both in one event loop, what they guarantee, and the proofs | `Recorder`, `Traffic` |
| `MC...` | the constants of the TLC runs | the properties |

### Controller

A handler of the daemon is a sequence of host commands, each of which can fail
in a way the code observes, so a handler is a sequence of steps here too:
`pc` names the command that comes next, `handler` the request or tick it
belongs to, and `ret` the step at which `_emergency_disconnect`,
`_clear_bootstrap_dns` and their like return. What the code keeps in
attributes is in variables named after them (`mode`, `enabled`, `target`,
`retryAt`, `pauseUntil`, `dnsRestore`, `bootstrap`, ...), what it keeps in
files is on the disk (`disk` is `state.json`, `saved` is `dns.json`), what it
keeps in the host is the nftables table (`fw`), the routing of each link
(`dns`) and the tunnels that are up (`active`). A failing command takes
`RaiseSystemFailure`; a failing write `RaiseOSError`; both go where
`_handle_connection` and `serve` send them. `Crash` ends the process at any
step, `PowerLoss` the machine, and the early unit and `NetworkManager`'s
dependency on it decide what happens before the daemon returns. A file write
can fail before the rename that commits it or after it (directory sync).

Abstracted: `retry_count` and its backoff are "later"; profiles are tried in
any order instead of the most recently used first; DNS of the tunnel interface
and `interface` are part of the session; a half-applied `resolvectl` sequence
for one link counts as not applied; inspection and restoration in
`_clear_bootstrap_dns` are one step; a failing `_notify` is a failing write;
command output is well-formed; the bound of 16 links is ignored; a request
that is rejected without an effect is no step; a missing `state.json` is a
disabled one. A damaged file is modelled for `state.json` only. A rename whose
directory sync failed (`StateCommitError`) counts as done: a later power loss
does not take it back.

### Protection

Six variables: the reported mode, the wanted and the stored target, whether
traffic is dropped by default, which profiles have exceptions, and whether the
user has asked to leave. Its actions say what may change together: an attempt
is sought behind a barrier without exceptions, exceptions are made for one
candidate of the wanted target, the network is opened on the user's word or
when nothing is wanted, nothing but what is wanted is stored. The mapping
(`Promise` in `ControllerProperties`) reads them off the daemon's attributes,
`state.json` and the table; a dead daemon is *off*, and a running pause or
disconnect is *leaving*. Most of the daemon's steps are stutters or `Tighten`;
what the refinement adds to the invariants is the order of modes, commits and
openings over whole behaviours. Two transitions are wider than one would wish
and are what the code does: `Fail` is possible without a barrier while the user
leaves (finding 1), and a leave that fails can still store the intent.

### Policy

A rule of a chain is, for a packet, whether it matches and whether it accepts;
`Accepted` is the first match under the default drop. `Output` and `Forward`
are the rules in the order in which `render` emits them. The rules for IPv4 and
IPv6 match disjoint packets and are one rule; rules that are rendered per
element of a set are one rule about the set. Packets are classes (interface,
far end, sender), so addresses and ports are exactly what the rules tell apart.
`Host` keeps of a table which tunnels and endpoints it excepts and whether it
is a rendered table or the quarantine; `ContextsOf` are all contexts that would
have rendered it, with and without LAN, resolvers, guests and the other VPN.
When a failing `nft` adds a policy to a table that is still there, `Host` says
that the table has the exceptions of both. In the kernel the appended rules are
hidden behind the final drop (`AppendedRulesAreHidden` in
`ControllerProtectionProofs`), so `Host` errs on the side of more exceptions.
`Renderable` states the checks of `render` on endpoints and on routes as one
about the whole context.

### EmergencyDisable

The command's steps are *stop, deactivate, restore, check, persist, forget,
open, confirm*, in the order of `emergency_disable`, interleaved with the whole
of `Controller`: the daemon runs until `systemctl stop` has ended it and may be
anywhere at that moment. The command can be interrupted or lose power after
each step, can be repeated, and `install-backend` can enable the units again.
`lost` is history: the command removed a `dns.json` it had never read. Not
modelled: directory syncs, orphaned profiles (part of the failure of
*deactivate*), failures of `ip link` (part of *not restored*).

### Import

One import stages its sources one by one, each with the outcomes of
`publish_keyfile` and of the cleanup `import_profile` tries itself, then
commits the policy and the catalog, and rolls back on any failure. The daemon
may die between any two steps and others may take names in NetworkManager.
The name of a profile is any free one instead of the smallest free index.

### Socket

A client connects, sends pieces of one line (or the end of a line: a plain
request, an import from a descriptor, something `read_request` refuses), each
perhaps with descriptors, shuts down, and closes whenever it likes. One
`recvmsg` returns what has arrived up to the first piece with descriptors.
Time is counted only while the daemon waits for that client, and `limit` and
`left` are the timeout that `read_request` computes before each call: one
deadline for the whole line, and for the answer what was left when the last
call began. `held` and `source` are the descriptors the code has listed or
handed over, `open` those the process really has. The daemon can be killed and
restarted between any two steps, and clients that wait for an accept fill the
backlog. Folded: the checks of the JSON object are one kind of invalid
request; only answers to requests that were handled can stall (an error is
short enough for the buffer). Left out: malformed ancillary data, which a Unix
socket does not deliver, and the client's own timeout, which is a close.

### Switch

Every callback of the panel's event loop is one action: clicks, one-second
timers, exits of processes, deferred calls (`Qt.callLater`, the set `later`).
`act` and `poll` are `Service.qml`'s processes, `pact`, `config`, `nmQuery` and
`cliQuery` those of `ProtonService.qml`; a process that was sent SIGTERM is
`Stopped` until its ignored exit. Timestamps and revisions are kept as the
comparisons the code makes: `seen` holds what has arrived since the waiting
phase began, `nmNew` and `cliSays` the other two comparisons, and a query is
`current` while its revision (or generation) is the present one. Timers are
not bound to durations: a timeout may fire as soon as what it bounds has
begun, which includes every real timing. Answers are arbitrary: what the two
VPNs really do is not constrained. Four variables are history and no guard
reads them: `queued`, `reached`, `evidence`, `wanted`. `recorded` is what the
present step hands to `recordConnection`, so that recording the same
connection twice is seen too.

The order of the event loop. A deferred call is an event in the loop's queue.
It has no priority over input, and `busy` (`Service.qml:66`) does not count it:
after a command has ended a click, another exit or a timer can come before the
report of it, and the click can start the next command. All clicks and all
other steps may overtake a deferred call. One thing cannot, and is the guard
`Delivered`: every pass of the loop delivers what was in the queue before it
asks for processes that have ended and timers that are due, so a VPN command
(or a read of the kill switch) that was *started* while a report was deferred
is not seen to end, nor to reach its time limit, before that report. As the
commands exclude one another, one report at most is deferred at any time, and
the set loses no duplicates. Without that guard TLC finds `WireGuardAfterProton`
violated by a process that starts and ends, and whose exit is noticed, before
a call that is older than the process: the report of an earlier disconnect is
then taken for the end of the switch's own.

Folded: the states failed, paused and enabled-unverified are one, because the
modelled handlers treat them alike; `protonObserved` defers `advanceSwitch` in
the step of the observation (its own deferral comes before it in the queue),
and once, not twice; a process has ended one second after SIGTERM. Left out:
the writer of the last connection, the texts and notifications, the probe for
the CLI (`protonvpn` is installed: without it, and while Proton's state is
unknown, `connectLocation` does not ask about Proton, `Service.qml:148`),
deactivation of the panel.

### Recorder, Traffic, PanelServices

`Recorder` numbers the connections in the order in which they succeed. The
writer is a process that may replace the file, fail, or end in any other way
before or after the replacement (the code bounds only the reader by a timeout,
so it has fewer endings of the writer than the model);
its exit defers `lastConnectionWritten`, which starts the queued record. Two
recordings are at least a VPN command apart, so at most one of them overtakes a
deferred call. The reader runs once per start of the panel. `file` is what the
rename commits; the directory is not synced, so a power failure may bring an
older record back. It is not modelled, nor documented otherwise.

`Traffic` gives every interface an index when NetworkManager creates it and
lets `traffic.py` read index, counters and index again while interfaces come
and go. A counter is modelled by the index of the interface it was read from.
The service's generation is `current`. The rate is modelled by the index of
the sample it starts from; a clock that jumped, a counter that went back and a
gap of more than three seconds are one choice (`gap`). The two services share
the event loop and nothing else; they are one run because they are two halves
of the same small component.

## 3. Runs

| run | instance | distinct states | shows |
| --- | --- | --- | --- |
| `controller` | 2 links, 2 profiles, 2 targets | 1.71 million | the safety of the daemon, the packets its tables let through, and that it implements `Protection` |
| `controller_live` | 1 link | 100 thousand | the loop is always reached again, attempts settle, pauses end |
| `emergency` | 1 link, 1 profile with a host name, 1 target | 1.2 million | the emergency command beside the daemon |
| `import` | 2 sources, 3 UUIDs, 4 names, 2 policies | 12 thousand (symmetry) | the import transaction |
| `socket` | 3 clients (one unauthorized), lines of 2 pieces, 2 units of time | 640 thousand | descriptors, delays and complete requests |
| `switch` | 1 location, 2 Proton choices, 2 looks at NetworkManager, 3 reported states | 1.9 million (symmetry) | the switch in both directions |
| `switch_live` | 1 location, 1 Proton choice, 2 looks at NetworkManager, 2 reported states | 0.7 million | hung commands do not wedge the panel |
| `panel_services` | 4 records; 2 profiles, 3 interfaces | 3.5 million (symmetry) | the record in the file, the rates on display |
| `failed_keeps_barrier`, `import_rollback_reported`, `emergency_restores_dns`, `switch_one_connection` | as above | - | the disagreements of section 6 |

Why the bounds suffice. Two links are what partial failures need (one
configured, one not), two profiles and targets what a failover and a change of
mind in the middle of an attempt need; more repeat the same steps. With two
links `emergency` is beyond TLC, so failures per link are the business of
`controller` and of the proofs, which hold for any number of links. Two
sources and three UUIDs let a batch fail after a success and an orphan collide
with a later import. The switch compares a report only with the pending or
chosen target; a wrong target in a report is the same as no target to it. Two
choices are what a report needs that is delivered after the click on the next.
In exchange `switch` has neither the status *failed* nor a look that shows the
daemon's tunnel; the proofs hold for all reports and looks, and
`switch_one_connection` has both.
Liveness runs use no symmetry. One piece more than the longest
line, three descriptors where two are delivered and a backlog below the number
of clients are the edges of the socket. Four records are one that is written,
one that is queued, one that replaces the queued one and one that overtakes a
deferred call; three interfaces are two of one profile and one of another.
The packets of `OutputConfined` and `GuestsConfined` are all classes the rules
distinguish; the verdicts of each of the few tables that occur are computed
once.

Deadlock is not checked where the system may stop (the panel without clicks
and the import between imports); the daemon's model can always lose power.

Fairness. `controller_live` assumes that the daemon's thread is scheduled (one
thread, `selector.select` with a 2 s timeout) and that time passes. It assumes
nothing of requests, of the success of a command or of a restart.
`switch_live` assumes the one-second timer (so that a bound that has been
exceeded is noticed), that a process ends after SIGTERM and that the event
loop runs every deferred call, each kind on its own: the queue is served in
order, so that no call waits for ever while others come. It assumes nothing of
a running command, which may hang for ever.

## 4. What is checked

**Daemon.** `DnsRecoverable`, `SnapshotClean`, `BootstrapTracked`,
`NoPendingCleanup`: the machine's DNS can always be put back from `dns.json`,
and what was captured is the original. `RetryUnderBarrier`, `AttemptConfined`,
`IntentBehindBarrier`, `DirectOnlyByIntent`, `EarlyBarrier`: an intent is never
without the table, in the daemon, in a failed handler, and after a power
failure. `ConnectedAsIntended`, `PauseResumes`, `ConnectingIsScheduled`,
`DisconnectIsComplete`: what the daemon says is so and what it promised
follows. `OutputConfined`, `GuestsConfined`: through the tables that a
connected or waiting daemon has, whatever commands failed before, no packet of
the machine or of a guest leaves but the way the tunnel's protection permits.
`ImplementsProtection`: all of it together is `Protection`. `ReturnsToLoop`,
`AttemptSettles`, `PauseEnds` are liveness.

**Emergency disable.** `EmergencyComplete`: a successful command leaves neither
tunnel, intent, table nor changed DNS. `TableOutlivesIntent`: no order of
failures opens a machine that still has an intent. `RecoverableUnlessLost`:
DNS can be restored, but for finding 3.

**Socket.** `DescriptorsClosed`: the process has at every step exactly the
descriptors the code knows of, and none between requests. `LoopHeldBriefly`:
however slowly a client sends and reads, it holds the loop for less than two
request timeouts. `HandledAsSent`: what reaches the controller was sent to its
end, by an authorized peer, within the limit, with a descriptor if and only if
it imports from one.

**Import.** `CatalogBacked`, `NamesUnique`, `RollbackOnlyCreated`,
`AllOrNothing`, `FilesAsUsed`.

**Switch.** `OneCommand`, `ProtonAfterRelease`, `WireGuardAfterProton`,
`LateStartsNothing`, `RecordedUnlessOvertaken`, and `NeverWedged` (liveness):
the second VPN starts only on evidence that was asked for after the command of
the first one had ended, whatever arrives late and whatever is clicked between
the end of a command and the report of it, and only for the switch the user
confirmed last. What is recorded as the last connection was reached, but for
the overtaken report of finding 5. `NeverWedged` is about the VPN commands: a
file chooser or an installer that hangs keeps `busy` true as well, and nothing
bounds it.

**Small services.** `LastRecordKept`: when the writer rests, the file has the
newest record, unless its own write failed or the panel went away.
`RatesOfOneTunnel`: what is displayed is of the profile to display, its numbers
are of one interface, and so is the sample its rate starts from.

Every property of a passing run has a mutant: a changed definition, kept next
to the right one in the modules, that models a plausible mistake and breaks it.

## 5. What is proved

TLAPS checks these for every set of links, profiles, targets, UUIDs and names,
from the constants' assumptions in the modules (`ASSUME`). Every safety property
that a run checks is among them, except those of findings 1 to 4, which do not
hold. The bounds on how long something takes also need that the catalog
(`CatalogIsFinite`) and the file names of an archive (`SourcesAreFinite`) are
finite sets; the others do not.

* `Spec_TypeOK` and `TypeCorrect`. The inductive invariant adds to the types
  *control* facts (which handler can be at which step and where a subroutine
  will return) and *intent* facts (what a daemon without an intent cannot be
  doing). Every other proof rests on it.
* `Spec_DnsRecoverable`, `Spec_SnapshotClean`, `Spec_BootstrapTracked`. The
  property is about each link on its own, and so is the strengthening: at every
  step, the link's routing, its entry in memory and its entry on disk are in
  one of a few relations (`LinkOK`), which say where between capture, write,
  change, restore and removal the daemon is.
* `Spec_RetryUnderBarrier`, `Spec_AttemptConfined`, `Spec_EarlyBarrier`,
  `Spec_IntentBehindBarrier`, `Spec_DirectOnlyByIntent`. The strengthening says
  at which steps the table is *sealed* (blocks all but a candidate's exceptions)
  and that an enabled intent on disk has the table or a way back to it.
  `FirewallEffects` lists once what a firewall command does when it fails.
* `Spec_EmergencyComplete`, `Spec_RecoverableUnlessLost`,
  `Spec_TableOutlivesIntent`. A step of the composition is a step of the
  command or a step of the daemon and machine. Those of the second kind keep
  the daemon's invariants by the lemmas above (they are lemmas about steps,
  not about the daemon's specification) and are shown not to undo what the
  command has done: once it has stopped the daemon, only a boot can start it,
  and a boot ends the command.
* `Spec_ConnectedAsIntended`, `Spec_PauseResumes`, `Spec_ConnectingIsScheduled`,
  `Spec_NoPendingCleanup`, `Spec_DisconnectIsComplete`. `ModeOK` follows the
  mode, the candidates and the two ways to the loop through the steps of the
  handlers (where the table is open, the tunnels are down; where a scheduling
  handler is, connecting is due); `CleanupOK` says to which steps no link with
  a host-name route is carried.
* `Spec_ImplementsProtection`. From these invariants, every step of `Controller`
  is, under the mapping, a step of `Protection` or a stutter; the proof names
  the abstract action of each. `Spec_ConnectedIsConfined` transfers back what
  `Protection` alone implies.
* `TablesConfine`, `Spec_OutputConfined`, `Spec_GuestsConfined`. For every set
  of links, profiles and bridges and every context that `render` accepts, the
  first matching rule of each chain lets through what `MayLeave` and `MayPass`
  say and nothing else. The proof goes through the rules that accept and uses
  those in front of them that drop. `AppendedRulesAreHidden`: a policy that is
  added behind a final drop changes no verdict, so the tables that a failed
  replacement leaves are covered.
* `Spec_CatalogBacked`, `Spec_NamesUnique`, `Spec_RollbackOnlyCreated`: what is
  staged is in NetworkManager, fresh, and not in the catalog until the commit.
  `Spec_AllOrNothing` adds which sources have been staged at each step
  (`BatchKept`), `Spec_FilesAsUsed` when the policy in memory and on disk may
  differ (`PolicyKept`).

* `Spec_TypeOK` (of `SwitchProofs`), `Spec_OneCommand`,
  `Spec_ProtonAfterRelease`, `Spec_WireGuardAfterProton`,
  `Spec_LateStartsNothing`, `Spec_RecordedUnlessOvertaken`. No guard of the
  panel says why late answers are harmless; the invariant does: which commands a
  phase excludes (`Alone`), what it is for (`Aimed`), that one report at most is
  deferred and none while the disconnect of a switch runs (`Reporting`), and
  that a query is current only if it began after the last command had ended, so
  that what was seen in a waiting phase is evidence (`Grounded`). A report of an
  earlier command can be under way in every other phase, because clicks
  overtake it; there the phase and the name of the command tell it apart, or,
  in *ks-check*, it is delivered before the setting that was asked for after it.
  For the pending connection they do not: `Recordable` says that the deferred
  success of a Proton connect is that of the pending choice, or the command for
  the pending choice has been started since. From the invariant,
  `WireGuardStarts`, `ProtonStarts` and `ProtonIsTakenDown` list the only ways
  in which a command of each kind starts, and the action properties follow.

* `Spec_DescriptorsClosed`, `Spec_LoopHeldBriefly`, `Spec_HandledAsSent`, for
  clients that send any number of chunks with any number of descriptors.
  `FilesOK` relates the descriptors of the process to the variable of the code
  that owns each; `TimeOK` the time a request has used to the deadline of the
  reading and to that of the answer; `LineOK` what was read to a prefix of what
  the client sends, of which one chunk at most brought the descriptor that is
  held, so that a complete line has just the descriptors its client sent.
* `Spec_LastRecordKept`: the newest record is in the file, at the writer, queued
  behind it, or lost for a reason the property excuses; a deferred start that
  a newer record overtakes is the case that makes it delicate.
  `Spec_RatesOfOneTunnel`: the interface of what was read never decreases along
  the steps of a reading, and the last step compares the ends.
* `Spec_HandlersEnd`, `Spec_ImportsEnd`, `Spec_WaitShrinks`: how long things can
  take, without fairness. Each proof has a number of steps that are left, which
  what the component does makes smaller and what happens around it does not
  make larger. In `Controller` a candidate, a subroutine and a handler have
  their places (`Place`), exceptions lead to handlers further down and so are
  handled 41 + 30 per profile steps after a handler began at the latest. In
  `Import` a file costs its staging, its confirmation and its deletion in a
  rollback, and the batch five steps. In `Switch` a phase costs the commands it
  can still start; a panel that takes no commands is nine endings of commands,
  processes and phases away from taking them, and what arrives late adds none.
  These are the safety halves of `ReturnsToLoop` and `NeverWedged`: what is left
  to fairness there is that the next step is taken.

Model-checked only: liveness under fairness (`ReturnsToLoop`, `AttemptSettles`,
`PauseEnds`, `NeverWedged`). It rests on `ENABLED` of the fair actions, which is
out of the prover's reach.

## 6. Findings

1. `FailedKeepsBarrier`: a pause or disconnect whose removal of the table
   reports a failure after it took effect ends in *failed* with an enabled
   intent and no table (`controller.py:336`; `ARCHITECTURE.md:407`).
2. `RollbackReported`: a profile whose publication and own cleanup both fail
   stays in NetworkManager while the answer says that the rollback is complete
   (`system.py:102`; `ARCHITECTURE.md:354`).
3. `EmergencyRestoresDns`: the emergency command reads `dns.json` before it
   stops the daemon; what the daemon writes in between is removed unread
   (`bin/omarchy-wireguard:355`; `ARCHITECTURE.md:254`).
4. `OneConnectionAtATime`: the panel takes the absence of a tunnel, observed
   after its connect command was *started*, as proof that WireGuard is not
   coming up; when the client has given up and the daemon has not yet served
   the request, Proton is started as well (`Service.qml:223`; `PROTON.md:88`).
5. The report of a Proton connect is deferred (`ProtonService.qml:184`) and
   names the command but not its choice; `protonActionDone`
   (`Service.qml:326`) records whatever is pending when it runs, and `busy`
   does not count the report. A click on another choice between the exit of the
   first command and its report is therefore recorded as the last connection
   although it has not been tried yet, and stays recorded if it fails.
   `PROTON.md:59` says "The panel records a connection only after it is
   successful". The property of the `switch` run states what is left:
   `RecordedUnlessOvertaken` excuses exactly this case (`Overtaken`: the pending
   choice's own command is running). Without `\/ Overtaken`, TLC reports in the
   same run the behaviour of five steps: a look at NetworkManager that shows no
   VPN, a click on c1, its success, a click on c2, and the deferred report of
   c1, which records c2. A location is never concerned: it is recorded from a
   status that names it. The other way round, an overtaken report of a failure
   clears the pending choice, and the connection that then succeeds is not
   recorded.

Observations:

* A disconnect that fails while nothing is enabled ends in *failed* without an
  intent (`controller.py:308`), which `ARCHITECTURE.md:190` describes as an
  enabled state; traffic is direct, as it was.
* `emergency()` after a failed tick leaves *failed* without a retry time; the
  daemon stays isolated until the next request or restart.
* `emergency()` repeats the DNS cleanup; a second failure ends the process, and
  the restart tries again from `dns.json`.
* A connect rejected by a failing quarantine while paused may leave the table
  installed under the mode *paused*; a retry leaves `pause_until` stale.
* With a damaged `dns.json` the emergency command can never succeed: it refuses
  and traffic stays blocked. When the early unit failed, NetworkManager is not
  running and the command fails at its ownership check.
* After a power failure between the removal of the intent and of the snapshot
  the machine boots quarantined with the daemon disabled; a second run finishes.
* After an incomplete rollback of `network.json` later imports do not rewrite
  it, so the next restart switches the policy (`told` in `Import`).
* An expired WireGuard command does not clear the pending connection; a later
  poll that shows it connected still records it. The bounds that stop a command
  already end every phase that waits for one; the 150 s deadline is what ends
  the waiting phases if the 30 s bound did not.

* The reader of the last connection may answer after the first connection of
  the panel was recorded; it then replaces the newer choice in the panel's
  memory (`lastConnection`) by the older one until the next start. The file is
  right.
* The installer's rollback removes the units and NetworkManager's drop-in
  before it restores the old ones; a power loss in between boots without the
  early unit.

## 7. Not modelled

* The importer's parser (`importer.py`) and the parsing of command output
  (`system.py`, `traffic.py`, `last_connection.py`, `protocol.py`'s JSON):
  sequential checks of text without state. The models take their verdicts as
  inputs (`invalid`, a refused archive, a failed inspection).
* The comparison of the observed ruleset with the rendered one
  (`nftables.py`): it compares signatures, that is text; `Controller` takes
  *verified* and *not verified* as the two outcomes.
* `scripts/install-backend`, `uninstall-backend`, `integrate-user`: what matters
  there is what `systemctl` and NetworkManager do with units and drop-ins whose
  files were removed a moment before, and what the file system keeps of
  unsynced renames. Neither is determined by this code, and a model would be one
  of assumptions. The consequence that is visible without them is an
  observation of section 6.
* The lifecycle CLI apart from emergency disable: `uninstall_profiles`, the
  choice of a file, the display of answers.
* `shield` and `quickAction` of the panel: pure functions from state to a label
  or a menu entry; the actions they offer are the clicks of `Switch`.
* `proton_servers.py`, `file_picker.py`: one-shot readers; `BarWidget.qml`:
  layout.
* In the modelled parts: see *Abstracted*, *Folded* and *Left out* in section 2.

## 8. What is left

* A bound, as those of section 5, on the steps of a request at the socket and of
  the emergency command; and on the time between two attempts, for which the
  durations that `Controller` abstracts to "due" would have to come back.
* `Switch` and `Controller` are separate: finding 4 shows the one place where
  the panel's view of the daemon matters. A composition of the two is beyond
  TLC; one with `Protection` in the daemon's place would be feasible.
* The first match is proved for what `render` emits. That the observed ruleset
  is the rendered one rests on nftables and on the comparison of signatures.
