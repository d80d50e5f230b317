----------------------------- MODULE Controller -----------------------------
(***************************************************************************)
(* The privileged side of omarchy-wireguard: controller.py's state machine *)
(* as daemon.py's loop drives it, the two files of storage.py it recovers  *)
(* from, the early-boot firewall unit, and the host the commands of        *)
(* system.py act on.                                                       *)
(*                                                                         *)
(* The daemon is one thread.  One action is one host command or one file   *)
(* write together with the assignments around it, so that a command can    *)
(* fail, the daemon can die, the machine can lose power and the network    *)
(* can change between any two of them.  "pc" is the next such step; the    *)
(* two subroutines that everything calls, _emergency_disconnect and        *)
(* _direct_disconnect, return to the step "ret"; "handler" is what the     *)
(* daemon's loop is running and decides where an exception ends.           *)
(*                                                                         *)
(* Two exceptions matter: SystemFailure (a host command failed) and        *)
(* OSError (a file write failed, before or after the rename that commits). *)
(***************************************************************************)
EXTENDS Host, FiniteSets

CONSTANTS
  HostnameProfiles,   \* profiles whose endpoint is a host name
  Targets,            \* what `connect` can name: a city or one profile
  CandidatesOf,       \* the catalog's profiles for each target
  NoProfile,          \* None, for a profile
  NoTarget            \* None, for a target

ASSUME CatalogAssumption ==
  /\ HostnameProfiles \subseteq Profiles
  /\ CandidatesOf \in [Targets -> SUBSET Profiles]
  /\ NoProfile \notin Profiles
  /\ NoTarget \notin Targets

\* profiles.json lists them.
ASSUME CatalogIsFinite == IsFiniteSet(Profiles)

VARIABLES
  phase,         \* how far the machine has booted
  disk,          \* state.json: the persisted intent
  saved,         \* dns.json: the routing each physical link had
  fw,            \* the dedicated nftables table
  active,        \* managed profiles NetworkManager has up
  dns,           \* the routing of every physical link
  physical,      \* links that carry a default route
  pc, handler, ret,
  mode, enabled, target, current, retryAt, pauseUntil,
  covered,       \* links of the firewall_context a connection was verified with
  dnsRestore,    \* the memory image of dns.json
  bootstrap,     \* links that may still carry a host-name route
  base,          \* _attempt: the underlay links of the last inspection
  untried,       \* _attempt: candidates not yet taken
  profile,       \* _attempt: the candidate being tried
  leg            \* _attempt: 1 before activation, 2 after it

files    == <<disk, saved>>
network  == <<dns, physical>>
control  == <<pc, handler, ret>>
intent   == <<enabled, target>>
schedule == <<retryAt, pauseUntil>>
tracking == <<dnsRestore, bootstrap>>
attempt  == <<base, untried, profile, leg>>
session  == <<current, covered>>
memory   == <<mode, intent, session, schedule, tracking, attempt>>
machine  == <<phase, files, fw, active, network>>
vars     == <<machine, control, memory>>

-----------------------------------------------------------------------------
Modes == {"disabled", "paused", "connecting", "connected", "failed"}

\* retry_at and pause_until, as a comparison with the clock.
Deadlines == {"never", "later", "due"}

Requests == {"connect", "disconnect", "pause", "retry"}

Handlers == Requests \union {"none", "boot", "tick", "verify", "emergency"}

\* Where the daemon's loop is between two handlers.
Loop == {"select", "tick"}

AttemptSteps ==
  {"pick", "inspect", "stale", "capture", "configure", "base_policy",
   "endpoint_policy", "activate", "tunnel_policy", "verify", "connected"}

EmergencySteps == {"isolate", "detach", "close", "undo_dns", "unwind"}

DirectSteps == {"direct_detach", "direct_dns", "direct_open"}

\* What the two subroutines return to.
Returns == {"none", "finish", "pick", "failed", "emergency_failed",
            "emergency_disabled", "boot_clear", "disconnect_persist",
            "pause_clear"}

Steps ==
  Loop \union AttemptSteps \union EmergencySteps \union DirectSteps
  \union (Returns \ {"none"}) \union
  {"dead", "die", "boot_close", "persist_connecting", "disconnect_clear",
   "pause_persist", "abort", "emergency"}

TypeOK ==
  /\ phase \in {"off", "blocked", "early", "net", "up"}
  /\ disk \in [intent : {"disabled", "enabled", "malformed"},
               target : Targets \union {NoTarget}]
  /\ saved \in [Links -> Saved]
  /\ fw \in Firewalls
  /\ active \in SUBSET Profiles
  /\ dns \in [Links -> Routing]
  /\ physical \in SUBSET Links
  /\ pc \in Steps
  /\ handler \in Handlers
  /\ ret \in Returns
  /\ mode \in Modes
  /\ enabled \in BOOLEAN
  /\ target \in Targets \union {NoTarget}
  /\ current \in Profiles \union {NoProfile}
  /\ covered \in SUBSET Links
  /\ retryAt \in Deadlines
  /\ pauseUntil \in Deadlines
  /\ dnsRestore \in [Links -> Saved]
  /\ bootstrap \in SUBSET Links
  /\ base \in SUBSET Links
  /\ untried \in SUBSET Profiles
  /\ profile \in Profiles \union {NoProfile}
  /\ leg \in {1, 2}
  /\ (enabled => target # NoTarget)
  /\ (disk.intent = "enabled" => disk.target # NoTarget)

-----------------------------------------------------------------------------
(* Control flow.                                                           *)

Goto(step) == pc' = step /\ UNCHANGED <<handler, ret>>

Enter(h, step, r) == handler' = h /\ pc' = step /\ ret' = r

\* The locals of _attempt and _configure_lan_dns go with their frame.
ForgetAttempt ==
  base' = {} /\ untried' = {} /\ profile' = NoProfile /\ leg' = 1

\* current, interface and firewall_context are cleared together.
NoSession == current' = NoProfile /\ covered' = {}

\* The handler is done.  serve() ticks after a request and after an idle
\* wait, and waits again after a tick or after boot().
Finish ==
  /\ handler' = "none"
  /\ ret' = "none"
  /\ \/ handler \in Requests \union {"emergency"} /\ pc' = "tick"
     \/ handler \notin Requests /\ pc' = "select"

\* Mutants: a failed disconnect or pause is rejected without a record; a
\* failed tick is only logged; _failure() is retried in the same try block.
RaiseUnrecorded ==
  \/ handler \in Requests             /\ Enter("none", "tick", "none")
  \/ handler \in {"verify", "tick"}   /\ Enter("emergency", "emergency", "none")
  \/ handler \in {"boot", "emergency"} /\ Enter(handler, "die", "none")

RaiseLogged ==
  \/ handler \in Requests             /\ Enter("none", "tick", "none")
  \/ handler \in {"verify", "tick"}   /\ Enter("none", "select", "none")
  \/ handler \in {"boot", "emergency"} /\ Enter(handler, "die", "none")

RaiseAndRetry ==
  \/ handler \in Requests             /\ Enter("none", "tick", "none")
  \/ handler \in {"verify", "tick"}   /\ Enter("verify", "isolate", "failed")
  \/ handler \in {"boot", "emergency"} /\ Enter(handler, "die", "none")

(* A SystemFailure leaves the running handler.  A request is rejected;     *)
(* disconnect and pause first record the failure; tick's verification      *)
(* branch catches it once and runs _failure again; any other tick ends in  *)
(* emergency(); boot() and emergency() are not guarded.                    *)
RaiseSystemFailure ==
  \/ handler \in {"connect", "retry"}     /\ Enter("none", "tick", "none")
  \/ handler \in {"disconnect", "pause"}  /\ Enter(handler, "abort", "none")
  \/ handler = "verify"                   /\ Enter("tick", "isolate", "failed")
  \/ handler = "tick"                     /\ Enter("emergency", "emergency", "none")
  \/ handler \in {"boot", "emergency"}    /\ Enter(handler, "die", "none")

\* An OSError: emergency() for a request, the end of the process elsewhere.
RaiseOSError ==
  \/ handler \in Requests     /\ Enter("emergency", "emergency", "none")
  \/ handler \notin Requests  /\ Enter(handler, "die", "none")

\* Mutant: the next candidate without isolating the one that failed.
NextCandidateAtOnce == Enter(handler, "pick", "pick")

\* _attempt's except clause: isolate, then take the next candidate.
NextCandidate == Enter(handler, "isolate", "pick")

\* Mutant: the flag is not persisted.
StateWrittenAlwaysOn(on, to) == disk' = [intent |-> "enabled", target |-> to]

StateWritten(on, to) ==
  disk' = [intent |-> IF on THEN "enabled" ELSE "disabled", target |-> to]

\* Mutant: a failed write goes unnoticed.
WriteStateUnchecked(on, to, next) ==
  next /\ (StateWritten(on, to) \/ disk' = disk)

\* store.write() of state.json: committed, then maybe an error; or an error.
WriteState(on, to, next) ==
  \/ StateWritten(on, to) /\ next
  \/ StateWritten(on, to) /\ RaiseOSError
  \/ disk' = disk /\ RaiseOSError

\* Mutant: the snapshot stays in memory.
WriteSavedNever(value, next) == saved' = saved /\ next

\* store.write() of dns.json.
WriteSaved(value, next) ==
  \/ saved' = value /\ next
  \/ saved' = value /\ RaiseOSError
  \/ saved' = saved /\ RaiseOSError

\* Mutant: a failed apply_quarantine() is good enough.
BarrierBestEffort == fw' \in QuarantineFailures(fw)

\* apply_quarantine() returned, and so verified what it installed.
Barrier == fw' = Quarantine

-----------------------------------------------------------------------------
(* The daemon process.                                                     *)

Serving == phase = "up" /\ pc \in Loop

\* The process is gone, and with it everything it had in memory.
Dead ==
  /\ pc' = "dead" /\ handler' = "none" /\ ret' = "none"
  /\ mode' = "disabled" /\ enabled' = FALSE /\ target' = NoTarget
  /\ NoSession
  /\ retryAt' = "never" /\ pauseUntil' = "never"
  /\ dnsRestore' = NothingSaved /\ bootstrap' = {}
  /\ ForgetAttempt

\* An exception nobody catches ends the process.
Exit ==
  /\ pc = "die"
  /\ Dead
  /\ UNCHANGED machine

\* Killed or stopped, between any two steps.
Crash ==
  /\ pc # "dead"
  /\ Dead
  /\ UNCHANGED machine

\* Controller.__init__() reads the files; boot() starts with the quarantine
\* when an intent is persisted and with _direct_disconnect otherwise.
Start ==
  /\ phase \in {"net", "up"} /\ pc = "dead"
  /\ disk.intent # "malformed"
  /\ phase' = "up"
  /\ \/ /\ disk.intent = "enabled"
        /\ Barrier
        /\ mode' = "connecting" /\ retryAt' = "due"
        /\ Enter("boot", "boot_close", "none")
        /\ enabled' = TRUE /\ target' = disk.target
        /\ dnsRestore' = saved /\ bootstrap' = SavedLinks(saved)
     \/ /\ disk.intent = "enabled"
        /\ fw' \in QuarantineFailures(fw)
        /\ UNCHANGED <<control, mode, retryAt, intent, tracking>>
     \/ /\ disk.intent = "disabled"
        /\ mode' = "disabled" /\ retryAt' = "never"
        /\ Enter("boot", "direct_detach", "boot_clear")
        /\ enabled' = FALSE /\ target' = disk.target
        /\ dnsRestore' = saved /\ bootstrap' = SavedLinks(saved)
        /\ UNCHANGED fw
  /\ UNCHANGED <<files, active, network, session, pauseUntil, attempt>>

\* boot(): _fail_closed(), then _attempt() begins.
BootClose ==
  /\ pc = "boot_close"
  /\ \/ /\ fw' = Closed
        /\ Enter(handler, "isolate", "pick")
        /\ untried' = CandidatesOf[target]
     \/ /\ fw' \in ReplaceFailures(fw, Closed)
        /\ RaiseSystemFailure
        /\ UNCHANGED untried
  /\ UNCHANGED <<phase, files, active, network, mode, intent, session,
                 schedule, tracking, base, profile, leg>>

\* boot() without an intent: _clear_dns_restore() after _direct_disconnect().
BootClear ==
  /\ pc = "boot_clear"
  /\ dnsRestore' = NothingSaved
  /\ WriteSaved(NothingSaved, Finish)
  /\ UNCHANGED <<phase, disk, fw, active, network, mode, intent, session,
                 schedule, bootstrap, attempt>>

Finished ==
  /\ pc = "finish"
  /\ Finish
  /\ UNCHANGED <<machine, memory>>

-----------------------------------------------------------------------------
(* _emergency_disconnect: isolate, detach, close, undo_dns.                *)

Isolate ==
  /\ pc = "isolate"
  /\ \/ Barrier /\ Goto("detach")
     \/ fw' \in QuarantineFailures(fw) /\ RaiseSystemFailure
  /\ UNCHANGED <<phase, files, active, network, memory>>

\* deactivate_managed(): its failure, after any number of profiles, is ignored.
Detach ==
  /\ pc = "detach"
  /\ active' \in SUBSET active
  /\ NoSession
  /\ Goto("close")
  /\ UNCHANGED <<phase, files, fw, network, mode, intent, schedule,
                 tracking, attempt>>

\* _fail_closed() under "finally: _clear_bootstrap_dns()".
Close ==
  /\ pc = "close"
  /\ \/ fw' = Closed /\ Goto("undo_dns")
     \/ fw' \in ReplaceFailures(fw, Closed) /\ Goto("unwind")
  /\ UNCHANGED <<phase, files, active, network, memory>>

\* What _clear_bootstrap_dns() asks of resolved: underlays stay restricted,
\* links that left the underlay get back what dns.json recorded.
WithoutBootstrap ==
  [l \in Links |->
     IF l \notin bootstrap \/ dnsRestore[l] = "none" THEN dns[l]
     ELSE IF l \in physical THEN "lan" ELSE dnsRestore[l]]

\* Mutant: a failed cleanup is recorded, but the caller goes on.
ClearBootstrapBestEffort(next) ==
  \/ /\ dns' = WithoutBootstrap
     /\ bootstrap' = {}
     /\ next
     /\ UNCHANGED <<mode, retryAt>>
  \/ /\ bootstrap # {}
     /\ dns' \in Partially(dns, WithoutBootstrap)
     /\ mode' = "failed" /\ retryAt' = "never"
     /\ next
     /\ UNCHANGED bootstrap

\* _clear_bootstrap_dns(), which then returns or lets an exception continue.
ClearBootstrap(next) ==
  \/ /\ dns' = WithoutBootstrap
     /\ bootstrap' = {}
     /\ next
     /\ UNCHANGED <<mode, retryAt>>
  \/ /\ bootstrap # {}
     /\ dns' \in Partially(dns, WithoutBootstrap)
     /\ mode' = "failed" /\ retryAt' = "never"
     /\ RaiseSystemFailure
     /\ UNCHANGED bootstrap

UndoDns ==
  /\ pc = "undo_dns"
  /\ ClearBootstrap(Goto(ret))
  /\ UNCHANGED <<phase, files, fw, active, physical, intent, session,
                 pauseUntil, dnsRestore, attempt>>

Unwind ==
  /\ pc = "unwind"
  /\ ClearBootstrap(RaiseSystemFailure)
  /\ UNCHANGED <<phase, files, fw, active, physical, intent, session,
                 pauseUntil, dnsRestore, attempt>>

-----------------------------------------------------------------------------
(* _direct_disconnect: direct_detach, direct_dns, direct_open.             *)

\* Mutant: the failure of deactivate_managed() is ignored here as well.
DirectDetachIgnoring ==
  /\ pc = "direct_detach"
  /\ active' \in SUBSET active
  /\ NoSession
  /\ Goto("direct_dns")
  /\ UNCHANGED <<phase, files, fw, network, mode, intent, schedule,
                 tracking, attempt>>

DirectDetach ==
  /\ pc = "direct_detach"
  /\ \/ active' = {} /\ NoSession /\ Goto("direct_dns")
     \/ active' \in SUBSET active /\ UNCHANGED session /\ Goto("unwind")
  /\ UNCHANGED <<phase, files, fw, network, mode, intent, schedule,
                 tracking, attempt>>

DirectDns ==
  /\ pc = "direct_dns"
  /\ LET goal == Restored(dns, dnsRestore, Links)
     IN  \/ dns' = goal /\ bootstrap' = {} /\ Goto("direct_open")
         \/ /\ dns' \in Partially(dns, goal)
            /\ RaiseSystemFailure
            /\ UNCHANGED bootstrap
  /\ UNCHANGED <<phase, files, fw, active, physical, mode, intent, session,
                 schedule, dnsRestore, attempt>>

DirectOpen ==
  /\ pc = "direct_open"
  /\ \/ fw' = Open /\ Goto(ret)
     \/ fw' \in RemoveFailures(fw) /\ RaiseSystemFailure
  /\ UNCHANGED <<phase, files, active, network, memory>>

-----------------------------------------------------------------------------
(* Requests.  One that is rejected before any effect is no step here.      *)

\* connect: the barrier first, then the intent in memory.
Connect(to) ==
  /\ pc = "select"
  /\ \/ /\ Barrier
        /\ enabled' = TRUE /\ target' = to /\ mode' = "connecting"
        /\ pauseUntil' = "never" /\ retryAt' = "due"
        /\ Enter("connect", "persist_connecting", "finish")
     \/ /\ fw' \in QuarantineFailures(fw)
        /\ pc' = "tick"
        /\ UNCHANGED <<handler, ret, intent, mode, schedule>>
  /\ UNCHANGED <<phase, files, active, network, session, tracking, attempt>>

\* Mutant: the mode changes first, the barrier is left to the attempt.
ScheduleConnectingUnsealed(h) ==
  /\ mode' = "connecting" /\ retryAt' = "due"
  /\ Enter(h, "persist_connecting", "finish")
  /\ UNCHANGED fw

\* _schedule_connecting() up to its _persist().
ScheduleConnecting(h) ==
  \/ /\ Barrier
     /\ mode' = "connecting" /\ retryAt' = "due"
     /\ Enter(h, "persist_connecting", "finish")
  \/ /\ fw' \in QuarantineFailures(fw)
     /\ IF h = "retry" THEN pc' = "tick" /\ UNCHANGED <<handler, ret>>
                       ELSE Enter("emergency", "emergency", "none")
     /\ UNCHANGED <<mode, retryAt>>

Retry ==
  /\ pc = "select"
  /\ enabled
  /\ ScheduleConnecting("retry")
  /\ UNCHANGED <<phase, files, active, network, intent, session, pauseUntil,
                 tracking, attempt>>

\* _persist(), then _emergency_disconnect(quarantine_installed=True).
PersistConnecting ==
  /\ pc = "persist_connecting"
  /\ WriteState(enabled, target, Goto("detach"))
  /\ UNCHANGED <<phase, saved, fw, active, network, memory>>

Disconnect ==
  /\ pc = "select"
  /\ Enter("disconnect", "direct_detach", "disconnect_persist")
  /\ UNCHANGED <<machine, memory>>

DisconnectPersist ==
  /\ pc = "disconnect_persist"
  /\ enabled' = FALSE /\ target' = NoTarget /\ mode' = "disabled"
  /\ retryAt' = "never" /\ pauseUntil' = "never"
  /\ WriteState(FALSE, NoTarget, Goto("disconnect_clear"))
  /\ UNCHANGED <<phase, saved, fw, active, network, session, tracking, attempt>>

DisconnectClear ==
  /\ pc = "disconnect_clear"
  /\ dnsRestore' = NothingSaved
  /\ WriteSaved(NothingSaved, Finish)
  /\ UNCHANGED <<phase, disk, fw, active, network, mode, intent, session,
                 schedule, bootstrap, attempt>>

Pause ==
  /\ pc = "select"
  /\ enabled
  /\ Enter("pause", "direct_detach", "pause_clear")
  /\ UNCHANGED <<machine, memory>>

PauseClear ==
  /\ pc = "pause_clear"
  /\ dnsRestore' = NothingSaved
  /\ WriteSaved(NothingSaved, Goto("pause_persist"))
  /\ UNCHANGED <<phase, disk, fw, active, network, mode, intent, session,
                 schedule, bootstrap, attempt>>

\* Mutant: the expiry of the pause is not set.
PausePersistUntimed ==
  /\ pc = "pause_persist"
  /\ mode' = "paused" /\ retryAt' = "never"
  /\ WriteState(enabled, target, Finish)
  /\ UNCHANGED <<phase, saved, fw, active, network, intent, session,
                 pauseUntil, tracking, attempt>>

PausePersist ==
  /\ pc = "pause_persist"
  /\ mode' = "paused" /\ pauseUntil' = "later" /\ retryAt' = "never"
  /\ WriteState(enabled, target, Finish)
  /\ UNCHANGED <<phase, saved, fw, active, network, intent, session, tracking,
                 attempt>>

\* disconnect and pause when _direct_disconnect() failed.
Abort ==
  /\ pc = "abort"
  /\ mode' = "failed" /\ retryAt' = "never"
  /\ WriteState(enabled, target, Finish)
  /\ UNCHANGED <<phase, saved, fw, active, network, intent, session,
                 pauseUntil, tracking, attempt>>

-----------------------------------------------------------------------------
(* tick.                                                                   *)

PauseExpires ==
  /\ pc = "tick"
  /\ mode = "paused" /\ pauseUntil = "due"
  /\ pauseUntil' = "never"
  /\ ScheduleConnecting("tick")
  /\ UNCHANGED <<phase, files, active, network, intent, session, tracking,
                 attempt>>

\* The start of _attempt: the candidates, then _emergency_disconnect().
AttemptDue ==
  /\ pc = "tick"
  /\ mode \in {"connecting", "failed"} /\ retryAt = "due"
  /\ mode' = "connecting" /\ retryAt' = "never"
  /\ untried' = CandidatesOf[target]
  /\ Enter("tick", "isolate", "pick")
  /\ UNCHANGED <<machine, intent, session, pauseUntil, tracking, base,
                 profile, leg>>

\* What verify() needs at the very least of the host to report success: the
\* profile is up, the table is the one rendered for it, and every link of
\* the firewall context, of which there is one, has the ~lan restriction.
Verifiable(p, links) ==
  /\ p \in active
  /\ fw = TunnelPolicy(p)
  /\ links # {}
  /\ \A l \in links : dns[l] = "lan"

\* A check failed, or verify() raised: _failure() inside the try or in its
\* except clause.
VerifyFails ==
  /\ pc = "tick"
  /\ mode = "connected" /\ current # NoProfile
  /\ \E h \in {"verify", "tick"} : Enter(h, "isolate", "failed")
  /\ UNCHANGED <<machine, memory>>

\* Nothing is due, or the connection passed its verification.
TickQuiet ==
  /\ pc = "tick"
  /\ ~ (mode = "paused" /\ pauseUntil = "due")
  /\ ~ (mode \in {"connecting", "failed"} /\ retryAt = "due")
  /\ mode = "connected" /\ current # NoProfile => Verifiable(current, covered)
  /\ pc' = "select"
  /\ UNCHANGED <<handler, ret, machine, memory>>

\* The selector's two seconds are over and nobody connected.
SelectTimeout ==
  /\ pc = "select"
  /\ pc' = "tick"
  /\ UNCHANGED <<handler, ret, machine, memory>>

\* Mutant: an internal failure takes the direct path whatever the intent.
EmergencyDirect ==
  /\ pc = "emergency"
  /\ Enter(handler, "direct_detach", "emergency_disabled")
  /\ ForgetAttempt
  /\ UNCHANGED <<machine, mode, intent, session, schedule, tracking>>

\* emergency() of an internal failure: isolated when an intent is enabled.
Emergency ==
  /\ pc = "emergency"
  /\ IF enabled THEN Enter(handler, "isolate", "emergency_failed")
                ELSE Enter(handler, "direct_detach", "emergency_disabled")
  /\ ForgetAttempt
  /\ UNCHANGED <<machine, mode, intent, session, schedule, tracking>>

EmergencyDone ==
  /\ \/ pc = "emergency_failed" /\ mode' = "failed"
     \/ pc = "emergency_disabled" /\ mode' = "disabled"
  /\ Finish
  /\ UNCHANGED <<machine, intent, session, schedule, tracking, attempt>>

-----------------------------------------------------------------------------
(* _attempt, one candidate after the other.                                *)

\* Mutant: a candidate that failed stays in the list.
PickAgain ==
  /\ pc = "pick"
  /\ \E p \in untried : profile' = p
  /\ leg' = 1
  /\ Goto("inspect")
  /\ UNCHANGED <<machine, mode, intent, session, schedule, tracking, base,
                 untried>>

\* The next candidate in the order of last use (here: any order).
Pick ==
  /\ pc = "pick"
  /\ \E p \in untried :
       /\ profile' = p
       /\ untried' = untried \ {p}
  /\ leg' = 1
  /\ Goto("inspect")
  /\ UNCHANGED <<machine, mode, intent, session, schedule, tracking, base>>

\* No candidate is left, or the budget of 20 seconds is spent: _failure().
GiveUp ==
  /\ pc = "pick"
  /\ Enter(handler, "isolate", "failed")
  /\ ForgetAttempt
  /\ UNCHANGED <<machine, mode, intent, session, schedule, tracking>>

Inspect ==
  /\ pc = "inspect"
  /\ \/ base' = physical /\ Goto("stale")
     \/ base' = {} /\ NextCandidate
  /\ UNCHANGED <<machine, mode, intent, session, schedule, tracking, untried,
                 profile, leg>>

\* _configure_lan_dns: entries of links that are no underlay any more.
Stale ==
  /\ pc = "stale"
  /\ LET left == SavedLinks(dnsRestore) \ base
         goal == Restored(dns, dnsRestore, left)
     IN  \/ dns' = goal /\ bootstrap' = bootstrap \ left /\ Goto("capture")
         \/ /\ left # {}
            /\ dns' \in Partially(dns, goal)
            /\ NextCandidate
            /\ UNCHANGED bootstrap
  /\ UNCHANGED <<phase, files, fw, active, physical, mode, intent, session,
                 schedule, dnsRestore, attempt>>

\* _configure_lan_dns: snapshot the new links and persist before mutating.
Capture ==
  /\ pc = "capture"
  /\ LET updated == Captured(dns, dnsRestore, base)
     IN  \/ /\ updated # dnsRestore
            /\ dnsRestore' = updated
            /\ WriteSaved(updated, Goto("configure"))
         \/ /\ updated = dnsRestore
            /\ Goto("configure")
            /\ UNCHANGED <<saved, dnsRestore>>
         \/ NextCandidate /\ UNCHANGED <<saved, dnsRestore>>
  /\ UNCHANGED <<phase, disk, fw, active, network, mode, intent, session,
                 schedule, bootstrap, attempt>>

\* Before activation, the host name of the endpoint has to resolve.
NeedsHostname == leg = 1 /\ profile \in HostnameProfiles

AfterConfigure == IF leg = 1 THEN "base_policy" ELSE "tunnel_policy"

\* Mutant: links are registered after the last mutation.
RegisteredLate == bootstrap

\* bootstrap_interfaces before the first mutation of a link.
Registered == IF NeedsHostname THEN bootstrap \union base ELSE bootstrap

\* configure_lan_dns(): with a host-name route the links stay registered;
\* without one they are released after the last mutation.
Configure ==
  /\ pc = "configure"
  /\ LET goal == Configured(dns, base, IF NeedsHostname THEN "hostname" ELSE "lan")
     IN  \/ /\ dns' = goal
            /\ bootstrap' = IF NeedsHostname THEN bootstrap \union base
                                             ELSE bootstrap \ base
            /\ Goto(AfterConfigure)
         \/ /\ dns' \in Partially(dns, goal)
            /\ bootstrap' = Registered
            /\ NextCandidate
  /\ UNCHANGED <<phase, files, fw, active, physical, mode, intent, session,
                 schedule, dnsRestore, attempt>>

\* One apply_firewall() of the sequence; resolving the endpoint comes first
\* for the second one.
ApplyPolicy(here, policy, next) ==
  /\ pc = here
  /\ \/ fw' = policy /\ Goto(next)
     \/ fw' \in ReplaceFailures(fw, policy) /\ NextCandidate
  /\ UNCHANGED <<phase, files, active, network, memory>>

BasePolicy == ApplyPolicy("base_policy", Closed, "endpoint_policy")

EndpointsPolicy ==
  ApplyPolicy("endpoint_policy", EndpointPolicy(profile), "activate")

ConnectedPolicy ==
  ApplyPolicy("tunnel_policy", TunnelPolicy(profile), "verify")

Activate ==
  /\ pc = "activate"
  /\ \/ /\ active' = active \union {profile}
        /\ leg' = 2
        /\ Goto("inspect")
     \/ /\ active' \in {active, active \union {profile}}
        /\ NextCandidate
        /\ UNCHANGED leg
  /\ UNCHANGED <<phase, files, fw, network, mode, intent, session, schedule,
                 tracking, base, untried, profile>>

\* configure_tunnel_dns(), then _wait_for_verification().
AwaitVerification ==
  /\ pc = "verify"
  /\ \/ Verifiable(profile, base) /\ Goto("connected")
     \/ NextCandidate
  /\ UNCHANGED <<machine, memory>>

\* The candidate passed: the outcome in memory, _persist() and _notify().
Connected ==
  /\ pc = "connected"
  /\ mode' = "connected" /\ current' = profile /\ covered' = base
  /\ retryAt' = "never"
  /\ WriteState(enabled, target, Finish)
  /\ ForgetAttempt
  /\ UNCHANGED <<phase, saved, fw, active, network, intent, pauseUntil, tracking>>

\* _failure() after _emergency_disconnect(); _notify() writes a file.
Failed ==
  /\ pc = "failed"
  /\ mode' = "failed" /\ retryAt' = "later"
  /\ Finish \/ RaiseOSError
  /\ UNCHANGED <<machine, intent, session, pauseUntil, tracking, attempt>>

-----------------------------------------------------------------------------
(* The machine around the daemon.                                          *)

\* Mutant: only a valid, enabled intent is protected.
MayBootOpenUnlessEnabled == disk.intent # "enabled"

\* The early unit: direct networking is for a machine without an intent and
\* without a pending DNS restoration; everything else gets the quarantine.
\* Any failure of the first command ends in one more apply_quarantine().
MayBootOpen == disk.intent = "disabled" /\ saved = NothingSaved

EarlyFirewall ==
  /\ phase = "off"
  /\ \/ MayBootOpen /\ fw' = Open /\ phase' = "early"
     \/ fw' = Quarantine /\ phase' = "early"
     \/ fw' \in QuarantineFailures(fw) /\ phase' = "blocked"
  /\ UNCHANGED <<files, active, network, control, memory>>

\* NetworkManager.service requires the early unit.
StartNetworkManager ==
  /\ phase = "early"
  /\ phase' = "net"
  /\ UNCHANGED <<files, fw, active, network, control, memory>>

PowerLoss ==
  /\ phase # "off"
  /\ phase' = "off"
  /\ fw' = Open /\ active' = {}
  /\ dns' = [l \in Links |-> "own"]
  /\ Dead
  /\ UNCHANGED <<files, physical>>

\* Someone edited or damaged state.json.
Corruption ==
  /\ phase = "off" /\ disk.intent # "malformed"
  /\ disk' = [intent |-> "malformed", target |-> NoTarget]
  /\ UNCHANGED <<phase, saved, fw, active, network, control, memory>>

Networked == phase \in {"net", "up"}

\* A default route appears on a link or goes; a link that disappears, or
\* that NetworkManager configures again, has the routing of its own.
UnderlayChanges ==
  /\ Networked
  /\ \E l \in Links :
       /\ physical' = IF l \in physical THEN physical \ {l} ELSE physical \union {l}
       /\ dns' \in {dns, [dns EXCEPT ![l] = "own"]}
  /\ UNCHANGED <<phase, files, fw, active, control, memory>>

Republish ==
  /\ Networked
  /\ \E l \in physical : dns[l] # "own" /\ dns' = [dns EXCEPT ![l] = "own"]
  /\ UNCHANGED <<phase, files, fw, active, physical, control, memory>>

TunnelDrops ==
  /\ Networked
  /\ \E p \in active : active' = active \ {p}
  /\ UNCHANGED <<phase, files, fw, network, control, memory>>

TimePasses ==
  /\ \/ retryAt = "later" /\ retryAt' = "due" /\ UNCHANGED pauseUntil
     \/ pauseUntil = "later" /\ pauseUntil' = "due" /\ UNCHANGED retryAt
  /\ UNCHANGED <<machine, control, mode, intent, session, tracking, attempt>>

Environment ==
  \/ UnderlayChanges \/ Republish \/ TunnelDrops \/ TimePasses
  \/ EarlyFirewall \/ StartNetworkManager \/ PowerLoss \/ Corruption

-----------------------------------------------------------------------------
(* A fresh installation, powered off.                                      *)
Init ==
  /\ phase = "off"
  /\ disk = [intent |-> "disabled", target |-> NoTarget]
  /\ saved = NothingSaved
  /\ fw = Open
  /\ active = {}
  /\ dns = [l \in Links |-> "own"]
  /\ physical \in SUBSET Links
  /\ pc = "dead" /\ handler = "none" /\ ret = "none"
  /\ mode = "disabled" /\ enabled = FALSE /\ target = NoTarget
  /\ current = NoProfile /\ covered = {}
  /\ retryAt = "never" /\ pauseUntil = "never"
  /\ dnsRestore = NothingSaved /\ bootstrap = {}
  /\ base = {} /\ untried = {} /\ profile = NoProfile /\ leg = 1

Request ==
  \/ \E to \in Targets : Connect(to)
  \/ Retry \/ Disconnect \/ Pause

Tick == PauseExpires \/ AttemptDue \/ VerifyFails \/ TickQuiet

Subroutine ==
  \/ Isolate \/ Detach \/ Close \/ UndoDns \/ Unwind
  \/ DirectDetach \/ DirectDns \/ DirectOpen

Handling ==
  \/ BootClose \/ BootClear \/ Finished
  \/ PersistConnecting \/ DisconnectPersist \/ DisconnectClear
  \/ PauseClear \/ PausePersist \/ Abort \/ Emergency \/ EmergencyDone

Attempt ==
  \/ Pick \/ GiveUp \/ Inspect \/ Stale \/ Capture \/ Configure
  \/ BasePolicy \/ EndpointsPolicy \/ ConnectedPolicy \/ Activate
  \/ AwaitVerification \/ Connected \/ Failed

\* Everything the daemon does once it runs, but take a request.
Progress == SelectTimeout \/ Exit \/ Tick \/ Subroutine \/ Handling \/ Attempt

Next ==
  \/ Start \/ Request \/ Progress \/ Crash \/ Environment

Spec == Init /\ [][Next]_vars

(* The loop always goes on: a handler's next step is a plain call, the      *)
(* selector wakes up after two seconds, and serve() ticks after every       *)
(* request.  Clocks advance.  Nothing is assumed about requests, about the  *)
(* success of any command, or about a restart after a crash.                *)
FairSpec == Spec /\ WF_vars(Progress) /\ WF_vars(TimePasses)
=============================================================================
