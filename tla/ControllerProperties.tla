------------------------ MODULE ControllerProperties ------------------------
(***************************************************************************)
(* What the controller promises, as properties of Controller.              *)
(***************************************************************************)
EXTENDS Controller, Policy

-----------------------------------------------------------------------------
(* Safety.                                                                 *)

(* A link whose routing the backend has changed can be given back what it  *)
(* had: dns.json records the link's own routing for as long as the change  *)
(* lasts, through crashes, restarts, failed writes and a changing underlay *)
(* ("Before changing a physical link, the backend persists its original    *)
(* domains", _configure_lan_dns).                                          *)
DnsRecoverable == \A l \in Links : dns[l] # "own" => saved[l] = "own"

(* No snapshot, on disk or in memory, ever records a routing that the      *)
(* backend itself wrote: a retry, a restart or a second candidate never    *)
(* captures the restricted state as if it were the original one.           *)
SnapshotClean ==
  \A l \in Links : saved[l] \in {"none", "own"} /\ dnsRestore[l] \in {"none", "own"}

(* While the daemon runs, every link that may still carry an endpoint's    *)
(* host-name route is registered for cleanup, partial failures of          *)
(* configure_lan_dns and of the cleanup itself included.                   *)
BootstrapTracked ==
  pc # "dead" => \A l \in Links : dns[l] = "hostname" => l \in bootstrap

(* The daemon never waits with a host-name route left behind: it is        *)
(* connected, failed, paused or disabled over the links it cleaned up, or  *)
(* it has not got back to its loop.  A cleanup that keeps failing ends in  *)
(* a restart, which starts from dns.json.                                  *)
NoPendingCleanup == Serving => bootstrap = {}

(* Whenever an attempt is scheduled (the mode is connecting, or failed     *)
(* with a retry to come) the table is there and has no exception for any   *)
(* endpoint or tunnel, whichever request failed on the way.                *)
RetryUnderBarrier ==
  Serving /\ retryAt # "never" =>
    fw.table /\ fw.endpoints = {} /\ fw.tunnels = {}

(* From the choice of a candidate to its verification the table is there   *)
(* and its exceptions are those of this candidate alone, whatever the      *)
(* candidate before it left behind when one of its commands failed.        *)
AttemptConfined ==
  pc \in AttemptSteps =>
    fw.table /\ fw.endpoints \union fw.tunnels \subseteq {profile}

(* A connection is what the user asked for and what a restart would ask    *)
(* for again: state.json has the same target, the profile is one of the    *)
(* target's, and no exception of the table is for another profile.         *)
ConnectedAsIntended ==
  Serving /\ mode = "connected" =>
    /\ disk = [intent |-> "enabled", target |-> target]
    /\ current \in CandidatesOf[target]
    /\ fw.table
    /\ fw.endpoints \union fw.tunnels \subseteq {current}

(* A pause cannot become permanent by a restart or a lost deadline: the    *)
(* intent is on disk, the expiry is set, and no tunnel is left up.         *)
PauseResumes ==
  Serving /\ mode = "paused" =>
    /\ disk = [intent |-> "enabled", target |-> target]
    /\ pauseUntil # "never"
    /\ active = {}

(* No limbo: a daemon that waits in connecting will attempt at its next    *)
(* tick, whichever exception ended the previous handler.                   *)
ConnectingIsScheduled == Serving /\ mode = "connecting" => retryAt = "due"

(* Between the early unit and the daemon's first start the table is there  *)
(* if state.json asks for protection or cannot be understood, and if a     *)
(* DNS restoration is pending.                                             *)
EarlyBarrier ==
  phase \in {"early", "net"} =>
    fw.table \/ (disk.intent = "disabled" /\ \A l \in Links : saved[l] = "none")

-----------------------------------------------------------------------------
(* What the packets of this machine and of its guests may do.              *)

\* The profile whose tunnel is promised, if any.
Tunnel == IF mode = "connected" THEN current ELSE NoProfile

\* Which table keeps the promise of which tunnel (constants).
Promises == [table : Firewalls, tunnel : Profiles \union {NoProfile}]

OutputPromises ==
  {<<q.table, q.tunnel>> : q \in {r \in Promises : LeavesOnly(r.table, r.tunnel)}}

ForwardPromises ==
  {<<q.table, q.tunnel>> : q \in {r \in Promises : PassesOnly(r.table, r.tunnel)}}

Protecting == Serving /\ (mode = "connected" \/ retryAt # "never")

(* A daemon that reports a connection, or that waits for its next attempt, *)
(* lets no packet of this machine out but into the tunnel it reports, as   *)
(* WireGuard's own to that tunnel's endpoint, to the LAN without its DNS,  *)
(* and for the local protocols: the order of the rendered rules, whatever  *)
(* commands failed, included.                                              *)
OutputConfined == Protecting => <<fw, Tunnel>> \in OutputPromises

(* Nor does it forward a container's or a virtual machine's packets around *)
(* the tunnel, or connections to them from outside.                        *)
GuestsConfined == Protecting => <<fw, Tunnel>> \in ForwardPromises

-----------------------------------------------------------------------------
(* What a step may never do.                                               *)

(* Only pause and disconnect remove the table of a daemon that holds an    *)
(* intent: no crash, restart, emergency or failed command opens the        *)
(* network behind the user's back.                                         *)
DirectOnlyByIntent ==
  [][fw.table /\ ~fw'.table /\ phase' = "up" =>
       handler \in {"disconnect", "pause"} \/ ~enabled]_vars

(* A disconnect that is acknowledged is complete and durable: disabled on  *)
(* disk, no table, no managed tunnel, every link as it was, nothing left   *)
(* to restore.                                                             *)
DisconnectIsComplete ==
  [][pc = "disconnect_clear" /\ pc' = "tick" =>
       /\ disk'.intent = "disabled"
       /\ saved' = NothingSaved
       /\ fw' = Open
       /\ active' = {}
       /\ \A l \in Links : dns'[l] = "own"]_vars

(* state.json never starts to ask for protection while traffic is direct:  *)
(* the barrier comes first, whatever happens to either of the two steps.   *)
(* (A pause or a disconnect, which open the network, may be what brings an *)
(* intent to disk that an earlier connect failed to write.)                *)
IntentBehindBarrier ==
  [][disk.intent # "enabled" /\ disk'.intent = "enabled" =>
       fw'.table \/ handler \in {"disconnect", "pause"}]_vars

-----------------------------------------------------------------------------
(* The controller, its files and the host's firewall are what the user was *)
(* promised.                                                               *)

ReportedMode == IF pc = "dead" THEN "off" ELSE mode

WantedTarget == IF enabled THEN target ELSE NoTarget

StoredTarget == IF disk.intent = "enabled" THEN disk.target
                ELSE IF disk.intent = "disabled" THEN NoTarget ELSE "damaged"

Promise == INSTANCE Protection WITH
  mode    <- ReportedMode,
  wanted  <- WantedTarget,
  stored  <- StoredTarget,
  barrier <- fw.table,
  through <- fw.endpoints \union fw.tunnels,
  leaving <- handler \in {"disconnect", "pause"}

(* Every step of the daemon, of the machine and of the network is a step   *)
(* of Protection: through every failed command, crash and reboot, traffic  *)
(* is direct on the user's word alone, the mode is the one that the        *)
(* architecture's state diagram allows next, an attempt starts and fails   *)
(* behind the barrier, and connected means one profile of the wanted       *)
(* target.                                                                 *)
ImplementsProtection == Promise!Spec

-----------------------------------------------------------------------------
(* Liveness, under FairSpec.                                               *)

(* No failure keeps the daemon from its loop: every handler, with the      *)
(* exceptions raised while an exception is handled, ends in the loop or in *)
(* the end of the process.                                                 *)
ReturnsToLoop ==
  pc \notin Loop \union {"dead"} ~> pc \in Loop \union {"dead"}

(* An attempt ends: connecting is left for connected, failed or a crash,   *)
(* even if requests keep arriving.                                         *)
AttemptSettles == mode = "connecting" ~> mode # "connecting"

(* A pause ends, unless it is renewed for ever.                            *)
PauseEnds == <>[][~Pause]_vars => (mode = "paused" ~> mode # "paused")

-----------------------------------------------------------------------------
(* Statements of the documentation that the code does not keep.            *)

(* "Enabled connecting and failed states retain default-drop output and    *)
(* forwarding policy."  A pause or a disconnect that fails in or after     *)
(* remove_firewall(), or a second one in a pause, ends in failed without   *)
(* the table.                                                              *)
FailedKeepsBarrier ==
  Serving /\ enabled /\ mode \in {"connecting", "failed"} => fw.table
=============================================================================
