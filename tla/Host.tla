-------------------------------- MODULE Host --------------------------------
(***************************************************************************)
(* What the host commands that system.py runs can do to the machine, as    *)
(* operators on values: which firewall an `nft` replacement leaves behind, *)
(* which DNS routing a series of `resolvectl` calls leaves behind.  A      *)
(* command can fail before, in the middle of, or after its effect (a       *)
(* timeout is reported as a failure whatever the command did), so each     *)
(* failing operation has a set of possible outcomes.                       *)
(***************************************************************************)
CONSTANTS
  Links,     \* names of physical links (eth0, wlan0, ...)
  Profiles   \* imported WireGuard profiles

-----------------------------------------------------------------------------
(* The nftables table inet omarchy_wireguard.  "table" says whether the    *)
(* table, hence its default drop policy, is there; the other fields are    *)
(* the accept rules that distinguish one rendered policy from another.     *)

Firewalls == [table     : BOOLEAN,           \* drop by default
              lan       : BOOLEAN,           \* LAN prefixes and LAN resolvers
              endpoints : SUBSET Profiles,   \* marked UDP to a peer's address
              tunnels   : SUBSET Profiles]   \* anything into a tunnel device

Open == [table |-> FALSE, lan |-> FALSE, endpoints |-> {}, tunnels |-> {}]

\* render_quarantine(): no exception that depends on the host.
Quarantine == [table |-> TRUE, lan |-> FALSE, endpoints |-> {}, tunnels |-> {}]

\* render() of a context without endpoints and tunnel.
Closed == [table |-> TRUE, lan |-> TRUE, endpoints |-> {}, tunnels |-> {}]

\* render() of a context with the endpoints of profile p.
EndpointPolicy(p) ==
  [table |-> TRUE, lan |-> TRUE, endpoints |-> {p}, tunnels |-> {}]

\* render() of a context with the endpoints and the tunnel interface of p.
TunnelPolicy(p) ==
  [table |-> TRUE, lan |-> TRUE, endpoints |-> {p}, tunnels |-> {p}]

\* What "add" without "delete" makes of the table: rules accumulate.
Accumulated(old, new) ==
  [table     |-> TRUE,
   lan       |-> old.lan \/ new.lan,
   endpoints |-> old.endpoints \union new.endpoints,
   tunnels   |-> old.tunnels \union new.tunnels]

(* _replace_firewall() sends delete + add; when nft reports a failure it   *)
(* sends the add alone; it then compares what nft lists with what nft      *)
(* echoed and, on a mismatch, may install the quarantine.  When it raises: *)
(* nothing happened, or the new policy is there but could not be           *)
(* confirmed, or the quarantine is, or the add fell on the old table and   *)
(* the quarantine that should have replaced the mixture failed too.        *)
ReplaceFailures(old, new) ==
  {old, new, Quarantine, Accumulated(old, new)}

\* The same without quarantine_on_mismatch, for the quarantine itself.
QuarantineFailures(old) ==
  {old, Quarantine, Accumulated(old, Quarantine)}

\* remove_firewall() raises before or after the table is deleted.
RemoveFailures(old) == {old, Open}

-----------------------------------------------------------------------------
(* systemd-resolved's routing domains and default-route flag of one link:  *)
(* the values NetworkManager gave it, the ~lan restriction, or the         *)
(* restriction with the endpoint's host name as one more routing domain.   *)
(* A link on which only one of the two resolvectl calls took effect counts *)
(* as not yet changed.                                                     *)

Routing == {"own", "lan", "hostname"}

\* One entry of dns.json per link, "none" when the link has no entry.
Saved == Routing \union {"none"}

NothingSaved == [l \in Links |-> "none"]

SavedLinks(saved) == {l \in Links : saved[l] # "none"}

\* configure_lan_dns() on a set of links.
Configured(dns, links, routing) ==
  [l \in Links |-> IF l \in links THEN routing ELSE dns[l]]

\* restore_lan_dns() of the entries of a set of links.
Restored(dns, saved, links) ==
  [l \in Links |-> IF l \in links /\ saved[l] # "none" THEN saved[l] ELSE dns[l]]

\* The routings in which some of the links reached the goal: both functions
\* go on (or stop) after a command that failed and then raise.
Partially(dns, goal) ==
  {d \in [Links -> Routing] : \A l \in Links : d[l] \in {dns[l], goal[l]}}

\* Mutant: every underlay is captured again, entry or not.
CapturedAgain(dns, saved, links) ==
  [l \in Links |-> IF l \in links THEN dns[l] ELSE "none"]

\* capture_lan_dns() of the links that have no entry, joined with the
\* entries retained for the links that are still an underlay.
Captured(dns, saved, links) ==
  [l \in Links |-> IF l \notin links THEN "none"
                   ELSE IF saved[l] # "none" THEN saved[l] ELSE dns[l]]
=============================================================================
