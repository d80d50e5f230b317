------------------------------- MODULE Policy -------------------------------
(***************************************************************************)
(* The two chains that nftables.py renders, rule by rule: which packets of *)
(* this machine, and which packets that it forwards for containers and     *)
(* virtual machines, each of the tables of Host lets through.  The first   *)
(* rule that matches decides, so the order of the rules is part of what is *)
(* modelled.                                                               *)
(*                                                                         *)
(* A rule is, for a given packet, whether it matches and whether it        *)
(* accepts.  A rule that is not rendered is one that matches nothing; the  *)
(* rules for IPv4 and IPv6, whose matches are disjoint, are one.           *)
(***************************************************************************)
EXTENDS Host, Naturals

\* Interfaces by what they are: underlays, tunnels, and the rest of the host.
Devices == Links \union Profiles \union {"lo", "bridge", "alfred", "other"}

\* The far end of a packet: a peer's endpoint (the profile), an address of a
\* LAN prefix (DNS or not), a configured LAN resolver's port 53, the local
\* protocols (DHCP, mDNS, SSDP; neighbor discovery), alfred-vpn's endpoint
\* and networks, and everything else.
Places == Profiles \union
  {"lan", "lan_dns", "resolver", "local", "neighbor", "alfred_endpoint",
   "alfred_net", "internet"}

\* Who sends: the kernel's WireGuard (the fwmark), systemd-resolved, root,
\* anybody else.
Senders == {"wireguard", "resolved", "root", "user"}

OutPackets == [dev : Devices, to : Places, by : Senders]

\* A forwarded packet; "far" is the place that is not the guest.
ForwardPackets == [in : Devices, dev : Devices, far : Places, established : BOOLEAN]

\* FirewallContext.
Contexts == [tunnels   : SUBSET Profiles,
             endpoints : SUBSET Profiles,
             lan       : BOOLEAN,          \* prefixes of the underlays
             resolvers : BOOLEAN,
             alfred    : BOOLEAN,          \* endpoints and routes
             local     : BOOLEAN,          \* bridges of guests
             physical  : SUBSET Links]

\* What render() refuses: exceptions without a verified physical interface.
Renderable(c) == c.endpoints # {} \/ c.lan \/ c.alfred => c.physical # {}

-----------------------------------------------------------------------------
Accept(hit) == [hit |-> hit, accept |-> TRUE]
Drop(hit)   == [hit |-> hit, accept |-> FALSE]

\* The verdict of a chain with the policy drop.
Accepted(rules) ==
  \E i \in DOMAIN rules :
    /\ rules[i].hit /\ rules[i].accept
    /\ \A j \in DOMAIN rules : j < i => ~rules[j].hit

\* The device match of the underlay rules: absent without an underlay.
OnUnderlay(c, dev) == c.physical = {} \/ dev \in c.physical

Lan == {"lan", "lan_dns", "resolver"}

\* Mutant: only the DNS of the configured resolvers is dropped.
DnsOfResolvers == {"resolver"}

\* Port 53 of a LAN address.
Dns == {"lan_dns", "resolver"}

\* chain output of render(), with _output_underlay().
Output(c, pkt) ==
  LET underlay == OnUnderlay(c, pkt.dev)
  IN  << Accept(pkt.dev = "lo"),
         Accept(pkt.dev \in c.tunnels),
         Accept(underlay /\ pkt.by = "wireguard" /\ pkt.to \in c.endpoints),
         Accept(underlay /\ pkt.by = "root" /\ c.alfred /\ pkt.to = "alfred_endpoint"),
         Accept(underlay /\ pkt.by = "resolved" /\ c.resolvers /\ pkt.to = "resolver"),
         Drop(underlay /\ c.lan /\ pkt.to \in Dns),
         Accept(underlay /\ c.lan /\ pkt.to \in Lan),
         Accept(underlay /\ pkt.to = "local"),
         Accept(underlay /\ c.physical # {} /\ pkt.to = "neighbor"),
         Accept(pkt.dev = "alfred" /\ c.alfred /\ pkt.to = "alfred_net"),
         Drop(TRUE) >>

\* Mutant: connections to a guest need not be known.
ReturningAny(c, pkt) == c.local /\ pkt.dev = "bridge"

Returning(c, pkt) == c.local /\ pkt.dev = "bridge" /\ pkt.established

\* chain forward of render().
Forward(c, pkt) ==
  LET out      == c.local /\ pkt.in = "bridge"
      back     == Returning(c, pkt)
      underlay == pkt.dev \in c.physical /\ c.lan /\ pkt.far \in Lan
  IN  << Accept(out /\ pkt.dev = "bridge"),
         Drop(out /\ underlay /\ pkt.far \in Dns),
         Accept(out /\ underlay),
         Accept(back /\ c.lan /\ pkt.in \in c.physical /\ pkt.far \in Lan),
         Accept(out /\ pkt.dev \in c.tunnels),
         Accept(back /\ pkt.in \in c.tunnels),
         Accept(out /\ pkt.dev = "alfred" /\ c.alfred /\ pkt.far = "alfred_net"),
         Accept(back /\ pkt.in = "alfred" /\ c.alfred /\ pkt.far = "alfred_net"),
         Drop(TRUE) >>

-----------------------------------------------------------------------------
(* The tables of Host.  Without the table everything passes; the           *)
(* quarantine accepts the loopback alone; any other table was rendered     *)
(* from one of the contexts that agree with what Host records of it.       *)

ContextsOf(f) ==
  {c \in [tunnels : {f.tunnels}, endpoints : {f.endpoints}, lan : BOOLEAN,
          resolvers : BOOLEAN, alfred : BOOLEAN, local : BOOLEAN,
          physical : SUBSET Links] : Renderable(c)}

Leaves(f, pkt) ==
  \/ ~f.table
  \/ ~f.lan /\ pkt.dev = "lo"
  \/ f.lan /\ \E c \in ContextsOf(f) : Accepted(Output(c, pkt))

Passes(f, pkt) ==
  \/ ~f.table
  \/ f.lan /\ \E c \in ContextsOf(f) : Accepted(Forward(c, pkt))

-----------------------------------------------------------------------------
(* What protection with the tunnel of profile p, or with none, promises.   *)

\* This machine reaches itself, the tunnel of p and alfred's networks; on an
\* underlay WireGuard the endpoint of p, root alfred's, and everybody the LAN
\* but for its DNS, which systemd-resolved alone may ask.
MayLeave(pkt, p) ==
  \/ pkt.dev \in {"lo", p}
  \/ pkt.dev = "alfred" /\ pkt.to = "alfred_net"
  \/ /\ pkt.dev \in Links
     /\ \/ pkt.to = p /\ pkt.by = "wireguard"
        \/ pkt.to = "alfred_endpoint" /\ pkt.by = "root"
        \/ pkt.to \in {"lan", "neighbor"}
  \/ pkt.to = "resolver" /\ pkt.by = "resolved"
  \/ pkt.to = "local"

\* A guest reaches other guests, the tunnel of p, the LAN but for its DNS and
\* alfred's networks, and from there gets answers, but no new connections.
MayPass(pkt, p) ==
  \/ pkt.in = "bridge" /\ pkt.dev \in {"bridge", p}
  \/ pkt.in = "bridge" /\ pkt.dev \in Links /\ pkt.far = "lan"
  \/ pkt.in = "bridge" /\ pkt.dev = "alfred" /\ pkt.far = "alfred_net"
  \/ /\ pkt.dev = "bridge" /\ pkt.established
     /\ \/ pkt.in = p
        \/ pkt.in \in Links /\ pkt.far \in Lan
        \/ pkt.in = "alfred" /\ pkt.far = "alfred_net"

LeavesOnly(f, p) == \A pkt \in OutPackets : Leaves(f, pkt) => MayLeave(pkt, p)

PassesOnly(f, p) == \A pkt \in ForwardPackets : Passes(f, pkt) => MayPass(pkt, p)
=============================================================================
