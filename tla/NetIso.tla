------------------------------- MODULE NetIso -------------------------------
(***************************************************************************)
(* netiso.sh: the nftables table that contains the analysis bridge, the    *)
(* kernel's connection tracking under it, and the uplink of gateway mode.  *)
(*                                                                         *)
(* The ruleset is a predicate on packets; `nft -f` replaces it in one      *)
(* transaction (the script's add, flush and table are one file).  What     *)
(* outlives a ruleset is conntrack: a flow the old rules let through stays *)
(* "established" for the new ones.                                         *)
(*                                                                         *)
(* Assumed of the kernel: a masqueraded flow is dropped when its packets   *)
(* would leave by another interface than the one it was masqueraded for,   *)
(* and purged when that interface goes down.  Frames from guest to guest   *)
(* stay in the bridge and meet no chain of the table unless br_netfilter   *)
(* is loaded, which netiso.sh does not do.  FAKENET_IP is the host, its    *)
(* default in sandbox.conf.                                                *)
(***************************************************************************)
EXTENDS Naturals, FiniteSets

CONSTANTS
  Packets,     \* the first packets of the flows guests try to open
  LibvirtNat,  \* does libvirt masquerade the analysis network as well?
  MaxFlows     \* bound on the flows tracked at once

Modes == {"isolated", "simulated", "gateway"}
Dests == {"host", "hostalt", "guest", "lan", "private", "internet"}
\* hostalt: an address of the host other than HOST_IP; lan: a network the host
\* is on; private: another RFC1918 address, behind the default route.
Packet == [fam : {"v4", "v6"}, src : {"subnet", "outside"},
           proto : {"tcp", "udp", "icmp"}, dst : Dests,
           port : {"rs", "dns", "dhcp", "other"}]

ASSUME NetAssumption ==
  /\ Packets \subseteq Packet
  /\ LibvirtNat \in BOOLEAN
  /\ MaxFlows \in Nat

VARIABLES
  bridgenf, \* is br_netfilter loaded?
  table,   \* the loaded sandbox_iso ruleset
  link,    \* is GATEWAY_IFACE up?
  route,   \* the interface of the default route
  flows    \* conntrack entries of the guests

vars == <<bridgenf, table, link, route, flows>>

NoTable == [mode |-> "none", dns |-> FALSE]
Tables == [mode : Modes, dns : BOOLEAN] \cup {NoTable}
Oifs == {"bridge", "lan", "wan", "uplink"}
\* to: where the flow goes after DNAT; masq: the interface it is masqueraded
\* for; born: the mode it was opened under.
Flow == [from : {"guest", "host"}, pkt : Packet, to : Dests,
         masq : {"none", "lan", "wan", "uplink"}, born : Modes \cup {"none"}]

TypeOK ==
  /\ table \in Tables
  /\ link \in BOOLEAN
  /\ route \in {"wan", "uplink"} /\ (route = "uplink" => link)
  /\ bridgenf \in BOOLEAN
  /\ flows \subseteq Flow
  /\ \A f \in flows : f.to # f.pkt.dst => f.born = "simulated" /\ f.to = "host"

Init ==
  /\ bridgenf \in BOOLEAN
  /\ table = NoTable /\ link = FALSE /\ route = "wan" /\ flows = {}

-----------------------------------------------------------------------------
(* build_ruleset: what the three hooks do with a packet from the bridge.   *)

\* A frame the table never sees.
Bridged(p) == p.dst = "guest" /\ ~bridgenf

\* Mutation: the DNAT chain is loaded in every mode.
Dnat_AnyMode(t, p) ==
  IF p.fam = "v4" /\ p.dst # "host" /\ p.proto \in {"tcp", "udp"} /\ ~Bridged(p)
  THEN "host" ELSE p.dst

\* Chain prerouting (simulated mode): DNAT of a new IPv4 flow.
Dnat(t, p) ==
  IF /\ t.mode = "simulated" /\ p.fam = "v4"
     /\ p.dst # "host" /\ p.proto \in {"tcp", "udp"} /\ ~Bridged(p)
  THEN "host" ELSE p.dst

\* Which interface a packet to `to` leaves by.
Oif(to) == CASE to = "guest" -> "bridge"
             [] to = "lan" -> "lan"
             [] OTHER -> route

\* The first three rules of both chains.
Screened(p) == p.fam = "v4" /\ p.src = "subnet"

DhcpDns(p) == \/ p.proto = "udp" /\ p.port \in {"dns", "dhcp"}
              \/ p.proto = "tcp" /\ p.port = "dns"
ResultServer(p, to) == to = "host" /\ p.proto = "tcp" /\ p.port = "rs"

\* Mutation: the result server's rule went into the ALLOW_DHCP_DNS block.
InputAccepts_RsWithDns(t, p, to) ==
  \/ t.dns /\ (ResultServer(p, to) \/ DhcpDns(p))
  \/ t.mode = "simulated" /\ to = "host" /\ p.proto \in {"tcp", "udp"}

InputAccepts(t, p, to) ==
  \/ ResultServer(p, to)
  \/ t.dns /\ DhcpDns(p)
  \/ t.mode = "simulated" /\ to = "host" /\ p.proto \in {"tcp", "udp"}

\* Mutation: egress is accepted whatever the interface.
ForwardAccepts_AnyOif(t, to) ==
  t.mode = "gateway" /\ to \notin {"guest", "lan", "private"}

\* Mutation: private addresses are not dropped before egress.
ForwardAccepts_Private(t, to) ==
  /\ Oif(to) # "bridge"
  /\ t.mode = "gateway" /\ Oif(to) = "uplink"

ForwardAccepts(t, to) ==
  /\ Oif(to) # "bridge" /\ to \notin {"lan", "private"}
  /\ t.mode = "gateway" /\ Oif(to) = "uplink"

AcceptsNew(t, p) ==
  LET to == Dnat(t, p) IN
  \/ t.mode = "none" \/ Bridged(p)
  \/ /\ Screened(p)
     /\ IF to \in {"host", "hostalt"} THEN InputAccepts(t, p, to)
                                      ELSE ForwardAccepts(t, to)

\* Mutation: gateway mode has no masquerade rule of its own.
Masquerade_None(t, to) ==
  IF to \in {"lan", "private", "internet"} /\ LibvirtNat THEN Oif(to) ELSE "none"

\* Chain postrouting (gateway mode), and libvirt's own.
Masquerade(t, to) ==
  IF \/ t.mode = "gateway" /\ Oif(to) = "uplink" /\ to = "internet"
     \/ LibvirtNat /\ to \in {"lan", "private", "internet"}
  THEN Oif(to) ELSE "none"

\* Do the chains accept the next packet of a flow already tracked?
AcceptsEstablished(t, f) ==
  t.mode = "none" \/ Bridged(f.pkt) \/ Screened(f.pkt)

\* Does it arrive?  (The kernel's check of masqueraded flows comes last.)
Passes(f) == /\ AcceptsEstablished(table, f)
             /\ f.masq = "none" \/ f.masq = Oif(f.to)

-----------------------------------------------------------------------------
(* netiso.sh apply and down.                                               *)

Apply(m, dns) ==
  /\ table' = [mode |-> m, dns |-> dns]
  /\ UNCHANGED <<bridgenf, link, route, flows>>

Down == table' = NoTable /\ UNCHANGED <<bridgenf, link, route, flows>>

-----------------------------------------------------------------------------
(* Guests, CAPE and the host.                                              *)

Track(f) == /\ Cardinality(flows \cup {f}) <= MaxFlows
            /\ flows' = flows \cup {f}
            /\ UNCHANGED <<bridgenf, table, link, route>>

GuestOpens(p) ==
  /\ AcceptsNew(table, p)
  /\ LET to == Dnat(table, p) IN
     Track([from |-> "guest", pkt |-> p, to |-> to,
            masq |-> Masquerade(table, to), born |-> table.mode])

\* CAPE's connection to the agent; the guest's replies are what is filtered.
AgentReply == [fam |-> "v4", src |-> "subnet", proto |-> "tcp",
               dst |-> "host", port |-> "other"]
HostOpens ==
  Track([from |-> "host", pkt |-> AgentReply, to |-> "host", masq |-> "none",
         born |-> table.mode])

FlowEnds(f) ==
  flows' = flows \ {f} /\ UNCHANGED <<bridgenf, table, link, route>>

LinkUp == /\ ~link /\ link' = TRUE /\ route' = "uplink"
          /\ UNCHANGED <<bridgenf, table, flows>>

LinkDown == /\ link /\ link' = FALSE /\ route' = "wan"
            /\ flows' = {f \in flows : f.masq # "uplink"}
            /\ UNCHANGED <<bridgenf, table>>

\* The default route moves off the tunnel, or back, while the tunnel is up.
RouteMoves == /\ link
              /\ route' = IF route = "wan" THEN "uplink" ELSE "wan"
              /\ UNCHANGED <<bridgenf, table, link, flows>>

\* nothing saves the table across a reboot.
HostReboots == /\ table' = NoTable /\ flows' = {}
               /\ link' = FALSE /\ route' = "wan" /\ UNCHANGED bridgenf

Next ==
  \/ \E m \in Modes, dns \in BOOLEAN : Apply(m, dns)
  \/ Down
  \/ \E p \in Packets : GuestOpens(p)
  \/ HostOpens
  \/ \E f \in flows : FlowEnds(f)
  \/ LinkUp \/ LinkDown \/ RouteMoves
  \/ HostReboots

Spec == Init /\ [][Next]_vars

-----------------------------------------------------------------------------
(* Properties.                                                             *)

\* The header of netiso.sh, mode by mode: where a guest may get to.  In simulated
\* mode the fake internet is the host: all its ports are open, of more services
\* than line 23 of the header names.
HostServices(t, p, to) ==
  to \in {"host", "hostalt"} /\ (ResultServer(p, to) \/ (t.dns /\ DhcpDns(p)))
Documented(t, p, to) ==
  CASE t.mode = "isolated"  -> HostServices(t, p, to)
    [] t.mode = "simulated" -> to = "host" /\ p.proto \in {"tcp", "udp"}
    [] OTHER                -> \/ HostServices(t, p, to)
                               \/ to = "internet" /\ Oif(to) = "uplink"

\* The rules in their order let a guest open exactly the flows the header allows
\* the mode, IPv4 from the subnet: no rule before the final drop accepts more,
\* none drops what a later one is to accept.  Frames the table does not see are
\* left out: "guest-to-guest is blocked" (line 22) needs br_netfilter.
NewFlowsFollowMode ==
  table.mode # "none" =>
    \A p \in Packets : ~Bridged(p) =>
      (AcceptsNew(table, p)
         <=> Screened(p) /\ Documented(table, p, Dnat(table, p)))

\* Conntrack carries flows from one ruleset into the next (the rule "ct state
\* established,related accept"): under any table, what still gets to another
\* guest, the LAN or another private network was opened while no table was
\* loaded, and what gets to the internet then or in gateway mode, all of it IPv4
\* from the subnet.  No sequence of modes, links and routes opens another way.
OnlyOldFlowsLeak ==
  table.mode # "none" =>
    \A f \in flows :
      f.from = "guest" /\ ~Bridged(f.pkt) /\ Passes(f) =>
        /\ Screened(f.pkt)
        /\ f.to \in {"guest", "lan", "private"} => f.born = "none"
        /\ f.to = "internet" => f.born \in {"none", "gateway"}

\* The kill-switch of gateway mode: a flow opened in it goes by the uplink or
\* not at all, however the link and the route come and go.
KillSwitch ==
  \A f \in flows :
    f.from = "guest" /\ f.born = "gateway" /\ f.to = "internet" /\ Passes(f)
      => Oif(f.to) = "uplink"

\* Containment does not cut CAPE off: in every mode a guest reaches the result
\* server, and its agent's answers reach CAPE, also across a change of mode.
AnalysisWorks ==
  /\ \A p \in Packets : Screened(p) /\ p.proto = "tcp" /\ p.port = "rs"
                        /\ p.dst = "host" => AcceptsNew(table, p)
  /\ \A f \in flows : f.from = "host" => Passes(f)

\* netiso.sh:11-12: in isolated mode guests reach only the result server (and
\* DHCP/DNS), everything else is dropped: asked of flows that a ruleset of
\* netiso.sh let through when they were opened.
IsolatedReachesHostOnly ==
  table.mode = "isolated" =>
    \A f \in flows :
      /\ f.from = "guest" /\ f.born \in Modes
      /\ ~Bridged(f.pkt) /\ Passes(f)
      => f.to \in {"host", "hostalt"}
=============================================================================
