--------------------------- MODULE NetIso_proofs ---------------------------
(***************************************************************************)
(* Theorems about NetIso, for every set of packets, any number of flows,   *)
(* and with or without libvirt's masquerade.                               *)
(***************************************************************************)
EXTENDS NetIso, TLAPS

USE NetAssumption

\* Where a packet goes, and for which interface it is masqueraded.
LEMMA Routed ==
  ASSUME TypeOK, NEW p \in Packet
  PROVE  /\ Dnat(table, p) \in Dests
         /\ \A to \in Dests :
              Masquerade(table, to) \in {"none", "lan", "wan", "uplink"}
  BY DEF TypeOK, Dnat, Packet, Dests, Masquerade, Oif

\* What GuestOpens tracks.
FlowOf(p) ==
  [from |-> "guest", pkt |-> p, to |-> Dnat(table, p),
   masq |-> Masquerade(table, Dnat(table, p)), born |-> table.mode]

LEMMA NewFlowType ==
  ASSUME TypeOK, NEW p \in Packets
  PROVE  /\ FlowOf(p) \in Flow
         /\ Dnat(table, p) # p.dst
              => table.mode = "simulated" /\ Dnat(table, p) = "host"
  <1>1. p \in Packet /\ table.mode \in Modes \cup {"none"}
    BY DEF TypeOK, Tables, NoTable
  <1>2. FlowOf(p) \in Flow
    BY <1>1, Routed DEF Flow, FlowOf
  <1>3. Dnat(table, p) # p.dst
          => table.mode = "simulated" /\ Dnat(table, p) = "host"
    BY DEF Dnat
  <1> QED
    BY <1>2, <1>3

LEMMA NextType == TypeOK /\ [Next]_vars => TypeOK'
  <1> SUFFICES ASSUME TypeOK, [Next]_vars PROVE TypeOK'
    OBVIOUS
  <1> USE DEF TypeOK
  <1>1. CASE \E m \in Modes, dns \in BOOLEAN : Apply(m, dns)
    BY <1>1 DEF Apply, Tables
  <1>2. CASE Down
    BY <1>2 DEF Down, Tables
  <1>3. ASSUME NEW p \in Packets, GuestOpens(p) PROVE TypeOK'
    <2>1. /\ flows' = flows \cup {FlowOf(p)}
          /\ UNCHANGED <<bridgenf, table, link, route>>
      BY <1>3 DEF GuestOpens, Track, FlowOf
    <2>2. FlowOf(p).to # FlowOf(p).pkt.dst
            => FlowOf(p).born = "simulated" /\ FlowOf(p).to = "host"
      BY NewFlowType DEF FlowOf
    <2> QED
      BY <2>1, <2>2, NewFlowType
  <1>4. CASE HostOpens
    <2>1. AgentReply \in Packet
      BY DEF AgentReply, Packet, Dests
    <2>2. table.mode \in Modes \cup {"none"}
      BY DEF Tables, NoTable
    <2> DEFINE g == [from |-> "host", pkt |-> AgentReply, to |-> "host",
                     masq |-> "none", born |-> table.mode]
    <2>3. g \in Flow /\ g.to = g.pkt.dst
      BY <2>1, <2>2 DEF Flow, Dests, AgentReply
    <2>4. flows' = flows \cup {g} /\ UNCHANGED <<bridgenf, table, link, route>>
      BY <1>4 DEF HostOpens, Track
    <2> QED
      BY <2>3, <2>4
  <1>5. CASE \E f \in flows : FlowEnds(f)
    BY <1>5 DEF FlowEnds
  <1>6. CASE LinkUp \/ LinkDown \/ RouteMoves
    BY <1>6 DEF LinkUp, LinkDown, RouteMoves
  <1>7. CASE HostReboots
    BY <1>7 DEF HostReboots, Tables
  <1>8. CASE UNCHANGED vars
    BY <1>8 DEF vars
  <1> QED
    BY <1>1, <1>2, <1>3, <1>4, <1>5, <1>6, <1>7, <1>8 DEF Next

(* Every variable keeps its type. *)
THEOREM TypeCorrect == Spec => []TypeOK
  <1>1. Init => TypeOK
    BY DEF Init, TypeOK, Tables
  <1> QED
    BY <1>1, NextType, PTL DEF Spec

\* The rules in their order, hook by hook, against the table of the header.
LEMMA RulesOfMode ==
  ASSUME TypeOK, table.mode # "none", NEW p \in Packets, ~Bridged(p)
  PROVE  AcceptsNew(table, p)
           <=> Screened(p) /\ Documented(table, p, Dnat(table, p))
  <1> DEFINE to == Dnat(table, p)
  <1>1. table.mode \in Modes
    BY DEF TypeOK, Tables, NoTable
  <1>2. to \in Dests /\ p \in Packet
    BY Routed
  <1>3. AcceptsNew(table, p)
          <=> /\ Screened(p)
              /\ IF to \in {"host", "hostalt"} THEN InputAccepts(table, p, to)
                                               ELSE ForwardAccepts(table, to)
    BY DEF AcceptsNew
  <1> HIDE DEF to
  <1>4. CASE table.mode = "isolated"
    <2>1. Documented(table, p, to) <=> HostServices(table, p, to)
      BY <1>4 DEF Documented
    <2>2. ~ForwardAccepts(table, to)
      BY <1>4 DEF ForwardAccepts
    <2>3. HostServices(table, p, to)
            <=> to \in {"host", "hostalt"} /\ InputAccepts(table, p, to)
      BY <1>4 DEF HostServices, InputAccepts
    <2> QED
      BY <1>3, <2>1, <2>2, <2>3 DEF to
  <1>5. CASE table.mode = "simulated"
    <2>1. Screened(p) /\ p.proto \in {"tcp", "udp"} => to = "host"
      BY <1>5 DEF to, Dnat, Screened
    <2>2. InputAccepts(table, p, to) => p.proto \in {"tcp", "udp"}
      BY DEF InputAccepts, ResultServer, DhcpDns
    <2>3. Documented(table, p, to)
            <=> to = "host" /\ p.proto \in {"tcp", "udp"}
      BY <1>5 DEF Documented
    <2>4. to = "host" /\ p.proto \in {"tcp", "udp"} => InputAccepts(table, p, to)
      BY <1>5 DEF InputAccepts
    <2>5. ~ForwardAccepts(table, to)
      BY <1>5 DEF ForwardAccepts
    <2>6. CASE to \in {"host", "hostalt"}
      BY <1>3, <2>1, <2>2, <2>3, <2>4, <2>6 DEF to
    <2>7. CASE to \notin {"host", "hostalt"}
      BY <1>3, <2>1, <2>3, <2>5, <2>7 DEF to
    <2> QED
      BY <2>6, <2>7
  <1>6. CASE table.mode = "gateway"
    <2>1. Documented(table, p, to)
            <=> \/ HostServices(table, p, to)
                \/ to = "internet" /\ Oif(to) = "uplink"
      BY <1>6 DEF Documented
    <2>2. HostServices(table, p, to)
            <=> to \in {"host", "hostalt"} /\ InputAccepts(table, p, to)
      BY <1>6 DEF HostServices, InputAccepts
    <2>3. CASE to \in {"host", "hostalt"}
      BY <1>3, <2>1, <2>2, <2>3 DEF to
    <2>4. CASE to \notin {"host", "hostalt"}
      <3>1. ForwardAccepts(table, to)
              <=> to = "internet" /\ Oif(to) = "uplink"
        BY <1>2, <1>6, <2>4 DEF ForwardAccepts, Oif, Dests, to
      <3> QED
        BY <1>3, <2>1, <2>2, <2>4, <3>1 DEF to
    <2> QED
      BY <2>3, <2>4
  <1> QED
    BY <1>1, <1>4, <1>5, <1>6 DEF Modes

(* Under a loaded ruleset a new flow that the table sees is let through     *)
(* exactly when it is IPv4 from the subnet and goes where the header allows *)
(* the mode; in simulated mode that is every port of the host, which is     *)
(* more than line 23 of the header says (build_ruleset).                    *)
THEOREM RulesFollowHeader == Spec => []NewFlowsFollowMode
  <1>1. TypeOK => NewFlowsFollowMode
    BY RulesOfMode DEF NewFlowsFollowMode
  <1> QED
    BY <1>1, TypeCorrect, PTL

-----------------------------------------------------------------------------
\* A flow opened towards the internet in gateway mode is masqueraded for the
\* uplink: without this a moved route would carry it elsewhere.
UplinkMasqueraded ==
  \A f \in flows :
    f.from = "guest" /\ f.born = "gateway" /\ f.to = "internet"
      => f.masq = "uplink"

LEMMA GatewayOpens ==
  ASSUME TypeOK, NEW p \in Packets, table.mode = "gateway",
         AcceptsNew(table, p), Dnat(table, p) = "internet"
  PROVE  Masquerade(table, "internet") = "uplink"
  BY DEF AcceptsNew, ForwardAccepts, Masquerade, Oif, Bridged, Dnat

LEMMA NextMasqueraded ==
  ASSUME TypeOK, UplinkMasqueraded, [Next]_vars
  PROVE  UplinkMasqueraded'
  <1> USE DEF UplinkMasqueraded
  <1>1. ASSUME NEW p \in Packets, GuestOpens(p) PROVE UplinkMasqueraded'
    <2> DEFINE g == [from |-> "guest", pkt |-> p, to |-> Dnat(table, p),
                     masq |-> Masquerade(table, Dnat(table, p)),
                     born |-> table.mode]
    <2>1. flows' = flows \cup {g} /\ AcceptsNew(table, p)
      BY <1>1 DEF GuestOpens, Track
    <2>2. g.born = "gateway" /\ g.to = "internet" => g.masq = "uplink"
      BY <2>1, GatewayOpens
    <2> QED
      BY <2>1, <2>2
  <1>2. CASE HostOpens
    BY <1>2 DEF HostOpens, Track
  <1>3. CASE \/ \E m \in Modes, dns \in BOOLEAN : Apply(m, dns)
             \/ Down \/ LinkUp \/ RouteMoves \/ UNCHANGED vars
    BY <1>3 DEF Apply, Down, LinkUp, RouteMoves, vars
  <1>4. CASE (\E f \in flows : FlowEnds(f)) \/ LinkDown \/ HostReboots
    BY <1>4 DEF FlowEnds, LinkDown, HostReboots
  <1> QED
    BY <1>1, <1>2, <1>3, <1>4 DEF Next

(* Kill-switch: a flow opened in gateway mode leaves by the uplink or not   *)
(* at all, whatever the link, the route and the ruleset do afterwards       *)
(* (netiso.sh:15-16, the egress rule and the masquerade rule together).     *)
THEOREM KillSwitchHolds == Spec => []KillSwitch
  <1>1. Init => UplinkMasqueraded
    BY DEF Init, UplinkMasqueraded
  <1>2. TypeOK /\ UplinkMasqueraded => KillSwitch
    BY DEF UplinkMasqueraded, KillSwitch, Passes
  <1>3. TypeOK /\ UplinkMasqueraded /\ [Next]_vars => UplinkMasqueraded'
    BY NextMasqueraded
  <1> QED
    BY <1>1, <1>2, <1>3, TypeCorrect, PTL DEF Spec

-----------------------------------------------------------------------------
(* What a loaded ruleset does with flows of before.                        *)

\* CAPE's flows are the agent's, and nothing masquerades them.
CapeFlows == \A f \in flows : f.from = "host" => f.pkt = AgentReply /\ f.masq = "none"

LEMMA NextCapeFlows ==
  ASSUME CapeFlows, [Next]_vars
  PROVE  CapeFlows'
  <1> USE DEF CapeFlows
  <1>1. ASSUME NEW p \in Packets, GuestOpens(p) PROVE CapeFlows'
    <2> DEFINE g == [from |-> "guest", pkt |-> p, to |-> Dnat(table, p),
                     masq |-> Masquerade(table, Dnat(table, p)),
                     born |-> table.mode]
    <2>1. flows' = flows \cup {g}
      BY <1>1 DEF GuestOpens, Track
    <2>2. g.from = "guest"
      OBVIOUS
    <2> QED
      BY <2>1, <2>2
  <1>2. CASE HostOpens
    <2> DEFINE g == [from |-> "host", pkt |-> AgentReply, to |-> "host",
                     masq |-> "none", born |-> table.mode]
    <2>1. flows' = flows \cup {g}
      BY <1>2 DEF HostOpens, Track
    <2>2. AgentReply' = AgentReply
      BY DEF AgentReply
    <2> QED
      BY <2>1, <2>2
  <1>3. CASE \/ \E m \in Modes, dns \in BOOLEAN : Apply(m, dns)
             \/ Down \/ LinkUp \/ RouteMoves \/ UNCHANGED vars
    BY <1>3 DEF Apply, Down, LinkUp, RouteMoves, vars
  <1>4. CASE (\E f \in flows : FlowEnds(f)) \/ LinkDown \/ HostReboots
    BY <1>4 DEF FlowEnds, LinkDown, HostReboots
  <1> QED
    BY <1>1, <1>2, <1>3, <1>4 DEF Next

\* What a ruleset let through when it was opened: the connections of the mode.
OpenedByRules ==
  \A f \in flows :
    f.from = "guest" /\ f.born # "none" /\ ~Bridged(f.pkt)
      => /\ Screened(f.pkt)
         /\ \/ f.to \in {"host", "hostalt"}
            \/ f.to = "internet" /\ f.born = "gateway"

LEMMA NewFlowByRules ==
  ASSUME TypeOK, NEW p \in Packets, AcceptsNew(table, p), table.mode # "none",
         ~Bridged(p)
  PROVE  /\ Screened(p)
         /\ \/ Dnat(table, p) \in {"host", "hostalt"}
            \/ Dnat(table, p) = "internet" /\ table.mode = "gateway"
  <1>1. Dnat(table, p) \in Dests
    BY Routed
  <1>2. Screened(p) /\ (Dnat(table, p) \notin {"host", "hostalt"}
                          => ForwardAccepts(table, Dnat(table, p)))
    BY DEF AcceptsNew
  <1> QED
    BY <1>1, <1>2 DEF ForwardAccepts, Oif, Dests

LEMMA NextOpenedByRules ==
  ASSUME TypeOK, OpenedByRules, [Next]_vars
  PROVE  OpenedByRules'
  <1>1. UNCHANGED bridgenf
    BY DEF Next, Apply, Down, GuestOpens, HostOpens, FlowEnds, LinkUp, LinkDown,
           RouteMoves, HostReboots, Track, vars
  <1>2. SUFFICES ASSUME NEW f \in flows', f \notin flows, f.from = "guest",
                        f.born # "none", ~Bridged(f.pkt)
                 PROVE  /\ Screened(f.pkt)
                        /\ \/ f.to \in {"host", "hostalt"}
                           \/ f.to = "internet" /\ f.born = "gateway"
    BY <1>1 DEF OpenedByRules, Screened, Bridged
  <1>3. PICK p \in Packets : GuestOpens(p) /\ f = FlowOf(p)
    BY <1>2 DEF Next, Apply, Down, GuestOpens, HostOpens, FlowEnds, LinkUp,
                LinkDown, RouteMoves, HostReboots, Track, FlowOf, vars
  <1>4. AcceptsNew(table, p)
    BY <1>3 DEF GuestOpens
  <1>5. /\ f.pkt = p
        /\ f.born = table.mode
        /\ f.to = Dnat(table, p)
    BY <1>3 DEF FlowOf
  <1> QED
    BY <1>2, <1>4, <1>5, NewFlowByRules

(* A change of ruleset leaks old flows and no others: under any table,      *)
(* whatever modes, links and routes came before, a guest's flow that still  *)
(* passes to another guest, the LAN or a private network was opened with no *)
(* table loaded, one to the internet then or in gateway mode, and none is   *)
(* IPv6 or spoofed (build_ruleset: the screening rules come before the      *)
(* conntrack rule, egress last).                                            *)
THEOREM OldFlowsOnly == Spec => []OnlyOldFlowsLeak
  <1>1. Init => OpenedByRules
    BY DEF Init, OpenedByRules
  <1>2. TypeOK /\ OpenedByRules /\ [Next]_vars => OpenedByRules'
    BY NextOpenedByRules
  <1>3. ASSUME TypeOK, OpenedByRules PROVE OnlyOldFlowsLeak
    <2> SUFFICES ASSUME table.mode # "none", NEW f \in flows, f.from = "guest",
                        ~Bridged(f.pkt), Passes(f)
                 PROVE  /\ Screened(f.pkt)
                        /\ f.to \in {"guest", "lan", "private"}
                             => f.born = "none"
                        /\ f.to = "internet" => f.born \in {"none", "gateway"}
      BY DEF OnlyOldFlowsLeak
    <2>1. Screened(f.pkt)
      BY DEF Passes, AcceptsEstablished
    <2>2. f.born # "none" => \/ f.to \in {"host", "hostalt"}
                             \/ f.to = "internet" /\ f.born = "gateway"
      BY <1>3 DEF OpenedByRules
    <2> QED
      BY <2>1, <2>2
  <1> QED
    BY <1>1, <1>2, <1>3, TypeCorrect, PTL DEF Spec

(* Containment leaves CAPE its guests: the result server is reachable in    *)
(* every mode, and the agent's answers pass whatever ruleset was loaded     *)
(* after the connection was made (rules input: rs, ct state established).   *)
THEOREM CapeKeepsGuests == Spec => []AnalysisWorks
  <1>1. Init => CapeFlows
    BY DEF Init, CapeFlows
  <1>2. ASSUME CapeFlows PROVE AnalysisWorks
    <2>1. ASSUME NEW p \in Packets, Screened(p), p.proto = "tcp",
                 p.port = "rs", p.dst = "host"
          PROVE  AcceptsNew(table, p)
      BY <2>1 DEF AcceptsNew, Dnat, InputAccepts, ResultServer
    <2>2. ASSUME NEW f \in flows, f.from = "host" PROVE Passes(f)
      BY <1>2, <2>2 DEF CapeFlows, AgentReply, Passes, AcceptsEstablished,
                        Screened
    <2> QED
      BY <2>1, <2>2 DEF AnalysisWorks
  <1> QED
    BY <1>1, <1>2, NextCapeFlows, PTL DEF Spec
=============================================================================
