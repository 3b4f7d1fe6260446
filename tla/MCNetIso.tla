------------------------------ MODULE MCNetIso ------------------------------
(* An instance of NetIso for TLC. *)
EXTENDS NetIso

P(fam, src, proto, dst, port) ==
  [fam |-> fam, src |-> src, proto |-> proto, dst |-> dst, port |-> port]

\* One packet for each way through the rules.
MCPackets ==
  {P("v4", "subnet", "tcp", "host", "rs"),
   P("v4", "subnet", "tcp", "host", "other"),
   P("v4", "subnet", "udp", "host", "dns"),
   P("v4", "outside", "udp", "host", "dhcp"),
   P("v4", "subnet", "tcp", "hostalt", "rs"),
   P("v4", "subnet", "tcp", "guest", "other"),
   P("v4", "subnet", "tcp", "lan", "other"),
   P("v4", "subnet", "tcp", "private", "other"),
   P("v4", "subnet", "tcp", "internet", "other"),
   P("v4", "subnet", "icmp", "internet", "other"),
   P("v4", "outside", "udp", "internet", "other"),
   P("v6", "subnet", "tcp", "internet", "other")}
=============================================================================
