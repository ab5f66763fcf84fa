---------------------------- MODULE SwitchModels ----------------------------
(***************************************************************************)
(* The switch models the program knows and the vocabulary of a switch      *)
(* configuration (models.rs): what a model can do on each port, and the    *)
(* records that the configuration files, the parsers of the vendors and    *)
(* the diff exchange.                                                      *)
(*                                                                         *)
(* A list that is keyed by an identifier (VLANs by id, ports by port_id,   *)
(* mirrors by session_id, communities by name, receivers by host) is a     *)
(* function from the keys; an Option of a record is a set of at most one   *)
(* record; a port is its number, whatever the vendor calls it.             *)
(***************************************************************************)
EXTENDS Naturals, Sequences, FiniteSets, TLC

ArubaModels == {"Aruba2530_24G_POE", "Aruba2530_8G_POE", "Aruba2530_48G_2SFP",
                "Aruba2540_24G", "Aruba2540_48G_4SFP", "Aruba2930F"}

Forti == "Fortiswitch124F_FPOE"

Cisco == "CiscoCatalyst9300_24P_UPOE"

SwitchModel == ArubaModels \cup {Forti, Cisco}

vendor(m) ==
  CASE m \in ArubaModels -> "Aruba"
    [] m = Forti -> "Fortiswitch"
    [] m = Cisco -> "Cisco"

GigabitSpeeds == {"auto", "10-half", "10-full", "100-half", "100-full", "1000-full"}

SpeedDuplex == GigabitSpeeds \cup {"10g-full"}

supported_speeds(m) ==
  IF m \in {"Aruba2530_24G_POE", "Aruba2530_8G_POE", "Aruba2540_24G", Forti}
  THEN GigabitSpeeds ELSE SpeedDuplex

supports_speed(m, speed) == speed \in supported_speeds(m)

(***************************************************************************)
(* The capabilities of one port.                                           *)
(***************************************************************************)
standard_1g_copper ==
  [port_type |-> "Copper", poe_support |-> 0, supported_speeds |-> GigabitSpeeds,
   max_speed_gbps |-> 1, is_uplink |-> FALSE]

\* max_watts of PoEPlus is 30, of PoEPlusPlus 60; no PoE is 0 watts.
poe_plus_1g_copper == [standard_1g_copper EXCEPT !.poe_support = 30]

sfp_plus_10g_uplink ==
  [port_type |-> "SfpPlus", poe_support |-> 0,
   supported_speeds |-> {"1000-full", "10g-full"}, max_speed_gbps |-> 10, is_uplink |-> TRUE]

\* The ports of a model that exist, the copper ones and those of them with PoE.
copper_ports(m) ==
  CASE m = "Aruba2530_8G_POE" -> 1..8
    [] m \in {"Aruba2530_24G_POE", "Aruba2540_24G", Forti, Cisco} -> 1..24
    [] OTHER -> 1..48

poe_ports(m) ==
  CASE m = "Aruba2530_8G_POE" -> {1, 3, 5, 7}
    [] m \in {"Aruba2530_24G_POE", "Aruba2930F", Forti, Cisco} -> copper_ports(m)
    [] OTHER -> {}

uplink_ports(m) ==
  CASE m = "Aruba2530_24G_POE" -> 25..26
    [] m = "Aruba2530_48G_2SFP" -> 49..50
    [] m \in {"Aruba2540_24G", Forti} -> 25..28
    [] m \in {"Aruba2540_48G_4SFP", "Aruba2930F"} -> 49..52
    [] OTHER -> {}

\* {} where the port does not exist (None).
port_capabilities(m, n) ==
  CASE n \in uplink_ports(m) /\ m = "Aruba2530_24G_POE" ->
         {[sfp_plus_10g_uplink EXCEPT !.port_type = "Sfp", !.max_speed_gbps = 1,
                                      !.supported_speeds = {"1000-full"}]}
    [] n \in uplink_ports(m) /\ m # "Aruba2530_24G_POE" -> {sfp_plus_10g_uplink}
    [] n \in poe_ports(m) /\ m = Cisco -> {[standard_1g_copper EXCEPT !.poe_support = 60]}
    [] n \in poe_ports(m) /\ m # Cisco -> {poe_plus_1g_copper}
    [] n \in copper_ports(m) \ poe_ports(m) -> {standard_1g_copper}
    [] OTHER -> {}

port_supports_poe(m, n) == \E c \in port_capabilities(m, n) : c.poe_support > 0

supports_poe(m) ==
  m \in {"Aruba2530_24G_POE", "Aruba2530_8G_POE", "Aruba2930F", Forti, Cisco}

implicit_vlans(m) == {1}

supports_vlan_description(m) == m \in {Forti, Cisco}

uses_legacy_mirror_syntax(m) == m \in ArubaModels \ {"Aruba2930F"}

(***************************************************************************)
(* Maps and lists.                                                         *)
(***************************************************************************)
AtMostOne(S) == \A a, b \in S : a = b        \* an Option

Put(f, k, value) == [x \in DOMAIN f \cup {k} |-> IF x = k THEN value ELSE f[x]]

\* What new says, and what old says of the rest.
Updated(old, new) ==
  [k \in DOMAIN old \cup DOMAIN new |-> IF k \in DOMAIN new THEN new[k] ELSE old[k]]

\* The numbers of a set in their order: each follows those that are smaller.
Sorted(S) ==
  [i \in 1..Cardinality(S) |-> CHOOSE x \in S : Cardinality({y \in S : y < x}) = i - 1]

\* A list without the members of a set.
Dropping(list, S) ==
  LET kept[n \in 0..Len(list)] ==
        IF n = 0 THEN <<>>
        ELSE IF list[n] \in S THEN kept[n - 1] ELSE Append(kept[n - 1], list[n])
  IN  kept[Len(list)]

(***************************************************************************)
(* How a speed is spelled by IOS, which has one command for the speed and  *)
(* one for the duplex.                                                     *)
(***************************************************************************)
to_cisco_speed(s) ==
  CASE s = "auto" -> "auto"
    [] s \in {"10-half", "10-full"} -> "10"
    [] s \in {"100-half", "100-full"} -> "100"
    [] s = "1000-full" -> "1000"
    [] s = "10g-full" -> "10000"

to_cisco_duplex(s) ==
  CASE s = "auto" -> "auto"
    [] s \in {"10-half", "100-half"} -> "half"
    [] OTHER -> "full"

(***************************************************************************)
(* The records.                                                            *)
(***************************************************************************)
NoText == "-"                \* an Option<String> that is None

VlanIpConfig == {"none", "dhcp", "static"}

Port(ids, texts) ==
  [vlan : ids, tagged_vlans : Seq(ids), description : texts, enabled : BOOLEAN,
   poe_enabled : BOOLEAN, mac_notify : BOOLEAN, speed_duplex : SpeedDuplex]

inferred_mode(p) == IF p.tagged_vlans = <<>> THEN "Access" ELSE "Trunk"

MirrorDirection == {"rx", "tx", "both"}

TrapType == {"mac-notify", "link-change", "all"}

SnmpAccess == {"unrestricted", "manager", "operator"}

EmptySnmp == [communities |-> <<>>, trap_receivers |-> <<>>, enabled_traps |-> {}]

\* SwitchState: what a parser found on a switch, nothing before it has looked.
EmptyState == [vlans |-> <<>>, ports |-> <<>>, port_mirrors |-> <<>>,
               snmp |-> {}, management_vlan |-> 0]

reads_enabled(snmp) ==
  \E s \in snmp : \E r \in s.reads : r.mode = "auto" /\ r.community # {}

\* The listed communities and, when it may read, the service's own: always an
\* operator, and never in place of a listed one of the same name.
effective_snmp(snmp) ==
  {LET own == IF reads_enabled(snmp)
              THEN {c \in UNION {r.community : r \in s.reads} : c.name \notin DOMAIN s.communities}
              ELSE {}
       names == DOMAIN s.communities \cup {c.name : c \in own}
   IN  [communities |->
          [n \in names |->
             IF n \in DOMAIN s.communities THEN s.communities[n]
             ELSE [access |-> "operator", allowed_hosts |-> UNION {c.allowed_hosts : c \in own}]],
        trap_receivers |-> s.trap_receivers, enabled_traps |-> s.enabled_traps]
   : s \in snmp}

\* An empty state from a switch we want VLANs or ports on is a failed read.
check_empty_state_safety(current, desired) ==
  \/ DOMAIN current.vlans # {} \/ DOMAIN current.ports # {}
  \/ DOMAIN desired.vlans = {} /\ DOMAIN desired.ports = {}
=============================================================================
