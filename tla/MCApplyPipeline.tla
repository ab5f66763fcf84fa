--------------------------- MODULE MCApplyPipeline ---------------------------
EXTENDS ApplyPipeline

Access(v) == [vlan |-> v, tagged_vlans |-> <<>>, description |-> NoText, enabled |-> TRUE,
              poe_enabled |-> FALSE, mac_notify |-> FALSE, speed_duplex |-> "auto"]
Trunk(v, tagged) == [Access(v) EXCEPT !.tagged_vlans = tagged]
Named(p) == [p EXCEPT !.description = "uplink"]
Powered(p) == [p EXCEPT !.poe_enabled = TRUE]
Notified(p) == [p EXCEPT !.mac_notify = TRUE]

V(name) == [name |-> name, description |-> NoText, ip_config |-> "none"]
Addressed(vlan) == [vlan EXCEPT !.ip_config = "dhcp", !.description = "wan"]

Cfg(m, vlans, ports) ==
  [model |-> m, vlans |-> vlans, ports |-> ports, port_mirrors |-> <<>>, snmp |-> {},
   management_vlan |-> 0]

Community(hosts) == [access |-> "operator", allowed_hosts |-> hosts]
Snmp(communities, traps) ==
  [communities |-> communities, trap_receivers |-> <<>>, enabled_traps |-> traps, reads |-> {}]

Rule(action) == {[on_failure |-> action,
                  tests |-> <<[type |-> "command_execution", required |-> TRUE, critical |-> FALSE],
                              [type |-> "port_status", required |-> FALSE, critical |-> TRUE]>>]}

AllTests ==
  LET types == <<"ping_management_ip", "tcp_port_check", "gateway_reachable", "device_reachable",
                 "port_status", "vlan_membership">>
  IN  {[on_failure |-> "rollback",
        tests |-> [i \in DOMAIN types |->
                     [type |-> types[i], required |-> i # 2, critical |-> FALSE]]]}

(***************************************************************************)
(* Aruba: port 1 has PoE, port 2 has not.                                  *)
(***************************************************************************)
Aruba8 == "Aruba2530_8G_POE"
ArubaPorts == 1..3

ArubaDevices ==
  LET new == Factory(Aruba8, ArubaPorts)
      two == Run(new, <<[op |-> "vlan", vlan |-> 20], [op |-> "vlan", vlan |-> 30],
                        [op |-> "untagged", port |-> 1, vlan |-> 30],
                        [op |-> "tagged", port |-> 1, vlans |-> {20}],
                        [op |-> "untagged", port |-> 2, vlan |-> 30],
                        port_set(2, "description", "old"),
                        [op |-> "tagged", port |-> 3, vlans |-> {30}],
                        [op |-> "community", name |-> "old", value |-> Community({})]>>)
  IN  {new, two}

ArubaConfigs ==
  {Cfg(Aruba8, (10 :> V("users") @@ 20 :> V("voice")),
       (1 :> Powered(Named(Access(10))) @@ 2 :> Trunk(10, <<20>>))),
   [Cfg(Aruba8, (10 :> V("users")), (1 :> Notified(Access(10)))) EXCEPT
      !.snmp = {Snmp(("ops" :> Community({})), {"link-change"})}, !.management_vlan = 10]}

(***************************************************************************)
(* FortiSwitch: as it comes, with a community of the factory; and one that *)
(* somebody has configured.                                                *)
(***************************************************************************)
Entry(n) == [name |-> n, traps |-> TRUE, hosts |-> <<>>, events |-> {}]

FortiDevices ==
  LET new == [Factory(Forti, 1..2) EXCEPT !.communities = (1 :> Entry("public"))]
      full == Run(new, <<[op |-> "vlan", vlan |-> 20],
                         [op |-> "native", port |-> 1, vlan |-> 20],
                         [op |-> "community", name |-> 100, value |-> Entry("ops")],
                         [op |-> "community", name |-> 101, value |-> Entry("lab")]>>)
  IN  {new, full}

FortiConfigs ==
  {Cfg(Forti, (10 :> Addressed(V("users")) @@ 20 :> V("voice")),
       (1 :> Named(Access(10)) @@ 2 :> Powered(Trunk(10, <<20>>)))),
   [Cfg(Forti, (10 :> V("users")), (1 :> Access(10))) EXCEPT
      !.snmp = {Snmp(("ops" :> Community({}) @@ "nms" :> Community({"net"}) @@ "web" :> Community({})), {})}]}

(***************************************************************************)
(* Outside of what the generators can reach: mirrors in both syntaxes, the *)
(* trap 'all', receivers, and a managed FortiSwitch.                       *)
(***************************************************************************)
Mirror(from, to, direction) ==
  ("1" :> [source_ports |-> from, destination_port |-> to, direction |-> direction])

ArubaMirrors ==
  {[cfg |-> [Cfg(m, <<>>, (1 :> Access(1) @@ 2 :> Access(1))) EXCEPT
               !.port_mirrors = Mirror(<<1, 2>>, 3, "both"),
               !.snmp = {[Snmp(<<>>, {"all"}) EXCEPT !.trap_receivers = ("nms" :> "ops")]}],
    dev |-> Run(Factory(m, 1..3), <<port_set(1, "enabled", FALSE), port_set(3, "enabled", FALSE)>>),
    enforce |-> FALSE, validation |-> {}] : m \in {Aruba8, "Aruba2930F"}}

FortiMirror ==
  [cfg |-> [Cfg(Forti, (10 :> V("users")), <<>>) EXCEPT
              !.port_mirrors = Mirror(<<1>>, 2, "rx"),
              !.snmp = {[Snmp(("ops" :> Community({})), {"all"}) EXCEPT !.trap_receivers = ("nms" :> "ops")]}],
   dev |-> Run(Factory(Forti, 1..2), <<[op |-> "mirror", session |-> "9",
                 value |-> [destination_port |-> 2, egress |-> <<1>>]]>>),
   enforce |-> TRUE, validation |-> {}]

FortiManaged ==
  [cfg |-> [Cfg(Forti, (10 :> Addressed(V("mgmt"))), <<>>) EXCEPT !.management_vlan = 10],
   dev |-> Factory(Forti, 1..2), enforce |-> FALSE, validation |-> {}]

TooManyCommunities ==
  [cfg |-> [Cfg(Forti, <<>>, <<>>) EXCEPT
              !.snmp = {Snmp([n \in {"a", "b", "c", "d"} |-> Community({})], {})}],
   dev |-> Factory(Forti, 1..2), enforce |-> FALSE, validation |-> {}]

CiscoScenario ==
  [cfg |-> Cfg(Cisco, (10 :> V("users")), (1 :> Access(10))), dev |-> Factory(Cisco, 1..2),
   enforce |-> FALSE, validation |-> {}]

CiscoManagement ==
  [CiscoScenario EXCEPT !.cfg = [Cfg(Cisco, <<>>, <<>>) EXCEPT !.snmp = {Snmp(("ops" :> Community({})), {})}]]

(***************************************************************************)
(* A trunk with two tagged VLANs, as the file lists them.                  *)
(***************************************************************************)
TwoTagged(m, ports, list) ==
  [cfg |-> Cfg(m, (10 :> V("users") @@ 20 :> V("voice") @@ 30 :> V("lab")), (2 :> Trunk(10, list))),
   dev |-> Factory(m, ports), enforce |-> FALSE, validation |-> {}]

Listed(lists) == {TwoTagged(Aruba8, ArubaPorts, list) : list \in lists}
                 \cup {TwoTagged(Forti, 1..2, list) : list \in lists}

\* With and without the native VLAN among them.
Ascending == Listed({<<20, 30>>, <<10, 20, 30>>})
\* The other way round; and one of them twice.
Descending == Listed({<<30, 20>>})
Doubled == Listed({<<20, 20>>})

All ==
  Ascending \cup Descending \cup Doubled
  \cup [cfg : ArubaConfigs, dev : ArubaDevices, enforce : BOOLEAN, validation : {{}, Rule("rollback")}]
  \cup [cfg : FortiConfigs, dev : FortiDevices, enforce : {FALSE}, validation : {{}, Rule("manual")}]
  \cup {CiscoScenario, CiscoManagement, FortiMirror, FortiManaged, TooManyCommunities} \cup ArubaMirrors
  \cup {[cfg |-> the(ArubaConfigs), dev |-> Factory(Aruba8, ArubaPorts), enforce |-> FALSE,
         validation |-> v] : v \in {Rule("save_anyway"), AllTests}}
=============================================================================
