---------------------------- MODULE MCOverlayFiles ----------------------------
(***************************************************************************)
(* Two switches in the main file and up to two files in the folder.        *)
(***************************************************************************)
EXTENDS OverlayFiles

Range12 == <<[first |-> 1, last |-> 2, mixed |-> FALSE]>>

Row(id, ip, vlans, ports) ==
  [id |-> id, hostname |-> {id}, model |-> {"Aruba2530_8G_POE"}, management_ip |-> {ip},
   credentials |-> {"c"}, vlans |-> vlans, ports |-> ports, port_mirrors |-> <<>>,
   snmp |-> {}, validation |-> {}, settings |-> "own"]

Partial(id, vlans, ports) ==
  [Row(id, "-", vlans, ports) EXCEPT !.hostname = {}, !.model = {}, !.management_ip = {},
                                     !.credentials = {}, !.settings = "default"]

V(id, name) == [id |-> id, name |-> name, ip_config |-> "static"]
P(segments, vlan, tagged) ==
  [port_id |-> segments, vlan |-> vlan, tagged_vlans |-> tagged, speed_duplex |-> "100-full"]
I(n) == [id |-> n]
N(s) == [name |-> s]

File(priority, rows) == [parses |-> TRUE, merge_priority |-> priority, switches |-> rows]

Community == [name |-> "", name_file |-> {"f"}, name_credential |-> {}, allowed_hosts |-> {}]
Snmp == [communities |-> <<Community>>, trap_receivers |-> <<>>, enabled_traps |-> {"all"}, reads |-> {}]

Other == [Row("s2", "10.2", <<V(10, "staff")>>, <<>>) EXCEPT !.snmp = {Snmp}]

\* The main file, and with a new address for a switch.
Main0 == File({}, <<Row("s1", "10.1", <<V(10, "staff")>>, <<P(Segment(1), I(10), <<>>)>>), Other>>)
Main1 == File({}, <<Row("s1", "10.9", <<V(10, "staff")>>, <<>>), Other>>)

\* An overlay with a VLAN of its own and ports that name VLANs, one of them twice.
Named ==
  File({}, <<Partial("s1", <<V(20, "users")>>,
                     <<P(Range12, N("users"), <<I(30), N("staff"), I(10)>>)>>)>>)
\* One that gives the name of a VLAN of the main file to a second VLAN.
Collides == File({200}, <<Partial("s1", <<V(30, "staff")>>, <<P(Segment(2), N("staff"), <<>>)>>)>>)
\* One that outranks the main file, for both switches.
Above == File({20}, <<Partial("s1", <<V(10, "desk")>>, <<>>),
                      [Partial("s2", <<V(20, "users")>>, <<P(Segment(1), I(20), <<>>)>>)
                         EXCEPT !.port_mirrors = <<[session_id |-> 1, source_ports |-> Range12,
                                                    destination_port |-> Segment(1)]>>]>>)
Broken == [File({}, <<>>) EXCEPT !.parses = FALSE]

McFolder == <<"a", "b">>
McMains == {Main0, Main1}
McHandFiles == {Named, Collides, Above, Broken}
McSecrets == {[f |-> "public"], [f |-> ""]}

McEdits ==
  {[op |-> "update_vlan", id |-> 30, name |-> "guests"],
   [op |-> "add_vlan", id |-> 20, name |-> "users"],
   [op |-> "remove_vlan", id |-> 30],
   [op |-> "add_port", port_id |-> 3, vlan |-> 20, tagged_vlans |-> <<10>>],
   [op |-> "update_ports", port_id |-> 1, vlan |-> 20],
   [op |-> "remove_port", port_id |-> 1],
   [op |-> "add_mirror", session_id |-> 1, source_ports |-> <<1>>, destination_port |-> 1],
   [op |-> "update_mirror", session_id |-> 1, source_ports |-> <<2>>, destination_port |-> 3],
   [op |-> "remove_mirror", session_id |-> 1],
   [op |-> "add_snmp_community", name |-> "public"],
   [op |-> "remove_snmp_community", name |-> "public"],
   [op |-> "remove_snmp_trap_receiver", host |-> "h"],
   [op |-> "add_snmp_trap_receiver", host |-> "h"],
   [op |-> "update_snmp_traps", traps |-> {"all", "link-change"}]}

McSaveForms == {[filename |-> "a", priority |-> 200]}

McBodies ==
  {[filename |-> "b", merge_priority |-> 200,
    switches |-> <<Partial("s1", <<>>, <<P(Segment(3), I(10), <<I(20), I(10)>>)>>)>>],
   [filename |-> "b", merge_priority |-> 200,
    switches |-> <<Partial("s1", <<V(30, "lab")>>,
                           <<P(Segment(3), I(30), <<I(30), I(10), I(30)>>)>>)>>],
   [filename |-> "b", merge_priority |-> 10, switches |-> <<Partial("s1", <<>>, <<>>)>>]}

Symmetry == Permutations(Tabs)
=============================================================================
