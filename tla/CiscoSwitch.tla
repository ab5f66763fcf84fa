----------------------------- MODULE CiscoSwitch -----------------------------
(***************************************************************************)
(* Cisco IOS (vendors/cisco.rs).  The parser looks for the management VLAN *)
(* and for nothing else: no VLAN, port, mirror or community is ever part   *)
(* of the state it returns.                                                *)
(***************************************************************************)
EXTENDS StateDiff, SwitchDevice

\* The first SVI with an address, static or by DHCP.
parse_management_vlan(dev) == dev.management_vlan

parse_current_state(dev) == [EmptyState EXCEPT !.management_vlan = parse_management_vlan(dev)]

generate_vlan_commands(cfg, ids) ==
  LET set(v, field) == [op |-> "vlan set", vlan |-> v, field |-> field, value |-> cfg.vlans[v][field]]
  IN  ForEach([v \in ids |-> <<[op |-> "vlan", vlan |-> v], set(v, "name")>>
                              \o When(cfg.vlans[v].description # NoText, set(v, "description"))])

\* A description is never taken away, and the list of a trunk is replaced.
port_commands(p, port) ==
  LET trunk == inferred_mode(port) = "Trunk"
      mac(t) == [op |-> IF port.mac_notify THEN "mac trap" ELSE "no mac trap", port |-> p, trap |-> t]
  IN  When(port.description # NoText, port_set(p, "description", port.description))
      \o <<[op |-> "trunk", port |-> p, value |-> trunk],
           [op |-> "untagged", port |-> p, vlan |-> port.vlan]>>
      \o When(trunk, [op |-> "set tagged", port |-> p, vlans |-> ToSet(port.tagged_vlans)])
      \o <<port_set(p, "enabled", port.enabled), port_set(p, "poe_enabled", port.poe_enabled),
           mac("added"), mac("removed"),
           port_set(p, "speed_duplex",
                    <<to_cisco_speed(port.speed_duplex), to_cisco_duplex(port.speed_duplex)>>)>>

generate_port_commands(cfg, ids) == ForEach([p \in ids |-> port_commands(p, cfg.ports[p])])

\* A session is removed before it is written.
generate_mirror_commands(mirrors, sessions) ==
  ForEach([s \in sessions |-> <<[op |-> "no mirror", session |-> s],
                                 [op |-> "mirror", session |-> s, value |-> mirrors[s]]>>])

generate_remove_mirror_commands(sessions) ==
  ForEach([s \in sessions |-> <<[op |-> "no mirror", session |-> s]>>])

generate_remove_vlan_commands(order) ==
  [i \in DOMAIN order |-> [op |-> "no vlan", vlan |-> order[i]]]

\* RW for unrestricted and for manager, RO for operator.
ios_community(snmp, n) ==
  [op |-> "community", name |-> n,
   value |-> [access |-> IF snmp.communities[n].access = "operator" THEN "operator" ELSE "manager",
              allowed_hosts |-> {}]]

apply_snmp_diff(snmp, d) ==
  ForEach([n \in d.communities_to_remove |-> <<[op |-> "no community", name |-> n]>>])
  \o ForEach([n \in d.communities_to_update |->
                <<[op |-> "no community", name |-> n], ios_community(snmp, n)>>])
  \o ForEach([n \in d.communities_to_add |-> <<ios_community(snmp, n)>>])
  \o ForEach([h \in d.trap_receivers_to_remove |-> <<[op |-> "no receiver", host |-> h]>>])
  \o ForEach([h \in d.trap_receivers_to_add |->
                <<[op |-> "receiver", host |-> h, community |-> snmp.trap_receivers[h]]>>])
  \o ForEach([t \in d.traps_to_enable |-> <<[op |-> "traps", traps |-> {t}]>>])
  \o ForEach([t \in d.traps_to_disable |-> <<[op |-> "no traps", traps |-> {t}]>>])

configure_mirror_dest_ports(ids) ==
  ForEach([p \in ids |->
             <<[op |-> "trunk", port |-> p, value |-> FALSE],
               [op |-> "untagged", port |-> p, vlan |-> 1],
               port_set(p, "description", NoText), port_set(p, "enabled", TRUE)>>])

\* The SVI; without an address in the configuration it stays without one.
configure_management_vlan(cfg, v) ==
  IF cfg.vlans[v].ip_config = "none" THEN <<>>
  ELSE <<[op |-> "management vlan", vlan |-> v]>>

remove_management_vlan == <<>>

(***************************************************************************)
(* apply_diff.  Its current state is an empty one: there is never a VLAN   *)
(* to remove, a port to migrate or to reset, or a mirror to take away.     *)
(* The management VLAN must be in the configuration: the others fail.      *)
(***************************************************************************)
apply_diff(cfg, d) ==
  LET wanted == IF effective_snmp(cfg.snmp) = {} THEN EmptySnmp ELSE the(effective_snmp(cfg.snmp))
  IN  When(d.vlans_to_add # {}, generate_vlan_commands(cfg, d.vlans_to_add))
      \o When(d.ports_to_configure # {}, generate_port_commands(cfg, d.ports_to_configure))
      \o When(d.mirror_dest_ports_to_configure # {},
              configure_mirror_dest_ports(d.mirror_dest_ports_to_configure))
      \o When(d.mirrors_to_add # {}, generate_mirror_commands(cfg.port_mirrors, d.mirrors_to_add))
      \o When(\E s \in d.snmp_diff : snmp_has_changes(s), apply_snmp_diff(wanted, the(d.snmp_diff)))
      \o When(d.management_vlan_changed,
              IF d.management_vlan # 0 THEN configure_management_vlan(cfg, d.management_vlan)
              ELSE remove_management_vlan)

=============================================================================
