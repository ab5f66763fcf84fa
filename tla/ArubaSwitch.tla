----------------------------- MODULE ArubaSwitch -----------------------------
(***************************************************************************)
(* ArubaOS-Switch (vendors/aruba.rs): what the parser makes of a running   *)
(* configuration, and the commands that are sent for a diff.  Every switch *)
(* object works from the state it parsed last (cur), its configuration     *)
(* (cfg) and the diff (d).  A batch is one call of execute_commands.       *)
(***************************************************************************)
EXTENDS StateDiff, SwitchDevice

Current(cur, p, field, default) ==
  IF p \in DOMAIN cur.ports THEN cur.ports[p][field] ELSE default

(***************************************************************************)
(* Reading.  A trunk port's list has its native VLAN and is sorted; the    *)
(* one mirror is session 1, in both directions, and its sources come out   *)
(* of a HashMap in the order of the argument.                              *)
(***************************************************************************)
parse_vlan_with_ports(dev, v) ==
  [name |-> dev.vlans[v].name, description |-> NoText, ip_config |-> dev.vlans[v].ip_config]

PortVlanInfo(dev, p) ==
  LET native == IF dev.untagged[p] = 0 THEN 1 ELSE dev.untagged[p]
  IN  [vlan |-> native,
       tagged_vlans |-> IF dev.tagged[p] = {} THEN <<>>
                        ELSE Sorted(dev.tagged[p] \cup {native})]

parse_interface_name(cfg, dev, p) ==
  [vlan |-> PortVlanInfo(dev, p).vlan,
   tagged_vlans |-> PortVlanInfo(dev, p).tagged_vlans,
   description |-> dev.port[p].description,
   enabled |-> dev.port[p].enabled,
   poe_enabled |-> supports_poe(cfg.model) /\ dev.port[p].poe_enabled,
   mac_notify |-> dev.port[p].mac_traps # {},
   speed_duplex |-> dev.port[p].speed_duplex]

monitor_ports(dev) == {p \in DOMAIN dev.port : dev.port[p].monitor # {}}

\* link-change and mac-notify are read from 'show snmp-server traps'.
parse_snmp_trap_status(dev) == dev.traps \cap {"link-change", "mac-notify"}

parse_snmp_config(dev) ==
  IF DOMAIN dev.communities = {} /\ DOMAIN dev.receivers = {} /\ parse_snmp_trap_status(dev) = {}
  THEN {}
  ELSE {[communities |-> [n \in DOMAIN dev.communities |->
                            [access |-> dev.communities[n].access, allowed_hosts |-> {}]],
         trap_receivers |-> dev.receivers,
         enabled_traps |-> parse_snmp_trap_status(dev)]}

parse_management_vlan(dev) == dev.management_vlan

parse_current_state(cfg, dev, sources) ==
  [vlans |-> [v \in DOMAIN dev.vlans |-> parse_vlan_with_ports(dev, v)],
   ports |-> [p \in DOMAIN dev.port |-> parse_interface_name(cfg, dev, p)],
   port_mirrors |->
     IF DOMAIN dev.mirrors = {} \/ sources = <<>> THEN <<>>
     ELSE Put(<<>>, "1",
              [source_ports |-> sources,
               destination_port |-> dev.mirrors[CHOOSE s \in DOMAIN dev.mirrors : TRUE].destination_port,
               direction |-> "both"]),
   snmp |-> parse_snmp_config(dev),
   management_vlan |-> parse_management_vlan(dev)]

(***************************************************************************)
(* VLANs.                                                                  *)
(***************************************************************************)
generate_vlan_commands(cfg, ids) ==
  ForEach([v \in ids |->
             <<[op |-> "vlan", vlan |-> v],
               [op |-> "vlan set", vlan |-> v, field |-> "name", value |-> cfg.vlans[v].name],
               [op |-> "vlan set", vlan |-> v, field |-> "ip_config",
                value |-> cfg.vlans[v].ip_config]>>])

generate_remove_vlan_commands(order) ==
  [i \in DOMAIN order |-> [op |-> "no vlan", vlan |-> order[i]]]

\* In the context of the VLAN that goes: the access ports of the migrations
\* with 'no untagged', the trunk ports with 'no tagged'.
migrate_ports_before_vlan_deletion(migrations) ==
  ForEach([m \in migrations |->
             IF m.action = "MoveAccessToVlan1"
             THEN <<[op |-> "no untagged", port |-> m.port_id, vlan |-> m.vlan_being_removed]>>
             ELSE <<[op |-> "no tagged", port |-> m.port_id, vlans |-> {m.vlan_being_removed}]>>])

(***************************************************************************)
(* Ports.  Leaving a trunk takes a command per VLAN, from the parsed state.*)
(***************************************************************************)
leave_vlans(p, vlans) ==
  ForEach([v \in vlans |-> <<[op |-> "no tagged", port |-> p, vlans |-> {v}]>>])

currently_tagged(cur, p) ==
  IF p \in DOMAIN cur.ports THEN ToSet(tagged_without_native(cur.ports[p])) ELSE {}

port_name_commands(cur, p, port) ==
  CASE port.description # NoText -> <<port_set(p, "description", port.description)>>
    [] port.description = NoText /\ Current(cur, p, "description", NoText) # NoText ->
         <<port_set(p, "description", NoText)>>
    [] OTHER -> <<>>

\* Mutant of port_vlan_commands: VLANs that are not wanted any more stay.
port_vlan_commands_adding(cur, p, port) ==
  LET wanted == ToSet(tagged_without_native(port))
  IN  <<[op |-> "untagged", port |-> p, vlan |-> port.vlan]>>
      \o When(wanted # {}, [op |-> "tagged", port |-> p, vlans |-> wanted])

port_vlan_commands(cur, p, port) ==
  LET wanted == ToSet(tagged_without_native(port))
  IN  <<[op |-> "untagged", port |-> p, vlan |-> port.vlan]>>
      \o leave_vlans(p, currently_tagged(cur, p) \ wanted)
      \o When(wanted # {}, [op |-> "tagged", port |-> p, vlans |-> wanted])

\* A port that cannot do PoE is told to switch it off.
port_poe_commands(cfg, p, port) ==
  When(supports_poe(cfg.model),
       port_set(p, "poe_enabled", port.poe_enabled /\ port_supports_poe(cfg.model, p)))

mac_notify_commands(p, on) ==
  [i \in 1..2 |-> [op |-> IF on THEN "mac trap" ELSE "no mac trap", port |-> p,
                   trap |-> <<"learned", "removed">>[i]]]

\* The legacy syntax has no session: one 'monitor' says it all.
monitor_commands(cfg, mirrors, p) ==
  LET sessions == {s \in DOMAIN mirrors : p \in ToSet(mirrors[s].source_ports)}
  IN  IF uses_legacy_mirror_syntax(cfg.model)
      THEN When(sessions # {}, [op |-> "monitor", port |-> p, direction |-> <<"", "both">>])
      ELSE ForEach([s \in sessions |->
                      <<[op |-> "monitor", port |-> p, direction |-> <<s, mirrors[s].direction>>]>>])

generate_port_commands(cfg, cur, ids, mirrors) ==
  ForEach([p \in ids |->
             port_name_commands(cur, p, cfg.ports[p])
             \o port_vlan_commands(cur, p, cfg.ports[p])
             \o <<port_set(p, "enabled", cfg.ports[p].enabled)>>
             \o port_poe_commands(cfg, p, cfg.ports[p])
             \o mac_notify_commands(p, cfg.ports[p].mac_notify)
             \o <<port_set(p, "speed_duplex", cfg.ports[p].speed_duplex)>>
             \o monitor_commands(cfg, mirrors, p)])

reset_ports(cur, ids) ==
  ForEach([p \in ids |->
             <<port_set(p, "enabled", FALSE), port_set(p, "description", NoText),
               [op |-> "untagged", port |-> p, vlan |-> 1]>>
             \o leave_vlans(p, currently_tagged(cur, p))
             \o mac_notify_commands(p, FALSE)])

configure_mirror_dest_ports(ids) ==
  ForEach([p \in ids |->
             <<port_set(p, "enabled", FALSE), [op |-> "untagged", port |-> p, vlan |-> 1],
               port_set(p, "description", NoText), port_set(p, "enabled", TRUE)>>])

(***************************************************************************)
(* Mirrors: only the destination; a source is the business of its port.    *)
(* 'no mirror <session>' means nothing to a switch with the legacy syntax. *)
(***************************************************************************)
generate_mirror_commands(cfg, mirrors, sessions) ==
  ForEach([s \in sessions |->
             <<[op |-> "mirror",
                session |-> IF uses_legacy_mirror_syntax(cfg.model) THEN "port" ELSE s,
                value |-> [destination_port |-> mirrors[s].destination_port]]>>])

generate_remove_mirror_commands(sessions) ==
  ForEach([s \in sessions |-> <<[op |-> "no mirror", session |-> s]>>])

(***************************************************************************)
(* SNMP: the granular diff, in the order of apply_snmp_diff: traps are     *)
(* enabled before they are disabled.                                       *)
(***************************************************************************)
trap_names(traps) == IF "all" \in traps THEN {"mac-notify", "link-change"} ELSE traps

community(snmp, n) == [op |-> "community", name |-> n, value |-> snmp.communities[n]]

apply_snmp_diff(snmp, d) ==
  ForEach([n \in d.communities_to_remove |-> <<[op |-> "no community", name |-> n]>>])
  \o ForEach([n \in d.communities_to_update |->
                <<[op |-> "no community", name |-> n], community(snmp, n)>>])
  \o ForEach([n \in d.communities_to_add |-> <<community(snmp, n)>>])
  \o ForEach([h \in d.trap_receivers_to_remove |-> <<[op |-> "no receiver", host |-> h]>>])
  \o ForEach([h \in d.trap_receivers_to_add |->
                <<[op |-> "receiver", host |-> h, community |-> snmp.trap_receivers[h]]>>])
  \o ForEach([t \in d.traps_to_enable |-> <<[op |-> "traps", traps |-> trap_names({t})]>>])
  \o ForEach([t \in d.traps_to_disable |-> <<[op |-> "no traps", traps |-> trap_names({t})]>>])

configure_management_vlan(v) == <<[op |-> "management vlan", vlan |-> v]>>

remove_management_vlan == <<[op |-> "management vlan", vlan |-> 0]>>

(***************************************************************************)
(* apply_diff: the batches in their order.  order is the one in which the  *)
(* HashSet gave the VLANs to remove.                                       *)
(***************************************************************************)
vlan_batches(cfg, cur, d, order) ==
  LET migrations == find_ports_to_migrate(cur, order)
  IN  When(migrations # {}, migrate_ports_before_vlan_deletion(migrations))
      \o When(d.vlans_to_remove # {}, generate_remove_vlan_commands(order))
      \o When(d.vlans_to_add # {}, generate_vlan_commands(cfg, d.vlans_to_add))
      \o When(d.vlans_to_update # {}, generate_vlan_commands(cfg, d.vlans_to_update))

port_batches(cfg, cur, d) ==
  When(d.ports_to_configure # {},
       generate_port_commands(cfg, cur, d.ports_to_configure, cfg.port_mirrors))
  \o When(d.ports_to_reset # {}, reset_ports(cur, d.ports_to_reset))
  \o When(d.mirror_dest_ports_to_configure # {},
          configure_mirror_dest_ports(d.mirror_dest_ports_to_configure))

mirror_batches(cfg, d) ==
  When(d.mirrors_to_remove # {}, generate_remove_mirror_commands(d.mirrors_to_remove))
  \o When(d.mirrors_to_add # {}, generate_mirror_commands(cfg, cfg.port_mirrors, d.mirrors_to_add))
  \o When(d.mirrors_to_update # {},
          generate_mirror_commands(cfg, cfg.port_mirrors, d.mirrors_to_update))

management_batches(cfg, d) ==
  LET wanted == IF effective_snmp(cfg.snmp) = {} THEN EmptySnmp ELSE the(effective_snmp(cfg.snmp))
  IN  When(\E s \in d.snmp_diff : snmp_has_changes(s), apply_snmp_diff(wanted, the(d.snmp_diff)))
      \o When(d.management_vlan_changed,
              IF d.management_vlan # 0 THEN configure_management_vlan(d.management_vlan)
              ELSE remove_management_vlan)

\* Mutant of apply_diff: ports move before their VLANs exist.
apply_diff_ports_first(cfg, cur, d, order) ==
  port_batches(cfg, cur, d) \o vlan_batches(cfg, cur, d, order) \o mirror_batches(cfg, d)
  \o management_batches(cfg, d)

apply_diff(cfg, cur, d, order) ==
  vlan_batches(cfg, cur, d, order) \o port_batches(cfg, cur, d) \o mirror_batches(cfg, d)
  \o management_batches(cfg, d)

(***************************************************************************)
(* The commands of one PoE operation.                                      *)
(***************************************************************************)
poe_disable_commands(p) == <<port_set(p, "poe_enabled", FALSE)>>

poe_enable_commands(p) == <<port_set(p, "poe_enabled", TRUE)>>
=============================================================================
