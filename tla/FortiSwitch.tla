----------------------------- MODULE FortiSwitch -----------------------------
(***************************************************************************)
(* FortiSwitch (vendors/fortiswitch.rs).  A VLAN is an entry of the VLAN   *)
(* database, without a name, and, when it has an address, an interface     *)
(* with the services it answers to (allowaccess).  SNMP communities are    *)
(* entries under a number, with a table of hosts that is an allow-list     *)
(* when the entry sends no traps and a list of receivers when it does.     *)
(* 'show' prints a setting only where it differs from the factory's.       *)
(***************************************************************************)
EXTENDS StateDiff, SwitchDevice

MAX_SNMP_COMMUNITIES == 3

\* How FortiOS spells a speed.
convert_speed_to_fortiswitch(s) ==
  CASE s = "auto" -> "auto"
    [] s = "10-half" -> "10half"
    [] s = "10-full" -> "10full"
    [] s = "100-half" -> "100half"
    [] s = "100-full" -> "100full"
    [] s = "1000-full" -> "1000full"
    [] s = "10g-full" -> "10000full"

\* Whatever is not known is auto.
parse_speed_from_fortiswitch(text) ==
  IF \E s \in SpeedDuplex : convert_speed_to_fortiswitch(s) = text
  THEN CHOOSE s \in SpeedDuplex : convert_speed_to_fortiswitch(s) = text ELSE "auto"

(***************************************************************************)
(* Reading.                                                                *)
(***************************************************************************)
parse_svi_details(dev, v) ==
  IF v \in DOMAIN dev.svi
  THEN {[description |-> dev.svi[v].description, ip_config |-> dev.svi[v].ip_config]} ELSE {}

parse_switch_vlan_ids(dev) == DOMAIN dev.vlans

\* A name is never written: it is what the configuration says.
parsed_vlan(cfg, dev, v) ==
  LET svi == {s \in parse_svi_details(dev, v) : s.description # NoText}
      wanted == IF v \in DOMAIN cfg.vlans THEN {cfg.vlans[v]} ELSE {}
  IN  [name |-> IF wanted # {} THEN the(wanted).name
                ELSE IF svi # {} THEN the(svi).description ELSE "vlan",
       description |-> IF svi # {} THEN the(svi).description
                       ELSE IF wanted # {} THEN the(wanted).description ELSE NoText,
       ip_config |-> IF parse_svi_details(dev, v) # {}
                     THEN the(parse_svi_details(dev, v)).ip_config ELSE "none"]

parse_switch_interface_ports(dev, p) ==
  [description |-> dev.port[p].description, native_vlan |-> dev.untagged[p],
   allowed_vlans |-> Sorted(dev.tagged[p])]

\* {} where the line is not printed.
parse_physical_ports(cfg, dev, p) ==
  [f \in {"enabled", "poe_enabled", "speed_duplex"} |->
     {dev.port[p][f]} \ {FactoryPort(cfg.model, p)[f]}]

build_ports(cfg, dev) ==
  [p \in DOMAIN dev.port |->
     LET iface == parse_switch_interface_ports(dev, p)
         phys == parse_physical_ports(cfg, dev, p)
         unwrap_or(S, default) == IF S = {} THEN default ELSE the(S)
     IN  [vlan |-> iface.native_vlan,
          tagged_vlans |-> Dropping(iface.allowed_vlans, {iface.native_vlan}),
          description |-> iface.description,
          enabled |-> unwrap_or(phys["enabled"], TRUE),
          poe_enabled |-> unwrap_or(phys["poe_enabled"], port_supports_poe(cfg.model, p)),
          mac_notify |-> FALSE,
          speed_duplex |-> parse_speed_from_fortiswitch(unwrap_or(phys["speed_duplex"], "auto"))]]

\* A session without a source is not a mirror.
flush_mirror(m) ==
  [source_ports |-> IF m.ingress # <<>> THEN m.ingress ELSE m.egress,
   destination_port |-> m.destination_port,
   direction |-> CASE m.ingress # <<>> /\ m.egress # <<>> -> "both"
                   [] m.ingress # <<>> /\ m.egress = <<>> -> "rx"
                   [] OTHER -> "tx"]

parse_switch_mirrors(dev) ==
  [s \in {x \in DOMAIN dev.mirrors : dev.mirrors[x].ingress # <<>> \/ dev.mirrors[x].egress # <<>>} |->
     flush_mirror(dev.mirrors[s])]

\* The first interface with an address that lets ssh or https in.
parse_management_vlan(dev) ==
  LET managed == {v \in DOMAIN dev.svi : /\ dev.svi[v].ip_config # "none"
                                         /\ dev.svi[v].allowaccess \cap {"ssh", "https"} # {}}
  IN  IF managed = {} THEN 0 ELSE CHOOSE v \in managed : \A w \in managed : v <= w

hosts_of(entry) == {entry.hosts[i] : i \in DOMAIN entry.hosts}

named(dev) == {i \in DOMAIN dev.communities : dev.communities[i].name # NoText}

\* An entry's hosts are receivers unless its traps are off.
parse_snmp_community(dev) ==
  LET entry(n) == the({dev.communities[i] : i \in {j \in named(dev) : dev.communities[j].name = n}})
      names == {dev.communities[i].name : i \in named(dev)}
      trapping == {i \in named(dev) : dev.communities[i].traps}
      receivers == UNION {hosts_of(dev.communities[i]) : i \in trapping}
  IN  IF names = {} THEN {}
      ELSE {[communities |-> [n \in names |->
                [access |-> "unrestricted",
                 allowed_hosts |-> IF entry(n).traps THEN {} ELSE hosts_of(entry(n))]],
             trap_receivers |-> [h \in receivers |->
                dev.communities[the({i \in trapping : h \in hosts_of(dev.communities[i])})].name],
             enabled_traps |-> UNION {dev.communities[i].events : i \in DOMAIN dev.communities}]}

parse_snmp_community_indices(dev) ==
  [n \in {dev.communities[i].name : i \in named(dev)} |->
     the({i \in named(dev) : dev.communities[i].name = n})]

parse_snmp_sysinfo_enabled(dev) == dev.sysinfo

\* SNMP is read-only: no access level can be read back.
adopt_desired_access(parsed, desired) ==
  {[s EXCEPT !.communities =
      [n \in DOMAIN @ |->
         IF \E w \in desired : n \in DOMAIN w.communities
         THEN [@[n] EXCEPT !.access = the(desired).communities[n].access] ELSE @[n]]]
   : s \in parsed}

\* The interface that owns the management address, if it can be told: that of
\* cfg.management_vlan, when the address was found in what the switch prints.
resolve_mgmt_access(cfg, dev) ==
  IF cfg.management_vlan \in DOMAIN dev.svi /\ dev.svi[cfg.management_vlan].allowaccess # {}
  THEN {cfg.management_vlan} ELSE {}

parse_current_state(cfg, dev) ==
  [vlans |-> [v \in parse_switch_vlan_ids(dev) |-> parsed_vlan(cfg, dev, v)],
   ports |-> build_ports(cfg, dev),
   port_mirrors |-> parse_switch_mirrors(dev),
   snmp |-> adopt_desired_access(parse_snmp_community(dev), effective_snmp(cfg.snmp)),
   management_vlan |-> parse_management_vlan(dev)]

(***************************************************************************)
(* VLANs and ports.  The interface of a VLAN with an address is written    *)
(* with 'allowaccess ping', whatever it let in before.  A description is   *)
(* only ever set.                                                          *)
(***************************************************************************)
svi_value(vlan) ==
  Updated([ip_config |-> vlan.ip_config, allowaccess |-> {"ping"}],
          IF vlan.description = NoText THEN <<>> ELSE [description |-> vlan.description])

generate_vlan_commands(cfg, ids) ==
  ForEach([v \in ids |-> <<[op |-> "vlan", vlan |-> v]>>])
  \o ForEach([v \in ids |->
                When(cfg.vlans[v].ip_config # "none",
                     [op |-> "svi", vlan |-> v, value |-> svi_value(cfg.vlans[v])])])

generate_remove_vlan_commands(order) ==
  [i \in DOMAIN order |-> [op |-> "delete vlan", vlan |-> order[i]]]

port_interface_commands(p, port) ==
  When(port.description # NoText, port_set(p, "description", port.description))
  \o <<[op |-> "native", port |-> p, vlan |-> port.vlan],
       [op |-> "set tagged", port |-> p,
        vlans |-> IF inferred_mode(port) = "Access" THEN {port.vlan} ELSE ToSet(port.tagged_vlans)]>>

port_physical_commands(p, port) ==
  <<port_set(p, "enabled", port.enabled), port_set(p, "poe_enabled", port.poe_enabled),
    port_set(p, "speed_duplex", convert_speed_to_fortiswitch(port.speed_duplex))>>

generate_port_commands(cfg, ids) ==
  ForEach([p \in ids |-> port_interface_commands(p, cfg.ports[p])])
  \o ForEach([p \in ids |-> port_physical_commands(p, cfg.ports[p])])

\* 'set admin down' and 'set poe-status enable' are written to the interface,
\* where the state and the PoE of a port are not read from.
reset_ports(ids) ==
  ForEach([p \in ids |->
             <<port_set(p, "description", NoText), [op |-> "native", port |-> p, vlan |-> 1],
               [op |-> "set tagged", port |-> p, vlans |-> {1}]>>])

configure_mirror_dest_ports(ids) ==
  ForEach([p \in ids |-> <<port_set(p, "enabled", TRUE)>>])

(***************************************************************************)
(* Mirrors: a direction that is not wanted any more is not taken away.     *)
(***************************************************************************)
generate_mirror_commands(mirrors, sessions) ==
  LET received(m) == IF m.direction = "tx" THEN <<>> ELSE [ingress |-> m.source_ports]
      transmitted(m) == IF m.direction = "rx" THEN <<>> ELSE [egress |-> m.source_ports]
      value(m) == Updated(Updated([destination_port |-> m.destination_port], received(m)), transmitted(m))
  IN  ForEach([s \in sessions |-> <<[op |-> "mirror", session |-> s, value |-> value(mirrors[s])]>>])

generate_remove_mirror_commands(sessions) ==
  ForEach([s \in sessions |-> <<[op |-> "no mirror", session |-> s]>>])

(***************************************************************************)
(* SNMP.                                                                   *)
(***************************************************************************)
\* An 'auto' that was not resolved, and an IPv6 network, cannot be written.
host_to_fortios(h) == h \notin {"auto", "ipv6"}

check_snmp_limits(snmp) ==
  /\ Cardinality(DOMAIN snmp.communities) <= MAX_SNMP_COMMUNITIES
  /\ \A n \in DOMAIN snmp.communities : \A h \in snmp.communities[n].allowed_hosts : host_to_fortios(h)

snmp_prerequisite_commands(cfg, dev) ==
  When(~ parse_snmp_sysinfo_enabled(dev), [op |-> "sysinfo"])
  \o ForEach([v \in resolve_mgmt_access(cfg, dev) |->
                When("snmp" \notin dev.svi[v].allowaccess,
                     [op |-> "svi", vlan |-> v,
                      value |-> [allowaccess |-> dev.svi[v].allowaccess \cup {"snmp"}]])])

free_snmp_index(occupied) ==
  CHOOSE i \in 100..(100 + Cardinality(occupied)) :
    i \notin occupied /\ \A j \in 100..(i - 1) : j \in occupied

snmp_community_block(index, n, community) ==
  [op |-> "community", name |-> index,
   value |-> [name |-> n, traps |-> community.allowed_hosts = {},
              hosts |-> SetToSeq(community.allowed_hosts), events |-> {}]]

\* A new community goes to the lowest number from 100 that is not taken.
add_community_commands(snmp, names, occupied) ==
  LET free(k) == LET later[i \in 0..k] == IF i = 0 THEN occupied
                                          ELSE later[i - 1] \cup {free_snmp_index(later[i - 1])}
                 IN  the(later[k] \ later[k - 1])
      order == SetToSeq(names)
  IN  [k \in DOMAIN order |-> snmp_community_block(free(k), order[k], snmp.communities[order[k]])]

\* Receivers always start at host 100 of entry 1; 'delete <host>' does nothing,
\* and which traps are sent is never changed.
trap_receiver_commands(hosts) ==
  LET order == SetToSeq(hosts)
  IN  [k \in DOMAIN order |-> [op |-> "host", entry |-> 1, index |-> 99 + k, host |-> order[k]]]

\* Mutant of occupied_indices: the entries of the switch are not looked at.
occupied_indices_ignored(dev, d) == {}

\* The numbers that are taken once the removals are done.
occupied_indices(dev, d) ==
  LET indices == parse_snmp_community_indices(dev)
  IN  {indices[n] : n \in DOMAIN indices \ d.communities_to_remove}

apply_snmp_diff(cfg, dev, snmp, d) ==
  LET indices == parse_snmp_community_indices(dev)
  IN  (IF d.communities_to_add \cup d.communities_to_update # {}
       THEN snmp_prerequisite_commands(cfg, dev) ELSE <<>>)
      \o ForEach([n \in d.communities_to_remove |-> <<[op |-> "no community", name |-> indices[n]]>>])
      \o ForEach([n \in d.communities_to_update |->
                    <<[op |-> "no community", name |-> indices[n]],
                      snmp_community_block(indices[n], n, snmp.communities[n])>>])
      \o add_community_commands(snmp, d.communities_to_add, occupied_indices(dev, d))
      \o trap_receiver_commands(d.trap_receivers_to_add)

(***************************************************************************)
(* The management VLAN, with a description of its own.                     *)
(***************************************************************************)
ManagementText == "Management VLAN with allowaccess"

configure_management_vlan(cfg, v) ==
  <<[op |-> "svi", vlan |-> v,
     value |-> Updated([description |-> ManagementText,
                        allowaccess |-> {"ping", "https", "ssh", "snmp"}],
                       IF cfg.vlans[v].ip_config = "none" THEN <<>>
                       ELSE [ip_config |-> cfg.vlans[v].ip_config])]>>

remove_management_vlan == <<>>

(***************************************************************************)
(* apply_diff: no port leaves a VLAN before the VLAN goes.  An SNMP limit  *)
(* that is exceeded fails the apply at that point: everything before it    *)
(* has been done.                                                          *)
(***************************************************************************)
Fails == <<[op |-> "fail"]>>

apply_diff(cfg, dev, d, order) ==
  LET wanted == IF effective_snmp(cfg.snmp) = {} THEN EmptySnmp ELSE the(effective_snmp(cfg.snmp))
  IN  When(d.vlans_to_remove # {}, generate_remove_vlan_commands(order))
      \o When(d.vlans_to_add # {}, generate_vlan_commands(cfg, d.vlans_to_add))
      \o When(d.vlans_to_update # {}, generate_vlan_commands(cfg, d.vlans_to_update))
      \o When(d.ports_to_configure # {}, generate_port_commands(cfg, d.ports_to_configure))
      \o When(d.ports_to_reset # {}, reset_ports(d.ports_to_reset))
      \o When(d.mirror_dest_ports_to_configure # {},
              configure_mirror_dest_ports(d.mirror_dest_ports_to_configure))
      \o When(d.mirrors_to_remove # {}, generate_remove_mirror_commands(d.mirrors_to_remove))
      \o When(d.mirrors_to_add # {}, generate_mirror_commands(cfg.port_mirrors, d.mirrors_to_add))
      \o When(d.mirrors_to_update # {}, generate_mirror_commands(cfg.port_mirrors, d.mirrors_to_update))
      \o When(\E s \in d.snmp_diff : snmp_has_changes(s),
              IF check_snmp_limits(wanted) THEN apply_snmp_diff(cfg, dev, wanted, the(d.snmp_diff))
              ELSE Fails)
      \o When(d.management_vlan_changed,
              IF d.management_vlan = 0 THEN remove_management_vlan
              ELSE IF d.management_vlan \notin DOMAIN cfg.vlans THEN Fails
              ELSE configure_management_vlan(cfg, d.management_vlan))

poe_disable_commands(p) == <<port_set(p, "poe_enabled", FALSE)>>

poe_enable_commands(p) == <<port_set(p, "poe_enabled", TRUE)>>

=============================================================================
