------------------------------ MODULE StateDiff ------------------------------
(***************************************************************************)
(* The difference between what a switch has and what the configuration     *)
(* wants (diff/mod.rs), and which ports must leave a VLAN before it is     *)
(* removed.  The lists that are collected from a HashMap are sets here:    *)
(* whoever walks one picks the order.                                      *)
(***************************************************************************)
EXTENDS SwitchModels

(***************************************************************************)
(* VLANs.                                                                  *)
(***************************************************************************)
vlans_equivalent_for_model(current, desired, supports_description) ==
  /\ current.name = desired.name
  /\ current.ip_config = desired.ip_config
  /\ supports_description => current.description = desired.description

vlans_to_add(current, desired) == DOMAIN desired.vlans \ DOMAIN current.vlans

vlans_to_remove(current, desired) == (DOMAIN current.vlans \ DOMAIN desired.vlans) \ {1}

vlans_to_update(current, desired) ==
  {v \in DOMAIN current.vlans \cap DOMAIN desired.vlans :
     ~ vlans_equivalent_for_model(current.vlans[v], desired.vlans[v],
                                  supports_vlan_description(desired.model))}

(***************************************************************************)
(* Ports.                                                                  *)
(***************************************************************************)
is_port_in_default_state(p) ==
  /\ ~ p.enabled /\ p.vlan = 1 /\ inferred_mode(p) = "Access"
  /\ p.description \in {NoText, ""} /\ ~ p.mac_notify

\* Without the native VLAN; the order of the list is kept and compared.
tagged_without_native(p) == Dropping(p.tagged_vlans, {p.vlan})

\* Mutant of ports_equivalent_for_model: whether the port is on is not compared.
ports_equivalent_off_or_on(current, desired, poe) ==
  /\ current.vlan = desired.vlan
  /\ current.description = desired.description
  /\ tagged_without_native(current) = tagged_without_native(desired)
  /\ poe => current.poe_enabled = desired.poe_enabled

ports_equivalent_for_model(current, desired, poe) ==
  /\ current.vlan = desired.vlan
  /\ current.description = desired.description
  /\ current.enabled = desired.enabled
  /\ current.mac_notify = desired.mac_notify
  /\ current.speed_duplex = desired.speed_duplex
  /\ poe => current.poe_enabled = desired.poe_enabled
  /\ tagged_without_native(current) = tagged_without_native(desired)
  /\ \/ tagged_without_native(current) = <<>>
     \/ inferred_mode(current) = inferred_mode(desired)

ports_to_configure(current, desired) ==
  {p \in DOMAIN desired.ports :
     p \in DOMAIN current.ports =>
       ~ ports_equivalent_for_model(current.ports[p], desired.ports[p],
                                    supports_poe(desired.model))}

mirror_destinations(desired) ==
  {desired.port_mirrors[s].destination_port : s \in DOMAIN desired.port_mirrors}

\* Mutant of ports_to_reset: ports are reset without being asked to.
ports_to_reset_always(current, desired, enforce_port_config) ==
  {p \in DOMAIN current.ports \ DOMAIN desired.ports :
     p \notin mirror_destinations(desired) /\ ~ is_port_in_default_state(current.ports[p])}

ports_to_reset(current, desired, enforce_port_config) ==
  {p \in DOMAIN current.ports \ DOMAIN desired.ports :
     /\ enforce_port_config
     /\ p \notin mirror_destinations(desired)
     /\ ~ is_port_in_default_state(current.ports[p])}

(***************************************************************************)
(* Mirrors.                                                                *)
(***************************************************************************)
mirrors_to_add(current, desired) == DOMAIN desired.port_mirrors \ DOMAIN current.port_mirrors

mirrors_to_remove(current, desired) == DOMAIN current.port_mirrors \ DOMAIN desired.port_mirrors

mirrors_to_update(current, desired) ==
  {s \in DOMAIN current.port_mirrors \cap DOMAIN desired.port_mirrors :
     current.port_mirrors[s] # desired.port_mirrors[s]}

is_baseline(p) == p.vlan = 1 /\ p.enabled /\ p.tagged_vlans = <<>>

mirror_dest_ports_to_configure(current, desired) ==
  {d \in mirror_destinations(desired) :
     d \in DOMAIN current.ports => ~ is_baseline(current.ports[d])}

(***************************************************************************)
(* SNMP.  No configuration on one side is an empty one; a receiver is the  *)
(* same when its host is.                                                  *)
(***************************************************************************)
compute_snmp_diff(current, desired) ==
  LET cc == DOMAIN current.communities
      dc == DOMAIN desired.communities
  IN  [communities_to_add |-> dc \ cc,
       communities_to_remove |-> cc \ dc,
       communities_to_update |->
         {n \in cc \cap dc : current.communities[n] # desired.communities[n]},
       trap_receivers_to_add |-> DOMAIN desired.trap_receivers \ DOMAIN current.trap_receivers,
       trap_receivers_to_remove |-> DOMAIN current.trap_receivers \ DOMAIN desired.trap_receivers,
       traps_to_enable |-> desired.enabled_traps \ current.enabled_traps,
       traps_to_disable |-> current.enabled_traps \ desired.enabled_traps]

snmp_has_changes(d) == \E f \in DOMAIN d : d[f] # {}

\* The granular diff, {} when there is SNMP on neither side.
diff_snmp(current, desired) ==
  LET wanted == effective_snmp(desired.snmp)
      or_empty(s) == IF s = {} THEN EmptySnmp ELSE CHOOSE x \in s : TRUE
  IN  IF current.snmp = {} /\ wanted = {} THEN {}
      ELSE {compute_snmp_diff(or_empty(current.snmp), or_empty(wanted))}

diff_management_vlan(current, desired) == current.management_vlan # desired.management_vlan

(***************************************************************************)
(* The whole diff.                                                         *)
(***************************************************************************)
compute_diff(current, desired, enforce_port_config) ==
  [vlans_to_add |-> vlans_to_add(current, desired),
   vlans_to_remove |-> vlans_to_remove(current, desired),
   vlans_to_update |-> vlans_to_update(current, desired),
   ports_to_configure |-> ports_to_configure(current, desired),
   ports_to_reset |-> ports_to_reset(current, desired, enforce_port_config),
   mirrors_to_add |-> mirrors_to_add(current, desired),
   mirrors_to_remove |-> mirrors_to_remove(current, desired),
   mirrors_to_update |-> mirrors_to_update(current, desired),
   mirror_dest_ports_to_configure |-> mirror_dest_ports_to_configure(current, desired),
   snmp_diff |-> diff_snmp(current, desired),
   management_vlan_changed |-> diff_management_vlan(current, desired),
   management_vlan |-> desired.management_vlan]

has_changes(d) ==
  \/ \E f \in DOMAIN d \ {"snmp_diff", "management_vlan_changed", "management_vlan"} : d[f] # {}
  \/ \E s \in d.snmp_diff : snmp_has_changes(s)
  \/ d.management_vlan_changed

(***************************************************************************)
(* find_ports_to_migrate walks the VLANs in the order of the list and      *)
(* stops at the first one that a port is in: one entry per port.           *)
(***************************************************************************)
MustLeave(p, v) ==
  IF inferred_mode(p) = "Access" THEN p.vlan = v
  ELSE \E i \in DOMAIN p.tagged_vlans : p.tagged_vlans[i] = v

find_ports_to_migrate(current, order) ==
  LET first(p) == {i \in DOMAIN order :
                     /\ MustLeave(current.ports[p], order[i])
                     /\ \A j \in 1..(i - 1) : ~ MustLeave(current.ports[p], order[j])}
  IN  {[port_id |-> at[1], vlan_being_removed |-> order[at[2]],
        action |-> IF inferred_mode(current.ports[at[1]]) = "Access"
                   THEN "MoveAccessToVlan1" ELSE "RemoveVlanFromTrunk"]
       : at \in {pi \in (DOMAIN current.ports) \X (DOMAIN order) : pi[2] \in first(pi[1])}}
=============================================================================
