----------------------------- MODULE SwitchDevice -----------------------------
(***************************************************************************)
(* A switch, as the program sees it through its command line: a running    *)
(* configuration and what each command of the three vendors does to it.    *)
(* None of this is code of the repository; it is how the vendors' command  *)
(* generators and parsers take the switches to behave.                     *)
(*                                                                         *)
(* A command that the vendors spell differently but mean alike has one     *)
(* name here; where they do not mean the same it has two.                  *)
(***************************************************************************)
EXTENDS SwitchModels, SequencesExt

\* A switch that has never been configured: every port untagged in VLAN 1, on.
FactoryPort(m, n) ==
  [description |-> NoText, enabled |-> TRUE, poe_enabled |-> port_supports_poe(m, n),
   mac_traps |-> {}, speed_duplex |-> "auto", monitor |-> {}]

Factory(m, portIds) ==
  [vlans |-> Put(<<>>, 1, [name |-> "default", description |-> NoText, ip_config |-> "none"]),
   untagged |-> [p \in portIds |-> 1],
   tagged |-> [p \in portIds |-> {}],
   trunk |-> {},
   port |-> [p \in portIds |-> FactoryPort(m, p)],
   svi |-> <<>>,
   mirrors |-> <<>>,
   sysinfo |-> FALSE,
   communities |-> <<>>, receivers |-> <<>>, traps |-> {},
   management_vlan |-> 0]

(***************************************************************************)
(* What is true of every switch: its lists are finite, VLANs are numbered  *)
(* from 1, and every port has a native VLAN and a PoE setting.             *)
(***************************************************************************)
VlanId == Nat \ {0}

IsDevice(d) ==
  /\ DOMAIN d = {"vlans", "untagged", "tagged", "trunk", "port", "svi", "mirrors", "sysinfo",
                 "communities", "receivers", "traps", "management_vlan"}
  /\ DOMAIN d.untagged = DOMAIN d.port /\ DOMAIN d.tagged = DOMAIN d.port
  /\ \A f \in {"vlans", "port", "mirrors", "communities", "receivers"} : IsFiniteSet(DOMAIN d[f])
  /\ DOMAIN d.vlans \subseteq VlanId
  /\ \A p \in DOMAIN d.port :
       /\ d.untagged[p] \in VlanId
       /\ d.tagged[p] \subseteq VlanId /\ IsFiniteSet(d.tagged[p])
       /\ "poe_enabled" \in DOMAIN d.port[p] /\ d.port[p].poe_enabled \in BOOLEAN

\* No port is in a VLAN that is not there.
KnowsItsVlans(d) ==
  /\ 1 \in DOMAIN d.vlans
  /\ \A p \in DOMAIN d.port : d.tagged[p] \cup {d.untagged[p]} \subseteq DOMAIN d.vlans

\* A VLAN that a command has just created.
NewVlan(v) == [name |-> "unnamed", description |-> NoText, ip_config |-> "none"]

EnsureVlan(d, v) == IF v \in DOMAIN d.vlans THEN d ELSE [d EXCEPT !.vlans = Put(@, v, NewVlan(v))]

Without(f, keys) == [k \in DOMAIN f \ keys |-> f[k]]

\* A layer 3 interface, a mirror session and an SNMP entry of FortiOS that a
\* command has just created.
NewSvi == [description |-> NoText, ip_config |-> "none", allowaccess |-> {}]

NewMirror == [ingress |-> <<>>, egress |-> <<>>]

NewEntry == [name |-> NoText, traps |-> TRUE, hosts |-> <<>>, events |-> {}]

Or(f, k, new) == IF k \in DOMAIN f THEN f[k] ELSE new

\* A port that leaves its last VLAN falls back to VLAN 1.
RemoveVlan(d, v) ==
  [d EXCEPT !.vlans = Without(@, {v} \ {1}),
            !.untagged = [p \in DOMAIN @ |-> IF @[p] = v THEN 1 ELSE @[p]],
            !.tagged = [p \in DOMAIN @ |-> @[p] \ {v}]]

Execute(d, c) ==
  CASE c.op = "vlan" -> EnsureVlan(d, c.vlan)
    [] c.op = "vlan set" -> [EnsureVlan(d, c.vlan) EXCEPT !.vlans[c.vlan][c.field] = c.value]
    [] c.op = "delete vlan" -> [d EXCEPT !.vlans = Without(@, {c.vlan})]
    [] c.op = "svi" -> [d EXCEPT !.svi = Put(@, c.vlan, Updated(Or(@, c.vlan, NewSvi), c.value))]
    [] c.op = "native" -> [d EXCEPT !.untagged[c.port] = c.vlan]
    [] c.op = "no vlan" -> RemoveVlan(d, c.vlan)
    [] c.op = "untagged" -> [d EXCEPT !.untagged[c.port] = c.vlan,
                                      !.tagged[c.port] = @ \ {c.vlan}]
    [] c.op = "no untagged" -> [d EXCEPT !.untagged[c.port] = IF @ = c.vlan THEN 1 ELSE @]
    [] c.op = "tagged" -> [d EXCEPT !.tagged[c.port] = @ \cup (c.vlans \ {d.untagged[c.port]})]
    [] c.op = "no tagged" -> [d EXCEPT !.tagged[c.port] = @ \ c.vlans]
    [] c.op = "set tagged" -> [d EXCEPT !.tagged[c.port] = c.vlans]
    [] c.op = "trunk" -> [d EXCEPT !.trunk = IF c.value THEN @ \cup {c.port} ELSE @ \ {c.port}]
    [] c.op = "port set" -> [d EXCEPT !.port[c.port][c.field] = c.value]
    [] c.op = "mac trap" -> [d EXCEPT !.port[c.port].mac_traps = @ \cup {c.trap}]
    [] c.op = "no mac trap" -> [d EXCEPT !.port[c.port].mac_traps = @ \ {c.trap}]
    [] c.op = "monitor" -> [d EXCEPT !.port[c.port].monitor = @ \cup {c.direction}]
    [] c.op = "mirror" -> [d EXCEPT !.mirrors = Put(@, c.session,
                                                       Updated(Or(@, c.session, NewMirror), c.value))]
    [] c.op = "no mirror" -> [d EXCEPT !.mirrors = Without(@, {c.session})]
    [] c.op = "community" -> [d EXCEPT !.communities = Put(@, c.name, c.value)]
    [] c.op = "no community" -> [d EXCEPT !.communities = Without(@, {c.name})]
    [] c.op = "host" -> [d EXCEPT !.communities =
                           Put(@, c.entry, [Or(@, c.entry, NewEntry) EXCEPT
                                              !.hosts = Put(@, c.index, c.host)])]
    [] c.op = "sysinfo" -> [d EXCEPT !.sysinfo = TRUE]
    [] c.op = "receiver" -> [d EXCEPT !.receivers = Put(@, c.host, c.community)]
    [] c.op = "no receiver" -> [d EXCEPT !.receivers = Without(@, {c.host})]
    [] c.op = "traps" -> [d EXCEPT !.traps = @ \cup c.traps]
    [] c.op = "no traps" -> [d EXCEPT !.traps = @ \ c.traps]
    [] c.op = "management vlan" -> [d EXCEPT !.management_vlan = c.vlan]

(***************************************************************************)
(* Putting commands together: those a function gives for every member of   *)
(* its domain, one after the other, and a batch that is sent only on a     *)
(* condition.                                                              *)
(***************************************************************************)
ForEach(f) == LET order == SetToSeq(DOMAIN f) IN FlattenSeq([i \in DOMAIN order |-> f[order[i]]])

When(condition, batch) == IF condition THEN <<batch>> ELSE <<>>

port_set(p, field, value) == [op |-> "port set", port |-> p, field |-> field, value |-> value]

the(S) == CHOOSE x \in S : TRUE

\* The switch after the commands, one after the other.
Run(d, commands) ==
  LET run[n \in 0..Len(commands)] == IF n = 0 THEN d ELSE Execute(run[n - 1], commands[n])
  IN  run[Len(commands)]
=============================================================================
