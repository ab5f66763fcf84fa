---------------------------- MODULE ApplyPipeline ----------------------------
(***************************************************************************)
(* One switch and the operations that change it, from connecting to the    *)
(* outcome: the one-off and start-up apply (main.rs), which runs the       *)
(* validation tests before it saves; the apply of the API and of the file  *)
(* watcher, which saves without them; and the PoE operations.  The switch  *)
(* has a running configuration and the one it starts from, and may lose    *)
(* power at any time.                                                      *)
(*                                                                         *)
(* The turnstile lets one operation at a time to a switch (SwitchGate), so *)
(* this is one process; the device model and the vendors are SwitchDevice, *)
(* ArubaSwitch, FortiSwitch and CiscoSwitch.                               *)
(***************************************************************************)
EXTENDS StateDiff, SwitchDevice

CONSTANTS
  Scenarios,     \* records [cfg, dev, enforce, validation]: what is wanted, and the switch as found
  Kinds,         \* the operations that may be asked for
  PoePort,       \* the port of the PoE operations
  MaxFaults      \* how often something fails that need not have

\* The configurations are those that serde and a load let in: a port is in
\* VLANs of its switch (LoadedIsConsistent of OverlayFiles).  The switches are
\* in a state that a switch can be in.
ASSUME ScenariosAreTyped ==
  \A s \in Scenarios :
    /\ s.cfg.model \in SwitchModel /\ s.enforce \in BOOLEAN
    /\ \A f \in {"vlans", "ports", "port_mirrors"} : IsFiniteSet(DOMAIN s.cfg[f])
    /\ DOMAIN s.cfg.vlans \subseteq VlanId
    /\ \A v \in DOMAIN s.cfg.vlans : s.cfg.vlans[v].ip_config \in VlanIpConfig
    /\ \A p \in DOMAIN s.cfg.ports :
         s.cfg.ports[p] \in Port(DOMAIN s.cfg.vlans \cup {1}, STRING)
    /\ \A m \in DOMAIN s.cfg.port_mirrors : s.cfg.port_mirrors[m].direction \in MirrorDirection
    /\ AtMostOne(s.cfg.snmp) /\ AtMostOne(s.validation)
    /\ \A snmp \in s.cfg.snmp :
         /\ snmp.enabled_traps \subseteq TrapType
         /\ IsFiniteSet(DOMAIN snmp.communities) /\ IsFiniteSet(DOMAIN snmp.trap_receivers)
         /\ \A n \in DOMAIN snmp.communities : snmp.communities[n].access \in SnmpAccess
         /\ AtMostOne(snmp.reads) /\ \A r \in snmp.reads : AtMostOne(r.community)
    /\ \A v \in s.validation : v.on_failure \in {"rollback", "manual", "save_anyway"}
    /\ IsDevice(s.dev) /\ (vendor(s.cfg.model) = "Aruba" => KnowsItsVlans(s.dev))
    /\ port_supports_poe(s.cfg.model, PoePort) => PoePort \in DOMAIN s.dev.port

VARIABLES
  sw,            \* the scenario; the configuration does not change
  running,       \* the running configuration of the switch
  startup,       \* the configuration it starts from
  kind,          \* the operation under way, "none" when there is none
  pc,            \* its next step
  cur,           \* the state that apply_configuration parsed
  batches,       \* what is still to be sent
  sent,          \* has apply_configuration anything in its results?
  tests,         \* the validation tests that are still to be run
  passed,        \* ValidationResult.passed
  outcome,       \* of the last operation
  warned,        \* is there a convergence warning?
  clean,         \* has nothing failed in this operation?
  rejected,      \* configurations that failed their validation (history)
  faults         \* how many more things may fail

vars == <<sw, running, startup, kind, pc, cur, batches, sent, tests, passed, outcome, warned,
          clean, rejected, faults>>

Aruba == INSTANCE ArubaSwitch
FortiOS == INSTANCE FortiSwitch
IOS == INSTANCE CiscoSwitch

(***************************************************************************)
(* create_vendor: which parser reads the switch and which generator        *)
(* answers a diff.                                                         *)
(***************************************************************************)
Brand == vendor(sw.cfg.model)

\* In every order that a HashMap may give the mirror's source ports.
ParsedStates(dev) ==
  CASE Brand = "Aruba" -> {Aruba!parse_current_state(sw.cfg, dev, order)
                             : order \in SetToSeqs(Aruba!monitor_ports(dev))}
    [] Brand = "Fortiswitch" -> {FortiOS!parse_current_state(sw.cfg, dev)}
    [] Brand = "Cisco" -> {IOS!parse_current_state(dev)}

\* In every order that a HashSet may give the VLANs that go.
Answers(dev, state, d) ==
  {CASE Brand = "Aruba" -> Aruba!apply_diff(sw.cfg, state, d, order)
     [] Brand = "Fortiswitch" -> FortiOS!apply_diff(sw.cfg, dev, d, order)
     [] Brand = "Cisco" -> IOS!apply_diff(sw.cfg, d)
   : order \in SetToSeqs(d.vlans_to_remove)}

Diff(state) == compute_diff(state, sw.cfg, sw.enforce)

Applies == {"once", "apply"}

poe_op_guard == /\ port_supports_poe(sw.cfg.model, PoePort)
                /\ supports_poe(sw.cfg.model)
                /\ Brand \in {"Aruba", "Fortiswitch"}

poe_commands_for(on) ==
  CASE Brand = "Fortiswitch" /\ on -> FortiOS!poe_enable_commands(PoePort)
    [] Brand = "Fortiswitch" /\ ~ on -> FortiOS!poe_disable_commands(PoePort)
    [] Brand = "Aruba" /\ on -> Aruba!poe_enable_commands(PoePort)
    [] Brand = "Aruba" /\ ~ on -> Aruba!poe_disable_commands(PoePort)

(***************************************************************************)
(* The validation tests, by what they look for in what they get back:      *)
(* nothing at all, or a text with some of these words.                     *)
(***************************************************************************)
Answer == [answered : BOOLEAN, says : {{}, {"error"}, {"lost"}, {"reply"}, {"vlan"}, {"down"}}]

execute_command_test(a) == a.answered /\ a.says \cap {"error"} = {} /\ a.says # {}

execute_ping_management_test(a) == a.answered /\ "lost" \notin a.says

execute_tcp_port_test(a) == a.answered

execute_gateway_test(a) == a.answered /\ "lost" \notin a.says /\ "reply" \in a.says

execute_device_reachable_test(a) == a.answered /\ "lost" \notin a.says /\ "reply" \in a.says

\* Without critical ports there is nothing to ask.
execute_port_status_test(a, critical) == critical => a.answered /\ "down" \notin a.says

execute_vlan_membership_test(a) == a.answered /\ "error" \notin a.says /\ "vlan" \in a.says

execute_test(test, a) ==
  CASE test.type = "command_execution" -> execute_command_test(a)
    [] test.type = "ping_management_ip" -> execute_ping_management_test(a)
    [] test.type = "tcp_port_check" -> execute_tcp_port_test(a)
    [] test.type = "gateway_reachable" -> execute_gateway_test(a)
    [] test.type = "device_reachable" -> execute_device_reachable_test(a)
    [] test.type = "port_status" -> execute_port_status_test(a, test.critical)
    [] test.type = "vlan_membership" -> execute_vlan_membership_test(a)

record_failure(ok, test) == ok /\ ~ test.required

(***************************************************************************)
(* The state before the first operation: the switch as it was found, its   *)
(* configuration saved.                                                    *)
(***************************************************************************)
Init ==
  /\ sw \in Scenarios
  /\ running = sw.dev /\ startup = sw.dev
  /\ kind = "none" /\ pc = "idle"
  /\ cur = EmptyState /\ batches = <<>> /\ sent = FALSE
  /\ tests = <<>> /\ passed = TRUE
  /\ outcome = "none" /\ warned = FALSE /\ clean = TRUE /\ rejected = {}
  /\ faults = MaxFaults

Finish(result) ==
  /\ pc' = "idle" /\ kind' = "none" /\ outcome' = result
  /\ batches' = <<>> /\ tests' = <<>> /\ passed' = TRUE /\ sent' = FALSE /\ cur' = EmptyState

\* Something fails; the operation is not clean any more.
Fault ==
  /\ faults > 0
  /\ faults' = faults - 1 /\ clean' = FALSE

Start(k) ==
  /\ pc = "idle"
  /\ k \notin Applies => poe_op_guard
  /\ kind' = k /\ pc' = "connect" /\ clean' = TRUE /\ outcome' = "none"
  /\ UNCHANGED <<sw, running, startup, cur, batches, sent, tests, passed, warned, rejected, faults>>

Connect ==
  /\ pc = "connect"
  /\ IF kind \in Applies
     THEN pc' = "parse" /\ UNCHANGED batches
     ELSE /\ pc' = IF kind = "poe_reset" THEN "disabling" ELSE "setting"
          /\ batches' = <<poe_commands_for(kind = "poe_on")>>
  /\ UNCHANGED <<sw, running, startup, kind, cur, sent, tests, passed, outcome, warned, clean,
                 rejected, faults>>

\* connect() fails, or the state cannot be read: nothing has been sent.
ReadFails ==
  /\ pc \in {"connect", "parse"} /\ Fault /\ Finish("failed")
  /\ UNCHANGED <<sw, running, startup, warned, rejected>>

(***************************************************************************)
(* apply_configuration.                                                    *)
(***************************************************************************)
\* Refused, nothing to do, or the commands for the difference.
ParseAndDiff ==
  /\ pc = "parse"
  /\ \E state \in ParsedStates(running) :
       \/ /\ ~ check_empty_state_safety(state, sw.cfg)
          /\ Finish("refused")
       \/ /\ check_empty_state_safety(state, sw.cfg)
          /\ cur' = state
          /\ IF has_changes(Diff(state))
             THEN /\ pc' = "send" /\ sent' = TRUE
                  /\ batches' \in Answers(running, state, Diff(state))
             ELSE pc' = "results" /\ UNCHANGED <<sent, batches>>
          /\ UNCHANGED <<kind, outcome, tests, passed>>
  /\ UNCHANGED <<sw, running, startup, warned, clean, rejected, faults>>

\* A batch is one execute_commands: it is sent line by line.
SendBatch ==
  /\ pc = "send" /\ batches # <<>>
  /\ IF Head(batches) = FortiOS!Fails
     THEN Finish("failed") /\ UNCHANGED running
     ELSE /\ running' = Run(running, Head(batches))
          /\ batches' = Tail(batches)
          /\ UNCHANGED <<kind, pc, cur, sent, tests, passed, outcome>>
  /\ UNCHANGED <<sw, startup, warned, clean, rejected, faults>>

\* The connection breaks after some of the lines; whether the last one was
\* done is not known to the program.
BatchBreaks ==
  /\ pc = "send" /\ batches # <<>> /\ Fault
  /\ \E n \in 0..Len(Head(batches)) :
       running' = IF Head(batches) = FortiOS!Fails THEN running
                  ELSE Run(running, SubSeq(Head(batches), 1, n))
  /\ Finish("failed")
  /\ UNCHANGED <<sw, startup, warned, rejected>>

\* The convergence check only ever warns.
Verify ==
  /\ pc = "send" /\ batches = <<>>
  /\ \E state \in ParsedStates(running) :
       /\ cur' = state
       /\ warned' = has_changes(Diff(state))
  /\ pc' = "results"
  /\ UNCHANGED <<sw, running, startup, kind, batches, sent, tests, passed, outcome, clean,
                 rejected, faults>>

VerifyFails ==
  /\ pc = "send" /\ batches = <<>> /\ Fault
  /\ pc' = "results"
  /\ UNCHANGED <<sw, running, startup, kind, cur, batches, sent, tests, passed, outcome, warned,
                 rejected>>

(***************************************************************************)
(* What follows it: in configure_switch_once the tests and then the save,  *)
(* and neither when there was nothing to do; in apply_config_impl and      *)
(* apply_single_switch the save, always.                                   *)
(***************************************************************************)
Results ==
  /\ pc = "results"
  /\ CASE kind = "once" /\ ~ sent -> Finish("ok")
       [] kind = "once" /\ sent /\ sw.validation # {} ->
            /\ pc' = "validate" /\ tests' = the(sw.validation).tests /\ passed' = TRUE
            /\ UNCHANGED <<kind, outcome, batches, sent, cur>>
       [] OTHER -> pc' = "save" /\ UNCHANGED <<kind, outcome, batches, sent, cur, tests, passed>>
  /\ UNCHANGED <<sw, running, startup, warned, clean, rejected, faults>>

\* Over the time limit the tests stop, but only once one has failed.
RunTest ==
  /\ pc = "validate" /\ tests # <<>>
  /\ \E a \in Answer :
       passed' = IF execute_test(Head(tests), a) THEN passed ELSE record_failure(passed, Head(tests))
  /\ \/ tests' = Tail(tests)
     \/ ~ passed' /\ tests' = <<>>
  /\ UNCHANGED <<sw, running, startup, kind, pc, cur, batches, sent, outcome, warned, clean,
                 rejected, faults>>

\* Mutant of Validated: tests that failed are run again.
ValidatedAgain ==
  /\ pc = "validate" /\ tests = <<>>
  /\ pc' = IF passed THEN "save" ELSE "results"
  /\ UNCHANGED <<sw, running, startup, kind, cur, batches, sent, tests, passed, outcome, warned,
                 clean, rejected, faults>>

Validated ==
  /\ pc = "validate" /\ tests = <<>>
  /\ LET v == the(sw.validation)
     IN  CASE passed \/ v.on_failure = "save_anyway" ->
                pc' = "save" /\ UNCHANGED <<kind, outcome, batches, sent, cur, tests, passed>>
           [] ~ passed /\ v.on_failure = "rollback" ->
                pc' = "rollback" /\ UNCHANGED <<kind, outcome, batches, sent, cur, tests, passed>>
           [] ~ passed /\ v.on_failure = "manual" -> Finish("failed")
  /\ rejected' = IF ~ passed /\ the(sw.validation).on_failure # "save_anyway"
                 THEN rejected \cup {running} ELSE rejected \ {running}
  /\ UNCHANGED <<sw, running, startup, warned, clean, faults>>

\* The connection is gone: the tests could not be run.
ValidationBreaks ==
  /\ pc = "validate" /\ Fault /\ Finish("failed")
  /\ UNCHANGED <<sw, running, startup, warned, rejected>>

\* Mutant of rollback_configuration: the copy goes the wrong way.
rollback_copies_running ==
  /\ pc = "rollback"
  /\ startup' = running
  /\ Finish("failed")
  /\ UNCHANGED <<sw, running, warned, clean, rejected, faults>>

\* Reload, restore and 'revert' all end with what the switch starts from.
rollback_configuration ==
  /\ pc = "rollback"
  /\ running' = startup
  /\ Finish("failed")
  /\ UNCHANGED <<sw, startup, warned, clean, rejected, faults>>

\* It is logged, and the switch keeps the configuration that failed.
RollbackFails ==
  /\ pc = "rollback" /\ Fault /\ Finish("failed")
  /\ UNCHANGED <<sw, running, startup, warned, rejected>>

save_configuration ==
  /\ pc = "save"
  /\ startup' = running
  /\ Finish("ok")
  /\ UNCHANGED <<sw, running, warned, clean, rejected, faults>>

\* Not an error of the apply, except for configure_switch_once.
SaveFails ==
  /\ pc = "save" /\ Fault
  /\ Finish(IF kind = "once" THEN "failed" ELSE "ok")
  /\ UNCHANGED <<sw, running, startup, warned, rejected>>

(***************************************************************************)
(* PoE: poe_set_impl sends one batch; poe_reset_impl disables, waits,      *)
(* enables, and tries a second time to enable.                             *)
(***************************************************************************)
PoeStep ==
  /\ pc \in {"setting", "disabling", "enabling", "retrying"}
  /\ running' = Run(running, Head(batches))
  /\ IF pc = "disabling"
     THEN /\ pc' = "enabling" /\ batches' = <<poe_commands_for(TRUE)>>
          /\ UNCHANGED <<kind, outcome, sent, cur, tests, passed>>
     ELSE Finish("ok")
  /\ UNCHANGED <<sw, startup, warned, clean, rejected, faults>>

\* Mutant of PoeStepFails: the second try to enable is not looked at.
PoeStepFailsSilently ==
  /\ pc \in {"setting", "disabling", "enabling", "retrying"} /\ Fault
  /\ running' \in {running, Run(running, Head(batches))}
  /\ Finish("ok")
  /\ UNCHANGED <<sw, startup, warned, rejected>>

\* Whether the switch did what it was told is not known.
PoeStepFails ==
  /\ pc \in {"setting", "disabling", "enabling", "retrying"} /\ Fault
  /\ running' \in {running, Run(running, Head(batches))}
  /\ IF pc = "enabling"
     THEN pc' = "retrying" /\ UNCHANGED <<kind, outcome, batches, sent, cur, tests, passed>>
     ELSE Finish("failed")
  /\ UNCHANGED <<sw, startup, warned, rejected>>

\* The switch restarts from its saved configuration.
PowerLoss ==
  /\ pc = "idle" /\ faults > 0 /\ running # startup
  /\ faults' = faults - 1 /\ running' = startup
  /\ UNCHANGED <<sw, startup, kind, pc, cur, batches, sent, tests, passed, outcome, warned, clean,
                 rejected>>

Step ==
  \/ Connect \/ ParseAndDiff \/ SendBatch \/ Verify \/ Results \/ RunTest \/ Validated
  \/ rollback_configuration \/ save_configuration \/ PoeStep

Failure ==
  \/ ReadFails \/ BatchBreaks \/ VerifyFails \/ ValidationBreaks \/ RollbackFails \/ SaveFails
  \/ PoeStepFails \/ PowerLoss

Next == (\E k \in Kinds : Start(k)) \/ Step \/ Failure

Spec == Init /\ [][Next]_vars /\ WF_vars(Step)
(***************************************************************************)
(* What can be wanted so that the commands of the vendor get there from    *)
(* the switch as it was found, by the limits the generators have today:    *)
(*   - Aruba: no mirrors (a source is only marked when its port is         *)
(*     configured anyway), not the trap 'all', PoE only on a port with it; *)
(*   - FortiSwitch: no management VLAN, port and VLAN descriptions, mirror *)
(*     directions, receivers and traps are added to and never taken away,  *)
(*     a port is not reset, MAC notification is not set;                   *)
(*   - Cisco: never, its parser finds nothing.                             *)
(***************************************************************************)
Untouched(dev) == \A p \in DOMAIN dev.port : dev.port[p].monitor = {}

ArubaCan ==
  /\ sw.cfg.port_mirrors = <<>> /\ sw.dev.mirrors = <<>> /\ Untouched(sw.dev)
  /\ \A s \in sw.cfg.snmp : "all" \notin s.enabled_traps
  /\ \A p \in DOMAIN sw.cfg.ports :
       sw.cfg.ports[p].poe_enabled => port_supports_poe(sw.cfg.model, p)

FortiCan ==
  /\ sw.cfg.port_mirrors = <<>> /\ sw.dev.mirrors = <<>>
  /\ sw.cfg.management_vlan = 0 /\ ~ sw.enforce
  /\ \A v \in DOMAIN sw.cfg.vlans :
       sw.cfg.vlans[v].ip_config = "none" => v \notin DOMAIN sw.dev.svi
  /\ \A v \in DOMAIN sw.dev.svi \cap DOMAIN sw.cfg.vlans :
       sw.dev.svi[v].description # NoText => sw.cfg.vlans[v].description # NoText
  /\ \A p \in DOMAIN sw.cfg.ports :
       /\ ~ sw.cfg.ports[p].mac_notify
       /\ sw.cfg.ports[p].description = NoText => sw.dev.port[p].description = NoText
  /\ \A s \in sw.cfg.snmp : s.trap_receivers = <<>> /\ s.enabled_traps = {}
  /\ \A s \in sw.cfg.snmp : FortiOS!check_snmp_limits(s)
  /\ \A i \in DOMAIN sw.dev.communities :
       sw.dev.communities[i].hosts = <<>> /\ sw.dev.communities[i].events = {}

Expressible == \/ Brand = "Aruba" /\ ArubaCan
               \/ Brand = "Fortiswitch" /\ FortiCan

\* Both parsers give the tagged VLANs in ascending order, the list that is wanted
\* keeps the order and the duplicates of the file, and the two are compared as
\* lists: any other list is a difference for ever (CleanApplyConverges).
TaggedAreAscending ==
  \A p \in DOMAIN sw.cfg.ports :
    LET list == tagged_without_native(sw.cfg.ports[p])
    IN  list = Sorted(ToSet(list))

(***************************************************************************)
(* What the switch really has, without the help of a parser.               *)
(***************************************************************************)
HasVlans(dev, cfg) ==
  /\ DOMAIN dev.vlans \ {1} = DOMAIN cfg.vlans \ {1}
  /\ \A v \in DOMAIN cfg.vlans :
       CASE Brand = "Aruba" -> dev.vlans[v].name = cfg.vlans[v].name
                               /\ dev.vlans[v].ip_config = cfg.vlans[v].ip_config
         [] OTHER -> Or(dev.svi, v, NewSvi).ip_config = cfg.vlans[v].ip_config

\* Of an apply that broke between the two traps of MAC notification the parser
\* sees one and takes it for both.
HasPort(dev, p, port) ==
  /\ dev.untagged[p] = port.vlan
  /\ dev.tagged[p] \ {port.vlan} = ToSet(port.tagged_vlans) \ {port.vlan}
  /\ dev.port[p].description = port.description
  /\ dev.port[p].enabled = port.enabled
  /\ dev.port[p].poe_enabled = port.poe_enabled \/ ~ supports_poe(sw.cfg.model)
  /\ Brand = "Aruba" => (dev.port[p].mac_traps # {} <=> port.mac_notify)

HasCommunities(dev, cfg) ==
  LET wanted == UNION {DOMAIN s.communities : s \in effective_snmp(cfg.snmp)}
  IN  IF Brand = "Aruba" THEN DOMAIN dev.communities = wanted
      ELSE {dev.communities[i].name : i \in FortiOS!named(dev)} = wanted

Configured(dev, cfg) ==
  /\ HasVlans(dev, cfg) /\ HasCommunities(dev, cfg)
  /\ \A p \in DOMAIN cfg.ports : HasPort(dev, p, cfg.ports[p])

(***************************************************************************)
(* Properties.                                                             *)
(***************************************************************************)

(***************************************************************************)
(* An apply that nothing disturbs gets where the configuration wants it,   *)
(* whatever earlier applies that broke half way and power losses have left *)
(* behind: the convergence check (aruba.rs 1961, fortiswitch.rs 1647)      *)
(* finds no difference, so the next apply has nothing to do.  It does when *)
(* the tagged VLANs of every port are listed in ascending order, and only  *)
(* then: the lists are compared in order (diff/mod.rs 264), so any other   *)
(* port differs after every apply and its commands are sent again by the   *)
(* next, whatever README.md says ("only applies necessary changes").       *)
(***************************************************************************)
CleanApplyConverges ==
  pc = "results" /\ sent /\ clean /\ Expressible => (has_changes(Diff(cur)) <=> ~ TaggedAreAscending)

(***************************************************************************)
(* "No changes needed - switch already in desired state" (main.rs 383): an *)
(* apply that sends nothing has found a switch that really is configured,  *)
(* as far as the device and not the parser can tell.                       *)
(***************************************************************************)
NothingToDoIsTrue ==
  pc = "results" /\ ~ sent /\ Expressible => Configured(running, sw.cfg)

(***************************************************************************)
(* On an Aruba switch VLANs go before others come and ports move last, and *)
(* a broken apply never leaves a port in a VLAN that does not exist.       *)
(***************************************************************************)
PortsStayInKnownVlans ==
  Brand = "Aruba" =>
    \A p \in DOMAIN running.port : running.tagged[p] \cup {running.untagged[p]} \subseteq DOMAIN running.vlans

\* Ports that the configuration says nothing about.
Unmanaged(p) ==
  /\ p \notin DOMAIN sw.cfg.ports \cup mirror_destinations(sw.cfg)
  /\ ({running.untagged[p]} \cup running.tagged[p]) \subseteq DOMAIN sw.cfg.vlans \cup {1}

(***************************************************************************)
(* Without enforce_port_config an apply leaves alone every port that the   *)
(* configuration does not name, unless it is in a VLAN that goes           *)
(* (diff_ports).                                                           *)
(***************************************************************************)
UnmanagedPortsAreKept ==
  [][pc = "send" /\ kind \in Applies /\ ~ sw.enforce =>
       \A p \in DOMAIN running.port :
         Unmanaged(p) => /\ running'.port[p] = running.port[p]
                         /\ running'.untagged[p] = running.untagged[p]
                         /\ running'.tagged[p] = running.tagged[p]]_vars

(***************************************************************************)
(* A FortiSwitch holds three communities.  The entries are numbers, and an *)
(* apply that swaps communities deletes before it adds, at numbers that    *)
(* are free: the limit is never exceeded, and a community that is wanted   *)
(* as it is never loses its entry to another (apply_snmp_diff).            *)
(***************************************************************************)
CommunitiesKeepTheirEntries ==
  [][Brand = "Fortiswitch" /\ kind \in Applies /\ pc = "send" /\ running # running' =>
       /\ Cardinality(FortiOS!named(running')) <= FortiOS!MAX_SNMP_COMMUNITIES
       /\ \A i \in FortiOS!named(running) :
            running.communities[i].name \in UNION {DOMAIN s.communities : s \in effective_snmp(sw.cfg.snmp)}
              => i \in DOMAIN running'.communities
                 /\ running'.communities[i].name = running.communities[i].name]_vars

(***************************************************************************)
(* A port that a PoE reset leaves without power is never reported as done: *)
(* the caller sees "failed" (poe_reset_impl).                              *)
(***************************************************************************)
DonePortHasPower ==
  [][kind = "poe_reset" /\ outcome' = "ok" => running'.port[PoePort].poe_enabled]_vars

(***************************************************************************)
(* Every operation ends, with an outcome: no retry or test goes on for     *)
(* ever (fairness: each await of the task returns or fails).               *)
(***************************************************************************)
OperationEnds == (pc # "idle") ~> (pc = "idle" /\ outcome # "none")

(***************************************************************************)
(* "ensure switch configurations are safe before being persisted"          *)
(* (validation-design.md): no one-off run saves a configuration that       *)
(* failed its tests, in this run or an earlier one.  (An apply over the    *)
(* API runs no tests and saves it.)                                        *)
(***************************************************************************)
FailedValidationIsNotSaved ==
  [][kind = "once" /\ startup' # startup => startup' \notin rejected]_vars

(***************************************************************************)
(* "Idempotent - Safe to run multiple times" (README.md): once the         *)
(* management VLAN of a FortiSwitch lets ssh in, an apply of the same      *)
(* configuration does not lock it out.                                     *)
(***************************************************************************)
ManagementAccessStays ==
  [][LET v == sw.cfg.management_vlan
     IN  v \in DOMAIN running.svi /\ "ssh" \in running.svi[v].allowaccess
           => "ssh" \in running'.svi[v].allowaccess]_vars
=============================================================================
