----------------------------- MODULE OverlayFiles -----------------------------
(***************************************************************************)
(* The files, the configuration in memory, and the editor that writes      *)
(* overlay files: the drafts of the web UI (state.rs, edit.rs, save.rs)    *)
(* and the overlay requests of the service (handlers.rs).                  *)
(*                                                                         *)
(* A tab is a browser tab or another client.  Every edit takes a copy of   *)
(* the draft, may ask the service for the path of the main file, and       *)
(* stores the copy as the draft; a save is checked against the files,      *)
(* written, and drops the draft when its answer arrives.  Others change    *)
(* the files at any time, and a load puts them into memory.                *)
(***************************************************************************)
EXTENDS ConfigMerge

CONSTANTS
  Tabs,
  Mains,       \* what the main file may hold
  HandFiles,   \* what somebody may put into the folder
  Secrets,     \* what the secret files and credentials may hold
  Edits,       \* the forms that are sent: [op, ...]
  SaveForms,   \* [filename, priority]
  Bodies,      \* the save requests of other clients: [filename, merge_priority, switches]
  MaxChanges,  \* bound: changes of the files that are not saves
  MaxRequests  \* bound: requests

\* The lists of a file are lists, its priority is a number, and a switch that is
\* sent has all its fields.
ASSUME FilesAreTyped ==
  /\ \A file \in Mains \cup HandFiles : IsFile(file)
  /\ \A body \in Bodies : body.merge_priority \in Nat /\ AreRows(body.switches)
  /\ \A form \in SaveForms : form.priority \in Nat
  /\ \A form \in SaveForms \cup Bodies : form.filename \in Range(FolderFiles)

\* The forms of the editor.
EditorForms ==
  {"update_vlan", "add_vlan", "remove_vlan", "add_port", "update_ports", "remove_port", "add_mirror",
   "update_mirror", "remove_mirror", "add_snmp_community", "remove_snmp_community",
   "add_snmp_trap_receiver", "remove_snmp_trap_receiver", "update_snmp_traps"}

\* A port is a number, in a file one of a list of segments, and its tagged VLANs
\* are a list.
ASSUME PortsAreTyped ==
  /\ \A file \in Mains \cup HandFiles \cup Bodies : ListPorts(file.switches)
  /\ \A e \in Edits :
       /\ e.op \in EditorForms
       /\ e.op = "add_port" => e.port_id \in Nat /\ IsList(e.tagged_vlans)

VARIABLES
  main, folder, secrets,  \* what is on the disk
  memory,                 \* what load_multi gave last
  drafts,                 \* the drafts of the UI, by switch
  tab,                    \* what each tab has under way
  page,                   \* the ports page each tab shows
  changes, requests,      \* bounds
  loaded,                 \* history: the files memory was loaded from
  accepted                \* history: the last save that nothing overtook

disk == <<main, folder, secrets>>
vars == <<disk, memory, drafts, tab, page, changes, requests, loaded, accepted>>

Idle == [phase |-> "idle"]

(***************************************************************************)
(* What the service answers.                                               *)
(***************************************************************************)
\* The JSON of a switch: a VLAN name that was not resolved is not part of it,
\* nor is the text behind a reference.
SerializedPort(p) == [p EXCEPT !.vlan_name = {}, !.tagged_vlan_refs = <<>>]

SerializedCommunity(c) == IF has_reference(c) THEN [c EXCEPT !.name = ""] ELSE c

Serialized(switch) ==
  [switch EXCEPT
     !.ports = [n \in DOMAIN @ |-> SerializedPort(@[n])],
     !.snmp = {[s EXCEPT !.communities = [i \in DOMAIN @ |-> SerializedCommunity(@[i])],
                         !.reads = {[r EXCEPT !.community = {SerializedCommunity(c) : c \in @}]
                                    : r \in @}] : s \in @}]

\* {} when nobody knows the switch.
get_merge_preview(id) ==
  IF id \in DOMAIN memory.failures
  THEN LET f == memory.failures[id]
       IN  {[config |-> Serialized(f.preview),
             vlan_sources |-> f.vlan_sources, port_sources |-> f.port_sources]}
  ELSE IF id \in DOMAIN memory.switches
  THEN {[config |-> Serialized(memory.switches[id]), vlan_sources |-> <<>>,
         port_sources |-> <<>>]}
  ELSE {}

file_declares_switch(file, id) == file.parses /\ \E s \in Range(file.switches) : s.id = id

\* The VLANs all files but one declare for a switch.
known_external_vlan_ids(id, excluding) ==
  LET configs == load_with_metadata(MainFile, "main", main)
                   \cup UNION scan_config_folder(folder)
  IN  {v.id : v \in UNION {UNION {Range(s.vlans) : s \in {t \in Range(c.switches) : t.id = id}}
                           : c \in {d \in configs : d.source_file # excluding}}}

HasNoDuplicates(rows, field) ==
  \A i, j \in DOMAIN rows : rows[i][field] = rows[j][field] => i = j

\* Mutant of validate_overlay_config: an overlay without VLANs is trusted.
validate_overlay_trusting(row, external) ==
  /\ CanExpand(row)
  /\ \/ row.vlans = <<>>
     \/ \A p \in Range(expand_port_ranges(row).ports) :
          {p.vlan} \cup Range(p.tagged_vlans) \subseteq {v.id : v \in Range(row.vlans)} \cup external

\* TRUE when the row may be saved: its own names and references are in order,
\* as far as this file and the VLANs of the others tell.
validate_overlay_config(row, external) ==
  LET switch == expand_port_ranges(row)
      named == resolve_vlan_names([switch EXCEPT !.vlans = Keyed(@, "id"),
                                                 !.ports = Keyed(@, "port_id")], TRUE)
      valid == {v.id : v \in Range(row.vlans)} \cup external
                 \cup (IF row.model = {} THEN {1} ELSE implicit_vlans(The(row.model)))
  IN  /\ check_snmp_secret_sources(row) /\ check_vendor_support(row)
      /\ CanExpand(row)
      /\ HasNoDuplicates(row.vlans, "id") /\ \A v \in Range(row.vlans) : v.id \in 1..4094
      /\ HasNoDuplicates(switch.ports, "port_id")
      /\ named.ok
      /\ \A p \in Range(named.switch.ports) : {p.vlan} \cup Range(p.tagged_vlans) \subseteq valid
      /\ \A m \in Range(switch.port_mirrors) : m.destination_port \notin DOMAIN named.switch.ports

\* A single port as a file has it.
Segment(n) == <<[first |-> n, last |-> n, mixed |-> FALSE]>>

written_ports(row) ==
  LET vlans == Keyed(row.vlans, "id")
      switch == [expand_port_ranges(row) EXCEPT !.vlans = vlans, !.ports = Keyed(@, "port_id")]
      ports == resolve_vlan_names(switch, TRUE).switch.ports
      ref(v) == IF v \in DOMAIN vlans THEN [name |-> vlans[v].name] ELSE [id |-> v]
      written(p) == [port_id |-> Segment(p.port_id), vlan |-> ref(p.vlan),
                     tagged_vlans |-> [i \in DOMAIN p.tagged_vlans |-> ref(p.tagged_vlans[i])],
                     speed_duplex |-> p.speed_duplex]
  IN  InOrder([n \in DOMAIN ports |-> written(ports[n])])

written_mirrors(row) ==
  [i \in DOMAIN row.port_mirrors |->
     [row.port_mirrors[i] EXCEPT !.source_ports =
        LET ids == parse_port_id(@) IN FlattenSeq([k \in DOMAIN ids |-> Segment(ids[k])])]]

written_snmp(row) == Serialized([row EXCEPT !.ports = <<>>]).snmp

\* The row as it is written: expanded, with ids, and these as names where the
\* row itself has the VLAN.
prefer_vlan_names_in_yaml(row) ==
  [row EXCEPT !.ports = written_ports(row), !.port_mirrors = written_mirrors(row),
              !.snmp = written_snmp(row)]

(***************************************************************************)
(* The forms of the editor: what each makes of the draft's configuration.  *)
(***************************************************************************)
\* known: /api/status told the path of the main file.
is_main_config_source(sources, key, known) ==
  known /\ key \in DOMAIN sources /\ sources[key] = MainFile

\* The picker shows no static address; what it sends instead is none.
parse_ip_config(shown) == IF shown = "dhcp" THEN "dhcp" ELSE "none"

update_vlan(config, e) ==
  IF e.id \notin DOMAIN config.vlans THEN config
  ELSE [config EXCEPT !.vlans[e.id].name = e.name,
                      !.vlans[e.id].ip_config = parse_ip_config(@)]

add_vlan(config, e) ==
  IF e.id \in DOMAIN config.vlans THEN config
  ELSE [config EXCEPT !.vlans = Put(@, e.id, [id |-> e.id, name |-> e.name, ip_config |-> "none"])]

ports_referencing_vlan(config, id) ==
  {n \in DOMAIN config.ports :
     id \in {config.ports[n].vlan} \cup Range(config.ports[n].tagged_vlans)}

Without(f, key) == [k \in DOMAIN f \ {key} |-> f[k]]

remove_vlan(config, e) == [config EXCEPT !.vlans = Without(@, e.id)]

\* A port as the form sends it: only VLANs of the list can be chosen, in its order,
\* and the first is chosen when the port's own is not there; of the speeds the page
\* recognises auto alone.
port_to_editable(p, vlans) ==
  [p EXCEPT !.vlan = IF @ \in DOMAIN vlans \/ DOMAIN vlans = {} THEN @
                     ELSE CHOOSE v \in DOMAIN vlans : \A w \in DOMAIN vlans : v <= w,
            !.tagged_vlans = Sorted(Range(@) \cap DOMAIN vlans),
            !.speed_duplex = "auto"]

edit_ports(config) == [n \in DOMAIN config.ports |-> port_to_editable(config.ports[n], config.vlans)]

\* Every row of the page, one of them with a new VLAN; no VLAN at all is VLAN 1.
parse_ports_bulk(shown, e) ==
  [n \in DOMAIN shown |-> IF n = e.port_id THEN [shown[n] EXCEPT !.vlan = e.vlan] ELSE shown[n]]

form_to_port(e) ==
  [port_id |-> e.port_id, vlan |-> e.vlan, vlan_name |-> {}, tagged_vlans |-> e.tagged_vlans,
   tagged_vlan_refs |-> <<>>, speed_duplex |-> "auto"]

add_port(config, e) ==
  IF e.port_id \in DOMAIN config.ports THEN config
  ELSE [config EXCEPT !.ports = Put(@, e.port_id, form_to_port(e))]

update_ports(config, shown, e) == [config EXCEPT !.ports = parse_ports_bulk(shown, e)]

remove_port(config, e) == [config EXCEPT !.ports = Without(@, e.port_id)]

form_to_mirror(e) ==
  [session_id |-> e.session_id, source_ports |-> e.source_ports,
   destination_port |-> e.destination_port]

add_mirror(config, e) ==
  IF e.session_id \in DOMAIN config.port_mirrors THEN config
  ELSE [config EXCEPT !.port_mirrors = Put(@, e.session_id, form_to_mirror(e))]

update_mirror(config, e) ==
  IF e.session_id \notin DOMAIN config.port_mirrors THEN config
  ELSE [config EXCEPT !.port_mirrors[e.session_id] = form_to_mirror(e)]

remove_mirror(config, e) == [config EXCEPT !.port_mirrors = Without(@, e.session_id)]

NewSnmp == [communities |-> <<>>, trap_receivers |-> <<>>, enabled_traps |-> {}, reads |-> {}]

SnmpOf(config) == IF config.snmp = {} THEN NewSnmp ELSE The(config.snmp)

add_snmp_community(config, e) ==
  LET known == \E c \in Range(SnmpOf(config).communities) : c.name = e.name
      new == [name |-> e.name, name_file |-> {}, name_credential |-> {}, allowed_hosts |-> {}]
  IN  [config EXCEPT !.snmp =
         {IF known THEN SnmpOf(config)
          ELSE [SnmpOf(config) EXCEPT !.communities = Append(@, new)]}]

\* By name: a community given by reference has none in the draft.
remove_snmp_community(config, e) ==
  [config EXCEPT !.snmp =
     {[s EXCEPT !.communities = SelectSeq(@, LAMBDA c : c.name # e.name)] : s \in @}]

add_snmp_trap_receiver(config, e) ==
  [config EXCEPT !.snmp =
     {[SnmpOf(config) EXCEPT !.trap_receivers = Append(@, [host |-> e.host])]}]

remove_snmp_trap_receiver(config, e) ==
  [config EXCEPT !.snmp =
     {[s EXCEPT !.trap_receivers = SelectSeq(@, LAMBDA r : r.host # e.host)] : s \in @}]

\* The page has no box for "all".
update_snmp_traps(config, e) ==
  [config EXCEPT !.snmp = {[SnmpOf(config) EXCEPT !.enabled_traps = e.traps \ {"all"}]}]

Edited(config, shown, e) ==
  CASE e.op = "update_vlan" -> update_vlan(config, e)
    [] e.op = "add_vlan" -> add_vlan(config, e)
    [] e.op = "remove_vlan" -> remove_vlan(config, e)
    [] e.op = "add_port" -> add_port(config, e)
    [] e.op = "update_ports" -> update_ports(config, shown, e)
    [] e.op = "remove_port" -> remove_port(config, e)
    [] e.op = "add_mirror" -> add_mirror(config, e)
    [] e.op = "update_mirror" -> update_mirror(config, e)
    [] e.op = "remove_mirror" -> remove_mirror(config, e)
    [] e.op = "add_snmp_community" -> add_snmp_community(config, e)
    [] e.op = "remove_snmp_community" -> remove_snmp_community(config, e)
    [] e.op = "add_snmp_trap_receiver" -> add_snmp_trap_receiver(config, e)
    [] e.op = "remove_snmp_trap_receiver" -> remove_snmp_trap_receiver(config, e)
    [] e.op = "update_snmp_traps" -> update_snmp_traps(config, e)

\* The rows of the main file are not for the editor, and a VLAN that a port
\* uses stays.
Permitted(draft, known, e) ==
  /\ e.op \in {"update_vlan", "remove_vlan"} =>
       ~ is_main_config_source(draft.vlan_sources, e.id, known)
  /\ e.op = "remove_vlan" => ports_referencing_vlan(draft.edited, e.id) = {}

(***************************************************************************)
(* The body of a save.                                                     *)
(***************************************************************************)
exclude_main_config_rows(rows, sources, known) ==
  [k \in {i \in DOMAIN rows : ~ is_main_config_source(sources, i, known)} |-> rows[k]]

sent_port(p) ==
  [port_id |-> Segment(p.port_id), vlan |-> [id |-> p.vlan],
   tagged_vlans |-> [i \in DOMAIN p.tagged_vlans |-> [id |-> p.tagged_vlans[i]]],
   speed_duplex |-> p.speed_duplex]

sent_mirror(m) ==
  [m EXCEPT !.source_ports = FlattenSeq([i \in DOMAIN @ |-> Segment(@[i])]),
            !.destination_port = Segment(@)]

\* Neither validation nor settings: the file gets none and the defaults.
sent_row(id, draft, known) ==
  LET config == draft.edited
      ports == exclude_main_config_rows(config.ports, draft.port_sources, known)
  IN  [id |-> id, hostname |-> config.hostname, model |-> config.model,
       management_ip |-> config.management_ip, credentials |-> config.credentials,
       vlans |-> InOrder(exclude_main_config_rows(config.vlans, draft.vlan_sources, known)),
       ports |-> InOrder([n \in DOMAIN ports |-> sent_port(ports[n])]),
       port_mirrors |-> InOrder([k \in DOMAIN config.port_mirrors |->
                                   sent_mirror(config.port_mirrors[k])]),
       snmp |-> config.snmp, validation |-> {}, settings |-> "default"]

build_save_body(id, form, draft, known) ==
  [filename |-> form.filename, merge_priority |-> form.priority,
   switches |-> <<sent_row(id, draft, known)>>]

FileFrom(body) ==
  [parses |-> TRUE, merge_priority |-> {body.merge_priority},
   switches |-> [i \in DOMAIN body.switches |-> prefer_vlan_names_in_yaml(body.switches[i])]]

(***************************************************************************)
(* The steps.                                                              *)
(***************************************************************************)
Files(m, f, s) == [main |-> m, folder |-> f, secrets |-> s]

NoSave == [files |-> {}, ports |-> <<>>, switch |-> "", file |-> ""]

\* The service has just started, with every switch in order.
Init ==
  /\ main \in Mains /\ folder = <<>> /\ secrets \in Secrets
  /\ memory = load_multi(main, folder, secrets) /\ memory.ok /\ DOMAIN memory.failures = {}
  /\ loaded = Files(main, folder, secrets)
  /\ drafts = <<>> /\ tab = [t \in Tabs |-> Idle] /\ page = [t \in Tabs |-> <<>>]
  /\ changes = 0 /\ requests = 0 /\ accepted = NoSave

\* A request leaves the page it comes from.
Request(t) ==
  /\ tab[t] = Idle /\ requests < MaxRequests
  /\ requests' = requests + 1
  /\ page' = [page EXCEPT ![t] = <<>>]

Unmoved == UNCHANGED <<disk, memory, loaded, accepted, changes>>

\* Somebody edits a file, puts one into the folder or replaces a secret.
FilesChange ==
  /\ changes < MaxChanges /\ changes' = changes + 1
  /\ \/ main' \in Mains \ {main} /\ UNCHANGED <<folder, secrets>>
     \/ \E n \in Range(FolderFiles), f \in HandFiles :
          folder' = Put(folder, n, f) /\ UNCHANGED <<main, secrets>>
     \/ secrets' \in Secrets \ {secrets} /\ UNCHANGED <<main, folder>>
  /\ UNCHANGED <<memory, loaded, accepted, drafts, tab, page, requests>>

\* A reload, by request or by the watcher: a refused one leaves memory as it is.
Reload ==
  LET result == load_multi(main, folder, secrets)
  IN  /\ result.ok /\ loaded # Files(main, folder, secrets)
      /\ memory' = result /\ loaded' = Files(main, folder, secrets)
      /\ UNCHANGED <<disk, drafts, tab, page, changes, requests, accepted>>

delete_overlay(t, id, name) ==
  /\ Request(t)
  /\ name \in DOMAIN folder /\ file_declares_switch(folder[name], id)
  /\ folder' = Without(folder, name)
  /\ UNCHANGED <<main, secrets, memory, loaded, accepted, drafts, tab, changes>>

\* The preview is fetched, and then becomes the draft, whoever made one meanwhile.
start_draft(t, id) ==
  /\ Request(t)
  /\ \E preview \in get_merge_preview(id) :
       tab' = [tab EXCEPT ![t] = [phase |-> "start", id |-> id, preview |-> preview]]
  /\ UNCHANGED drafts /\ Unmoved

create_with_sources(t) ==
  /\ tab[t].phase = "start"
  /\ LET p == tab[t].preview
     IN  drafts' = Put(drafts, tab[t].id, [edited |-> p.config, vlan_sources |-> p.vlan_sources,
                                           port_sources |-> p.port_sources])
  /\ tab' = [tab EXCEPT ![t] = Idle]
  /\ UNCHANGED <<page, requests>> /\ Unmoved

discard_draft(t, id) ==
  /\ Request(t)
  /\ id \in DOMAIN drafts /\ drafts' = Without(drafts, id)
  /\ UNCHANGED tab /\ Unmoved

ShowPorts(t, id) ==
  /\ tab[t] = Idle /\ id \in DOMAIN drafts
  /\ page' = [page EXCEPT ![t] = edit_ports(drafts[id].edited)]
  /\ UNCHANGED <<drafts, tab, requests>> /\ Unmoved

\* A form arrives: the handler takes a copy of the draft ...
Take(t, id, e) ==
  /\ Request(t)
  /\ id \in DOMAIN drafts /\ (e.op = "update_ports" => page[t] # <<>>)
  /\ tab' = [tab EXCEPT ![t] = [phase |-> "edit", id |-> id, draft |-> drafts[id], form |-> e,
                                shown |-> IF e.op = "update_ports" THEN page[t] ELSE <<>>]]
  /\ UNCHANGED drafts /\ Unmoved

\* ... and stores it, changed, if there still is a draft.
Store(t, known) ==
  /\ tab[t].phase = "edit"
  /\ LET id == tab[t].id
         new == Edited(tab[t].draft.edited, tab[t].shown, tab[t].form)
     IN  drafts' = IF id \in DOMAIN drafts /\ Permitted(tab[t].draft, known, tab[t].form)
                   THEN [drafts EXCEPT ![id].edited = new] ELSE drafts
  /\ tab' = [tab EXCEPT ![t] = Idle]
  /\ UNCHANGED <<page, requests>> /\ Unmoved

TakeForSave(t, id, form) ==
  /\ Request(t)
  /\ id \in DOMAIN drafts
  /\ tab' = [tab EXCEPT ![t] = [phase |-> "save", id |-> id, draft |-> drafts[id], form |-> form]]
  /\ UNCHANGED drafts /\ Unmoved

Post(t, known) ==
  /\ tab[t].phase = "save"
  /\ tab' = [tab EXCEPT ![t] =
       [phase |-> "posted", id |-> tab[t].id,
        body |-> build_save_body(tab[t].id, tab[t].form, tab[t].draft, known)]]
  /\ UNCHANGED <<drafts, page, requests>> /\ Unmoved

\* Another client than the UI.
PostBody(t, body) ==
  /\ Request(t)
  /\ tab' = [tab EXCEPT ![t] = [phase |-> "posted", id |-> "", body |-> body]]
  /\ UNCHANGED drafts /\ Unmoved

\* save_overlay checks the body against the files as they are ...
SaveIsValid(body) ==
  /\ body.merge_priority \in 11..9999
  /\ \A row \in Range(body.switches) :
       validate_overlay_config(row, known_external_vlan_ids(row.id, body.filename))

CheckSave(t) ==
  /\ tab[t].phase = "posted"
  /\ tab' = [tab EXCEPT ![t] =
       IF SaveIsValid(tab[t].body)
       THEN [phase |-> "checked", id |-> tab[t].id, body |-> tab[t].body,
             against |-> <<main, folder>>]
       ELSE Idle]
  /\ UNCHANGED <<drafts, page, requests>> /\ Unmoved

\* ... and writes the file, over whatever has its name.
WriteSave(t) ==
  /\ tab[t].phase = "checked"
  /\ LET body == tab[t].body
         row == body.switches[1]
     IN  /\ folder' = Put(folder, body.filename, FileFrom(body))
         /\ accepted' = IF tab[t].against # <<main, folder>> \/ body.switches = <<>> THEN NoSave
                        ELSE [files |-> {<<main, folder'>>}, file |-> body.filename,
                              switch |-> row.id, ports |-> expand_port_ranges(row).ports]
  /\ tab' = [tab EXCEPT ![t] = [phase |-> "written", id |-> tab[t].id, body |-> tab[t].body]]
  /\ UNCHANGED <<main, secrets, memory, loaded, drafts, page, changes, requests>>

\* The answer drops the draft, whatever it holds by now; a lost one keeps it.
Answer(t, lost) ==
  /\ tab[t].phase = "written"
  /\ drafts' = IF lost THEN drafts ELSE Without(drafts, tab[t].id)
  /\ tab' = [tab EXCEPT ![t] = Idle]
  /\ UNCHANGED <<page, requests>> /\ Unmoved

Ids == {s.id : s \in UNION {Range(m.switches) : m \in Mains}}

Next ==
  \/ FilesChange \/ Reload
  \/ \E t \in Tabs :
       \/ create_with_sources(t) \/ CheckSave(t) \/ WriteSave(t)
       \/ \E known \in BOOLEAN : Store(t, known)
       \/ \E known \in BOOLEAN : Post(t, known)
       \/ \E lost \in BOOLEAN : Answer(t, lost)
       \/ \E body \in Bodies : PostBody(t, body)
       \/ \E id \in Ids :
            \/ start_draft(t, id) \/ discard_draft(t, id) \/ ShowPorts(t, id)
            \/ \E name \in Range(FolderFiles) : delete_overlay(t, id, name)
            \/ \E e \in Edits : Take(t, id, e)
            \/ \E form \in SaveForms : TakeForSave(t, id, form)

Spec == Init /\ [][Next]_vars

(***************************************************************************)
(* Properties.                                                             *)
(***************************************************************************)
\* What memory holds of a switch can be applied: every VLAN a port is in
\* exists, no name is left to look up or stands for two VLANs, and the ports
\* mirrors send to are not configured as well, whichever files it was merged from.
LoadedIsConsistent ==
  \A id \in DOMAIN memory.switches :
    LET s == memory.switches[id]
    IN  /\ s.vlans # <<>>
        /\ \A p \in Range(s.ports) :
             /\ p.vlan_name = {} /\ p.tagged_vlan_refs = <<>>
             /\ {p.vlan} \cup Range(p.tagged_vlans) \subseteq DOMAIN s.vlans \cup {1}
        /\ \A v, w \in DOMAIN s.vlans : s.vlans[v].name = s.vlans[w].name => v = w
        /\ \A m \in Range(s.port_mirrors) : m.destination_port \notin DOMAIN s.ports

\* The priority of a file on the disk, and whether a file outranks another:
\* a lower number does; the main file and then the alphabet break ties.
PriorityIn(files, name) ==
  LET f == IF name = MainFile THEN files.main ELSE files.folder[name]
  IN  IF f.merge_priority # {} THEN The(f.merge_priority) ELSE IF name = MainFile THEN 50 ELSE 100

Outranks(files, a, b) ==
  \/ PriorityIn(files, a) < PriorityIn(files, b)
  \/ PriorityIn(files, a) = PriorityIn(files, b) /\ place(a) < place(b)

RowsOf(files, name, id) ==
  LET f == IF name = MainFile THEN files.main ELSE files.folder[name]
  IN  UNION {Range(s.vlans) : s \in {t \in Range(f.switches) : t.id = id}}

\* Every VLAN of a switch in memory is the row of the best file that has its
\* number, with the name that file gives it: no file with a worse priority
\* replaces it, and none hides it.
RowsComeFromTheBestFile ==
  \A id \in DOMAIN memory.switches : \A v \in DOMAIN memory.switches[id].vlans :
    \E a \in {MainFile} \cup DOMAIN loaded.folder :
      /\ memory.switches[id].vlans[v] \in RowsOf(loaded, a, id)
      /\ \A b \in {MainFile} \cup DOMAIN loaded.folder :
           Outranks(loaded, b, a) => \A r \in RowsOf(loaded, b, id) : r.id # v

Declaring(files, id) ==
  {<<n, IF n = MainFile THEN files.main ELSE files.folder[n]>> :
     n \in {m \in {MainFile} \cup DOMAIN files.folder :
              file_declares_switch(IF m = MainFile THEN files.main ELSE files.folder[m], id)}}

\* A load changes a switch in memory only if a file that declares it, or a
\* secret, has changed: what is wrong with another switch does not reach it.
OtherSwitchesUntouched ==
  [][\A id \in Ids :
       /\ loaded'.secrets = loaded.secrets
       /\ Declaring(loaded', id) = Declaring(loaded, id)
       => (id \in DOMAIN memory.switches) = (id \in DOMAIN memory'.switches)
          /\ (id \in DOMAIN memory.switches => memory'.switches[id] = memory.switches[id])]_vars

\* A list with each of its members where it comes first.
Once(list) == Firsts([i \in DOMAIN list |-> {list[i]}])

\* A port that an accepted save puts into VLANs is in these VLANs when the
\* files are loaded as the save left them, if the port is taken from the saved
\* file and its VLANs keep the names the save gave them: also in the order of the
\* save, which the diff looks at, with those that it repeats once or as they were.
SavedPortsKeepTheirVlans ==
  LET id == accepted.switch
      name == accepted.file
      file == loaded.folder[name]
      sent(n) == FirstWith(accepted.ports, "port_id", n)
      rows == UNION {Range(s.vlans) : s \in {t \in Range(file.switches) : t.id = id}}
      best(n) == \A b \in ({MainFile} \cup DOMAIN loaded.folder) \ {name} :
                   Outranks(loaded, b, name) =>
                     LET f == IF b = MainFile THEN loaded.main ELSE loaded.folder[b]
                     IN  \A s \in Range(f.switches) : s.id = id =>
                           \A p \in Range(s.ports) : n \notin Range(parse_port_id(p.port_id))
  IN  /\ <<loaded.main, loaded.folder>> \in accepted.files
      /\ id \in DOMAIN memory.switches
      /\ \A v \in rows : memory.switches[id].vlans[v.id].name = v.name
      => \A n \in {p.port_id : p \in Range(accepted.ports)} :
           best(n) /\ sent(n).vlan_name = {} /\ sent(n).tagged_vlan_refs = <<>> =>
             /\ memory.switches[id].ports[n].vlan = sent(n).vlan
             /\ memory.switches[id].ports[n].tagged_vlans
                  \in {sent(n).tagged_vlans, Once(sent(n).tagged_vlans)}

\* save.rs:36: restating the identity of a switch in an overlay is harmless:
\* no file the UI has written makes the load of all files fail.
RestatedIdentityIsHarmless ==
  \A n \in DOMAIN folder :
    (n = accepted.file /\ load_multi(main, Without(folder, n), secrets).ok)
      => load_multi(main, folder, secrets).ok
=============================================================================
