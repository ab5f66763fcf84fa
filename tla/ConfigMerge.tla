----------------------------- MODULE ConfigMerge -----------------------------
(***************************************************************************)
(* From the files to the configuration the service works with (config.rs): *)
(* the main file and the files of the config folder are read, sorted by    *)
(* priority and merged switch by switch; every switch is checked by        *)
(* itself, and one that fails is left out with a reason and a preview.     *)
(*                                                                         *)
(* A file keeps its lists in their order (SwitchModels says how a merged   *)
(* list looks), and so does a port its tagged VLANs; an Option is a set of *)
(* at most one value; a port of a file is a sequence of segments such as   *)
(* 1-3, a port of a switch is a number; a reference to a VLAN is           *)
(* [id |-> n] or [name |-> s].                                             *)
(***************************************************************************)
EXTENDS SwitchModels, SequencesExt

CONSTANTS
  MainFile,      \* the path of the main file
  FolderFiles,   \* the names a file of the folder may have, in alphabetical order
  UnusableNames  \* VLAN names too long for a model, or with a range such as 8-10

ASSUME FilesAssumption ==
  /\ FolderFiles \in Seq(Range(FolderFiles)) /\ IsInjective(FolderFiles)
  /\ MainFile \notin Range(FolderFiles)

\* What a file may hold, as far as the program can rely on it.
RowFields == {"id", "hostname", "model", "management_ip", "credentials", "vlans", "ports",
              "port_mirrors", "snmp", "validation", "settings"}

IsRow(row) == DOMAIN row = RowFields /\ DOMAIN row.vlans \subseteq Nat

AreRows(rows) == DOMAIN rows \subseteq Nat /\ \A i \in DOMAIN rows : IsRow(rows[i])

\* A port_id of a file ("1,3-5") is read as a list of segments.
Segments == Seq([first : Nat, last : Nat, mixed : BOOLEAN])

IsList(l) == l \in Seq(Range(l))

ListPorts(rows) ==
  /\ IsList(rows)
  /\ \A row \in Range(rows) :
       /\ IsList(row.ports)
       /\ \A p \in Range(row.ports) : p.port_id \in Segments /\ IsList(p.tagged_vlans)

IsFile(file) ==
  AreRows(file.switches) /\ file.merge_priority \subseteq Nat /\ AtMostOne(file.merge_priority)

The(option) == CHOOSE x \in option : TRUE

\* The values of a function, in the order of its keys.
InOrder(f) == LET keys == Sorted(DOMAIN f) IN [i \in DOMAIN keys |-> f[keys[i]]]

\* The entries of a list that are in a set, in their order.
Among(list, S) == InOrder([i \in {j \in DOMAIN list : list[j] \in S} |-> list[i]])

\* The first row of a list with a key, and the list as a function from the keys.
FirstWith(rows, field, k) ==
  rows[CHOOSE i \in DOMAIN rows :
         rows[i][field] = k /\ \A j \in DOMAIN rows : j < i => rows[j][field] # k]

Keyed(rows, field) == [k \in {r[field] : r \in Range(rows)} |-> FirstWith(rows, field, k)]

(***************************************************************************)
(* Reading one file.                                                       *)
(***************************************************************************)
default_priority(kind) == IF kind = "main" THEN 50 ELSE 100

\* A segment is [first, last, mixed]: mixed says that its two ends do not have
\* the same prefix ("port1-gi5").
parse_port_id(segments) ==
  FlattenSeq([i \in DOMAIN segments |->
                [k \in 1..(segments[i].last + 1 - segments[i].first) |->
                   segments[i].first + k - 1]])

Parses(segments) ==
  \A i \in DOMAIN segments : segments[i].first <= segments[i].last /\ ~ segments[i].mixed

IsName(ref) == "name" \in DOMAIN ref

\* VLAN 1 stands in for a name until resolve_vlan_names; one name among the
\* tagged VLANs puts the whole list off.
DeserializedPort(row, n) ==
  LET refs == row.tagged_vlans
      later == \E r \in Range(refs) : IsName(r)
  IN  [port_id |-> n,
       vlan |-> IF IsName(row.vlan) THEN 1 ELSE row.vlan.id,
       vlan_name |-> IF IsName(row.vlan) THEN {row.vlan.name} ELSE {},
       tagged_vlans |-> IF later THEN <<>> ELSE [i \in DOMAIN refs |-> refs[i].id],
       tagged_vlan_refs |-> IF later THEN refs ELSE <<>>,
       speed_duplex |-> row.speed_duplex]

CanExpand(switch) ==
  /\ \A p \in Range(switch.ports) : Parses(p.port_id)
  /\ \A m \in Range(switch.port_mirrors) :
       /\ Parses(m.source_ports) /\ Parses(m.destination_port)
       /\ Len(parse_port_id(m.destination_port)) = 1

expand_port_ranges(switch) ==
  [switch EXCEPT
     !.ports = FlattenSeq(
        [i \in DOMAIN @ |-> LET ids == parse_port_id(@[i].port_id)
                            IN  [k \in DOMAIN ids |-> DeserializedPort(@[i], ids[k])]]),
     !.port_mirrors =
        [i \in DOMAIN @ |->
           [@[i] EXCEPT !.source_ports = parse_port_id(@),
                        !.destination_port = parse_port_id(@)[1]]]]

\* What the validator crate checks of an expanded switch.
Validates(switch) ==
  /\ switch.id # ""
  /\ \A v \in Range(switch.vlans) : v.id \in 1..4094
  /\ \A p \in Range(switch.ports) : p.vlan \in 1..4094

\* {} when the file is refused.
load_with_metadata(path, kind, file) ==
  LET priority == IF file.merge_priority = {} THEN default_priority(kind)
                  ELSE The(file.merge_priority)
      switches == [i \in DOMAIN file.switches |-> expand_port_ranges(file.switches[i])]
  IN  IF /\ file.parses
         /\ \A s \in Range(file.switches) : CanExpand(s)
         /\ \A s \in Range(switches) : Validates(s)
         /\ kind = "folder" => priority >= 11
      THEN {[source_file |-> path, merge_priority |-> priority, switches |-> switches]}
      ELSE {}

\* The files of the folder; one that is refused refuses the folder.
scan_config_folder(folder) ==
  LET loads(n) == load_with_metadata(n, "folder", folder[n])
      names == Range(FolderFiles) \cap DOMAIN folder
  IN  IF \E n \in names : loads(n) = {} THEN {} ELSE {{The(loads(n)) : n \in names}}

(***************************************************************************)
(* Merging.                                                                *)
(***************************************************************************)
\* The rows of a switch, one for each place that declares it.
sources_of(configs, id) ==
  LET rows(c) == {[switch |-> c.switches[i], index |-> i, source_file |-> c.source_file,
                   merge_priority |-> c.merge_priority] : i \in DOMAIN c.switches}
  IN  {r \in UNION {rows(c) : c \in configs} : r.switch.id = id}

\* The main file is read first, then those of the folder in alphabetical order.
place(path) ==
  IF path = MainFile THEN 0 ELSE CHOOSE i \in DOMAIN FolderFiles : FolderFiles[i] = path

ReadBefore(r, s) ==
  \/ place(r.source_file) < place(s.source_file)
  \/ r.source_file = s.source_file /\ r.index < s.index

\* Mutant of Precedes: the rows count in the order they are read in.
PrecedesByReading(r, s) == ReadBefore(r, s)

\* The files are sorted by priority, and the sort is stable: of two with one
\* priority the one read first stays first.
Precedes(r, s) ==
  \/ r.merge_priority < s.merge_priority
  \/ r.merge_priority = s.merge_priority /\ ReadBefore(r, s)

BestOf(rows) == CHOOSE r \in rows : \A s \in rows \ {r} : Precedes(r, s)

\* TRUE when no two files disagree on who the switch is.
validate_switch_identity(sources) ==
  \A field \in {"hostname", "management_ip", "model"} : \A r, s \in sources :
    r.switch[field] = {} \/ s.switch[field] = {} \/ r.switch[field] = s.switch[field]

\* What the best row that says something says, and none when no row does.
FirstSome(sources, field) ==
  LET some == {r \in sources : r.switch[field] # {}}
  IN  IF some = {} THEN {} ELSE BestOf(some).switch[field]

Keys(row, field, key) == {r[key] : r \in Range(row.switch[field])}

\* The best row of a switch that has an entry of a list, such as a VLAN.
Declarer(sources, field, key, k) == BestOf({r \in sources : k \in Keys(r, field, key)})

Merged(sources, field, key) ==
  [k \in UNION {Keys(r, field, key) : r \in sources} |->
     FirstWith(Declarer(sources, field, key, k).switch[field], key, k)]

FileOf(sources, field, key) ==
  [k \in UNION {Keys(r, field, key) : r \in sources} |->
     Declarer(sources, field, key, k).source_file]

\* Each list of the SNMP block is that of the best file whose list is not empty.
merge_snmp_configs(sources) ==
  LET with == {r \in sources : r.switch.snmp # {}}
      block(r) == The(r.switch.snmp)
      best(field, none) ==
        LET some == {r \in with : block(r)[field] # none}
        IN  IF some = {} THEN none ELSE block(BestOf(some))[field]
  IN  IF with = {} THEN {}
      ELSE {[communities |-> best("communities", <<>>),
             trap_receivers |-> best("trap_receivers", <<>>),
             enabled_traps |-> best("enabled_traps", {}), reads |-> best("reads", {})]}

\* management_vlan and vendor_specific of the files are not taken over.
merge_single_switch(id, sources) ==
  [id |-> id,
   hostname |-> FirstSome(sources, "hostname"), model |-> FirstSome(sources, "model"),
   management_ip |-> FirstSome(sources, "management_ip"),
   credentials |-> FirstSome(sources, "credentials"),
   vlans |-> Merged(sources, "vlans", "id"),
   ports |-> Merged(sources, "ports", "port_id"),
   port_mirrors |-> Merged(sources, "port_mirrors", "session_id"),
   snmp |-> merge_snmp_configs(sources),
   validation |-> FirstSome(sources, "validation"),
   settings |-> BestOf(sources).switch.settings]

(***************************************************************************)
(* The checks of one switch.                                               *)
(***************************************************************************)
get_missing_required_fields(switch) ==
  {f \in {"hostname", "model", "management_ip", "credentials"} : switch[f] = {}}

has_reference(c) == c.name_file # {} \/ c.name_credential # {}

labelled_communities(snmp) ==
  Range(snmp.communities)
    \cup UNION {r.community : r \in {q \in snmp.reads : q.mode = "auto"}}

check_snmp_secret_sources(switch) ==
  \A snmp \in switch.snmp : \A c \in labelled_communities(snmp) :
    /\ c.name_file = {} \/ c.name_credential = {}
    /\ c.name # "" \/ has_reference(c)

\* secrets gives the usable text behind a reference, "" when there is none.
SecretOf(c, secrets) ==
  IF c.name_file # {} THEN secrets[The(c.name_file)] ELSE secrets[The(c.name_credential)]

SecretsResolve(switch, secrets) ==
  /\ check_snmp_secret_sources(switch)
  /\ \A snmp \in switch.snmp : \A c \in labelled_communities(snmp) :
       has_reference(c) => SecretOf(c, secrets) # "" /\ c.name \in {"", SecretOf(c, secrets)}

WithSecret(c, secrets) ==
  IF has_reference(c) THEN [c EXCEPT !.name = SecretOf(c, secrets)] ELSE c

resolve_snmp_secrets(switch, secrets) ==
  LET of_reads(r) == IF r.mode = "auto"
                     THEN [r EXCEPT !.community = {WithSecret(c, secrets) : c \in @}] ELSE r
  IN  [switch EXCEPT !.snmp =
         {[s EXCEPT !.communities = [i \in DOMAIN @ |-> WithSecret(@[i], secrets)],
                    !.reads = {of_reads(r) : r \in @}] : s \in @}]

\* A row without a model (an overlay) is checked once it is merged.
check_vendor_support(switch) ==
  \A m \in switch.model :
    \/ vendor(m) = "Fortiswitch"
    \/ /\ ~ reads_enabled(switch.snmp)
       /\ \A snmp \in switch.snmp : \A c \in Range(snmp.communities) : c.allowed_hosts = {}

find_ambiguous_vlan_name(vlans) ==
  {i \in DOMAIN vlans : \E j \in DOMAIN vlans \ {i} : vlans[i].name = vlans[j].name}

NamedVlans(vlans, name) == {i \in DOMAIN vlans : vlans[i].name = name}

\* The VLANs a reference stands for: none when it is an unknown name.
Referenced(r, vlans) == IF IsName(r) THEN NamedVlans(vlans, r.name) ELSE {r.id}

\* The values of a list of Options, each where it comes first.
Firsts(options) ==
  LET isFirst(i) == /\ options[i] # {}
                    /\ \A j \in DOMAIN options : j < i => options[j] # options[i]
  IN  InOrder([i \in {j \in DOMAIN options : isFirst(j)} |-> The(options[i])])

ResolvedPort(p, vlans) ==
  [port_id |-> p.port_id,
   vlan |-> IF p.vlan_name = {} THEN p.vlan ELSE The(NamedVlans(vlans, The(p.vlan_name))),
   vlan_name |-> {},
   tagged_vlans |-> IF p.tagged_vlan_refs = <<>> THEN p.tagged_vlans
                    ELSE Firsts([i \in DOMAIN p.tagged_vlan_refs |->
                                   Referenced(p.tagged_vlan_refs[i], vlans)]),
   tagged_vlan_refs |-> <<>>,
   speed_duplex |-> p.speed_duplex]

UnknownNames(p, vlans, strict) ==
  {n \in p.vlan_name : NamedVlans(vlans, n) = {}}
    \cup (IF strict THEN {r \in Range(p.tagged_vlan_refs) : Referenced(r, vlans) = {}} ELSE {})

\* The ports are taken in their order; the first unknown name ends it, and the
\* ports from there on stay as they were read.
resolve_vlan_names(switch, strict) ==
  LET stuck == {n \in DOMAIN switch.ports : UnknownNames(switch.ports[n], switch.vlans, strict) # {}}
      done(n) == \A m \in stuck : n < m
  IN  IF find_ambiguous_vlan_name(switch.vlans) # {} THEN [ok |-> FALSE, switch |-> switch]
      ELSE [ok |-> stuck = {},
            switch |-> [switch EXCEPT !.ports =
              [n \in DOMAIN @ |-> IF done(n) THEN ResolvedPort(@[n], switch.vlans) ELSE @[n]]]]

defined_vlans(switch) ==
  DOMAIN switch.vlans \cup UNION {implicit_vlans(m) : m \in switch.model}

\* Mutant of validate_vlan_references: unknown tagged VLANs are only warned about.
validate_vlan_references_warn(switch) ==
  LET defined == defined_vlans(switch)
  IN  [ok |-> \A p \in Range(switch.ports) : p.vlan \in defined, switch |-> switch]

\* As a load does it: tagged VLANs that nobody defines are filtered out.
OnlyDefined(ports, defined) ==
  [n \in DOMAIN ports |->
     [ports[n] EXCEPT !.tagged_vlans = Among(@, defined)]]

validate_vlan_references(switch) ==
  LET defined == defined_vlans(switch)
      filtered == [switch EXCEPT !.ports = OnlyDefined(switch.ports, defined)]
  IN  IF \E v \in Range(switch.vlans) : v.name \in UnusableNames
      THEN [ok |-> FALSE, switch |-> switch]
      ELSE [ok |-> /\ \A p \in Range(switch.ports) :
                        p.vlan \in defined /\ supports_speed(The(switch.model), p.speed_duplex)
                   /\ \A m \in Range(switch.port_mirrors) :
                        m.destination_port \notin DOMAIN switch.ports,
            switch |-> filtered]

(***************************************************************************)
(* The whole load.                                                         *)
(***************************************************************************)
\* The checks after the merge, in their order; the first that fails decides.
Checked(switch, secrets) ==
  LET with_secrets == resolve_snmp_secrets(switch, secrets)
      named == resolve_vlan_names(with_secrets, FALSE)
      checked == validate_vlan_references(named.switch)
      fails == \/ get_missing_required_fields(switch) # {}
               \/ ~ SecretsResolve(switch, secrets)
               \/ ~ check_vendor_support(switch)
  IN  IF fails THEN [ok |-> FALSE, switch |-> switch]
      ELSE IF ~ named.ok THEN [ok |-> FALSE, switch |-> named.switch]
      ELSE [ok |-> checked.ok /\ DOMAIN switch.vlans # {}, switch |-> checked.switch]

Refused == [ok |-> FALSE, switches |-> <<>>, failures |-> <<>>]

\* Mutant of merge_configs: a switch that fails its checks fails the others.
merge_configs_together(configs, secrets) ==
  LET ids == UNION {{s.id : s \in Range(c.switches)} : c \in configs}
      checked == [id \in ids |-> Checked(merge_single_switch(id, sources_of(configs, id)), secrets)]
      valid == IF \A id \in ids : checked[id].ok THEN ids ELSE {}
  IN  [ok |-> TRUE, switches |-> [id \in valid |-> checked[id].switch], failures |-> <<>>]

\* One switch two files disagree about refuses the whole load; a switch that
\* fails its checks is only left out.
merge_configs(configs, secrets) ==
  LET ids == UNION {{s.id : s \in Range(c.switches)} : c \in configs}
      sources == [id \in ids |-> sources_of(configs, id)]
      checked == [id \in ids |-> Checked(merge_single_switch(id, sources[id]), secrets)]
      valid == {id \in ids : checked[id].ok}
  IN  IF \E id \in ids : ~ validate_switch_identity(sources[id]) THEN Refused
      ELSE [ok |-> TRUE,
            switches |-> [id \in valid |-> checked[id].switch],
            failures |-> [id \in ids \ valid |->
                            [preview |-> checked[id].switch,
                             vlan_sources |-> FileOf(sources[id], "vlans", "id"),
                             port_sources |-> FileOf(sources[id], "ports", "port_id")]]]

load_multi(main, folder, secrets) ==
  LET first == load_with_metadata(MainFile, "main", main)
      others == scan_config_folder(folder)
  IN  IF first = {} \/ others = {} THEN Refused
      ELSE merge_configs(first \cup The(others), secrets)
=============================================================================
