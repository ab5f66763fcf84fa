--------------------------- MODULE OverlayFilesProofs --------------------------
(***************************************************************************)
(* For any files, folder, edits and requests.  IInv: the files have the    *)
(* form a load can rely on, and memory is a load of the files it was       *)
(* loaded from. What a load guarantees follows from ConfigMerge alone:     *)
(* every switch it keeps is consistent, its VLANs come from the best file, *)
(* and it depends only on the files that declare it. EditorInv adds that   *)
(* the ports of files, drafts, pages and requests are typed, and that the  *)
(* last save nothing overtook was valid against the files it was checked   *)
(* against: from that, a saved port keeps its VLANs.                       *)
(***************************************************************************)
EXTENDS OverlayFiles, FiniteSetTheorems, SequenceTheorems, WellFoundedInduction, TLAPS

(***************************************************************************)
(* The invariant, and that every step keeps it.                            *)
(***************************************************************************)

\* A set of numbers has a smallest one.
LEMMA LeastNumber ==
  ASSUME NEW T, T \subseteq Nat, T # {}
  PROVE  \E x \in T : \A y \in T : ~ (y < x)
<1>1. IsWellFoundedOn(OpToRel(<, Nat), Nat)
  BY NatLessThanWellFounded, Zenon
<1>2. PICK x \in T : \A y \in T : <<y, x>> \notin OpToRel(<, Nat)
  BY <1>1, WFMin, Zenon
<1>3. \A y \in T : y < x => <<y, x>> \in OpToRel(<, Nat)
  BY Zenon DEF OpToRel
<1> QED
  BY <1>2, <1>3, Zenon

IsFolder(f) == DOMAIN f \subseteq Range(FolderFiles) /\ \A n \in DOMAIN f : IsFile(f[n])

MemoryIsLoaded ==
  /\ memory = load_multi(loaded.main, loaded.folder, loaded.secrets) /\ memory.ok
  /\ IsFile(loaded.main) /\ IsFolder(loaded.folder)

IsBody(body) ==
  /\ body.filename \in Range(FolderFiles) /\ body.merge_priority \in Nat
  /\ AreRows(body.switches)

\* What a tab has under way.
IsWork(w) ==
  /\ w.phase = "save" => w.form \in SaveForms
  /\ w.phase \in {"posted", "checked"} => IsBody(w.body)

IInv ==
  /\ IsFile(main) /\ IsFolder(folder)
  /\ DOMAIN tab = Tabs /\ \A t \in Tabs : IsWork(tab[t])
  /\ MemoryIsLoaded

\* IInv holds when the service has started.
LEMMA InvStarts == Init => IInv
<1> SUFFICES ASSUME Init PROVE IInv
  OBVIOUS
<1>1. IsFile(main) /\ IsFolder(folder)
  BY FilesAreTyped DEF Init, IsFolder
<1>2. DOMAIN tab = Tabs /\ \A t \in Tabs : IsWork(tab[t])
  <2>1. tab = [t \in Tabs |-> Idle]
    BY DEF Init
  <2>2. IsWork(Idle)
    BY DEF Idle, IsWork
  <2> QED
    BY <2>1, <2>2
<1>3. MemoryIsLoaded
  <2>1. loaded.main = main /\ loaded.folder = folder /\ loaded.secrets = secrets
    BY DEF Init, Files
  <2> QED
    BY <1>1, <2>1 DEF Init, MemoryIsLoaded
<1> QED
  BY <1>1, <1>2, <1>3 DEF IInv

\* A folder with one file more, or one replaced, is a folder.
LEMMA FolderPut ==
  ASSUME NEW f, IsFolder(f), NEW n \in Range(FolderFiles), NEW file, IsFile(file)
  PROVE  IsFolder(Put(f, n, file))
  BY DEF IsFolder, Put

\* A folder with one file less is a folder.
LEMMA FolderWithout ==
  ASSUME NEW f, IsFolder(f), NEW n
  PROVE  IsFolder(Without(f, n))
  BY DEF IsFolder, Without

\* A tab takes up something else.
LEMMA TabPut ==
  ASSUME IInv, NEW t \in Tabs, NEW r, tab' = [tab EXCEPT ![t] = r], IsWork(r)
  PROVE  DOMAIN tab' = Tabs /\ \A u \in Tabs : IsWork(tab'[u])
  BY DEF IInv

\* What no load touches stays a load.
LEMMA MemoryStays ==
  ASSUME IInv, UNCHANGED <<memory, loaded>>
  PROVE  MemoryIsLoaded'
  BY DEF IInv, MemoryIsLoaded

\* The row a save writes has all its fields, with the VLANs the row it was sent had.
LEMMA RewrittenIsRow ==
  ASSUME NEW row, IsRow(row)
  PROVE  IsRow(prefer_vlan_names_in_yaml(row))
<1>1. ASSUME NEW p, NEW m, NEW s, NEW r,
             r = [row EXCEPT !.ports = p, !.port_mirrors = m, !.snmp = s]
      PROVE  IsRow(r)
  BY <1>1 DEF IsRow, RowFields
<1>2. prefer_vlan_names_in_yaml(row)
        = [row EXCEPT !.ports = written_ports(row), !.port_mirrors = written_mirrors(row),
                      !.snmp = written_snmp(row)]
  BY Zenon DEF prefer_vlan_names_in_yaml
<1> QED
  BY <1>1, <1>2, Zenon

\* What a save writes is a file.
LEMMA WrittenIsFile ==
  ASSUME NEW body, IsBody(body)
  PROVE  IsFile(FileFrom(body))
<1> DEFINE file == FileFrom(body)
           rows == body.switches
<1>1. /\ file.switches = [i \in DOMAIN rows |-> prefer_vlan_names_in_yaml(rows[i])]
      /\ file.merge_priority = {body.merge_priority}
  BY DEF FileFrom
<1>2. \A row : IsRow(row) => IsRow(prefer_vlan_names_in_yaml(row))
  BY RewrittenIsRow
<1>3. AreRows(file.switches)
  BY <1>1, <1>2 DEF AreRows, IsBody
<1>4. file.merge_priority \subseteq Nat /\ AtMostOne(file.merge_priority)
  BY <1>1 DEF AtMostOne, IsBody
<1> QED
  BY <1>3, <1>4 DEF IsFile

\* What the editor sends has the form of a save.
LEMMA BuiltIsBody ==
  ASSUME NEW id, NEW form \in SaveForms, NEW draft, NEW known
  PROVE  IsBody(build_save_body(id, form, draft, known))
<1> DEFINE vlans == exclude_main_config_rows(draft.edited.vlans, draft.vlan_sources, known)
           body == build_save_body(id, form, draft, known)
           row == sent_row(id, draft, known)
<1>1. /\ body.switches = <<row>> /\ body.filename = form.filename
      /\ body.merge_priority = form.priority
  BY DEF build_save_body
<1>2. DOMAIN row = RowFields /\ row.vlans = InOrder(vlans)
  BY DEF sent_row, RowFields
<1>3. DOMAIN InOrder(vlans) \subseteq Nat
  BY DEF InOrder, Sorted
<1>4. IsRow(row)
  BY <1>2, <1>3 DEF IsRow
<1> HIDE DEF row
<1>5. AreRows(<<row>>)
  BY <1>4 DEF AreRows
<1> QED
  BY <1>1, <1>5, FilesAreTyped DEF IsBody

\* A step that only moves a tab keeps IInv.
LEMMA TabKeeps ==
  ASSUME IInv, NEW t \in Tabs, NEW r, tab' = [tab EXCEPT ![t] = r], IsWork(r),
         UNCHANGED <<disk, memory, loaded>>
  PROVE  IInv'
<1>1. DOMAIN tab' = Tabs /\ \A u \in Tabs : IsWork(tab'[u])
  BY TabPut
<1>2. MemoryIsLoaded'
  BY MemoryStays
<1>3. main' = main /\ folder' = folder /\ IsFile(main) /\ IsFolder(folder)
  BY DEF IInv, disk
<1> QED
  BY <1>1, <1>2, <1>3 DEF IInv

\* So does an edit of the files by hand,
LEMMA FilesChangeKeeps ==
  ASSUME IInv, FilesChange
  PROVE  IInv'
<1>1. IsFile(main') /\ IsFolder(folder')
  <2>1. CASE main' \in Mains /\ folder' = folder
    BY <2>1, FilesAreTyped DEF IInv
  <2>2. CASE main' = main /\ \E n \in Range(FolderFiles), f \in HandFiles : folder' = Put(folder, n, f)
    BY <2>2, FilesAreTyped, FolderPut DEF IInv
  <2>3. CASE main' = main /\ folder' = folder
    BY <2>3 DEF IInv
  <2> QED
    BY <2>1, <2>2, <2>3 DEF FilesChange
<1>2. MemoryIsLoaded'
  BY MemoryStays DEF FilesChange
<1>3. tab' = tab
  BY DEF FilesChange
<1> QED
  BY <1>1, <1>2, <1>3 DEF IInv

\* a load,
LEMMA ReloadKeeps ==
  ASSUME IInv, Reload
  PROVE  IInv'
<1>1. /\ main' = main /\ folder' = folder /\ secrets' = secrets /\ tab' = tab
      /\ memory' = load_multi(main, folder, secrets) /\ memory'.ok
      /\ loaded' = Files(main, folder, secrets)
  BY DEF Reload, disk
<1>2. loaded'.main = main /\ loaded'.folder = folder /\ loaded'.secrets = secrets
  BY <1>1 DEF Files
<1>3. MemoryIsLoaded'
  BY <1>1, <1>2 DEF MemoryIsLoaded, IInv
<1> QED
  BY <1>1, <1>3 DEF IInv

\* the removal of an overlay file,
LEMMA DeleteKeeps ==
  ASSUME IInv, NEW t, NEW id, NEW name, delete_overlay(t, id, name)
  PROVE  IInv'
<1>1. main' = main /\ tab' = tab /\ folder' = Without(folder, name) /\ UNCHANGED <<memory, loaded>>
  BY DEF delete_overlay
<1>2. MemoryIsLoaded'
  BY <1>1, MemoryStays
<1> QED
  BY <1>1, <1>2, FolderWithout DEF IInv

\* a save that is written,
LEMMA WriteKeeps ==
  ASSUME IInv, NEW t \in Tabs, WriteSave(t)
  PROVE  IInv'
<1> DEFINE body == tab[t].body
           w == [phase |-> "written", id |-> tab[t].id, body |-> tab[t].body]
<1>1. /\ tab[t].phase = "checked" /\ main' = main /\ UNCHANGED <<memory, loaded>>
      /\ folder' = Put(folder, body.filename, FileFrom(body))
      /\ tab' = [tab EXCEPT ![t] = w]
  BY DEF WriteSave
<1>2. IsWork(tab[t])
  BY DEF IInv
<1>3. IsBody(body)
  BY <1>1, <1>2 DEF IsWork
<1> HIDE DEF body
<1>4. IsFolder(folder')
  <2>1. IsFile(FileFrom(body))
    BY <1>3, WrittenIsFile
  <2> QED
    BY <1>1, <1>3, <2>1, FolderPut DEF IInv, IsBody
<1>5. IsWork(w)
  BY DEF IsWork
<1>6. DOMAIN tab' = Tabs /\ \A u \in Tabs : IsWork(tab'[u])
  BY <1>1, <1>5, TabPut
<1>7. MemoryIsLoaded'
  BY <1>1, MemoryStays
<1> QED
  BY <1>1, <1>4, <1>6, <1>7 DEF IInv

\* every step of the editor that leaves the files alone,
LEMMA EditorKeeps ==
  ASSUME IInv, NEW t \in Tabs,
         \/ create_with_sources(t)
         \/ \E known \in BOOLEAN : Store(t, known)
         \/ \E lost \in BOOLEAN : Answer(t, lost)
         \/ \E id \in Ids :
              \/ start_draft(t, id) \/ discard_draft(t, id) \/ ShowPorts(t, id)
              \/ \E e \in Edits : Take(t, id, e)
              \/ \E form \in SaveForms : TakeForSave(t, id, form)
  PROVE  IInv'
<1>1. UNCHANGED <<disk, memory, loaded>>
  BY DEF create_with_sources, Store, Answer, start_draft, discard_draft, ShowPorts, Take,
         TakeForSave, Unmoved, disk
<1>2. \/ tab' = tab
      \/ \E r : tab' = [tab EXCEPT ![t] = r] /\ r.phase \in {"idle", "start", "edit"}
      \/ \E r : tab' = [tab EXCEPT ![t] = r] /\ r.phase = "save" /\ r.form \in SaveForms
  <2>1. ASSUME create_with_sources(t) \/ (\E known \in BOOLEAN : Store(t, known))
               \/ (\E lost \in BOOLEAN : Answer(t, lost))
        PROVE  tab' = [tab EXCEPT ![t] = Idle]
    BY <2>1 DEF create_with_sources, Store, Answer
  <2>2. Idle.phase = "idle"
    BY DEF Idle
  <2>3. ASSUME NEW id, start_draft(t, id)
        PROVE  \E r : tab' = [tab EXCEPT ![t] = r] /\ r.phase = "start"
    <3>1. PICK preview : tab' = [tab EXCEPT ![t] = [phase |-> "start", id |-> id, preview |-> preview]]
      BY <2>3, Zenon DEF start_draft
    <3> DEFINE r == [phase |-> "start", id |-> id, preview |-> preview]
    <3>2. r.phase = "start"
      OBVIOUS
    <3> QED
      BY <3>1, <3>2, Zenon
  <2>4. ASSUME NEW id, discard_draft(t, id) \/ ShowPorts(t, id)
        PROVE  tab' = tab
    BY <2>4 DEF discard_draft, ShowPorts
  <2>5. ASSUME NEW id, NEW e, Take(t, id, e)
        PROVE  \E r : tab' = [tab EXCEPT ![t] = r] /\ r.phase = "edit"
    <3> DEFINE r == [phase |-> "edit", id |-> id, draft |-> drafts[id], form |-> e,
                     shown |-> IF e.op = "update_ports" THEN page[t] ELSE <<>>]
    <3>1. tab' = [tab EXCEPT ![t] = r]
      BY <2>5, Zenon DEF Take
    <3>2. r.phase = "edit"
      OBVIOUS
    <3> QED
      BY <3>1, <3>2, Zenon
  <2>6. ASSUME NEW id, NEW form \in SaveForms, TakeForSave(t, id, form)
        PROVE  \E r : tab' = [tab EXCEPT ![t] = r] /\ r.phase = "save" /\ r.form \in SaveForms
    <3> DEFINE r == [phase |-> "save", id |-> id, draft |-> drafts[id], form |-> form]
    <3>1. tab' = [tab EXCEPT ![t] = r]
      BY <2>6, Zenon DEF TakeForSave
    <3>2. r.phase = "save" /\ r.form = form
      OBVIOUS
    <3> QED
      BY <2>6, <3>1, <3>2, Zenon
  <2> QED
    BY <2>1, <2>2, <2>3, <2>4, <2>5, <2>6
<1>3. CASE tab' = tab
  <2>1. MemoryIsLoaded'
    BY <1>1, MemoryStays
  <2> QED
    BY <1>1, <1>3, <2>1 DEF IInv, disk
<1>4. ASSUME NEW r, tab' = [tab EXCEPT ![t] = r], r.phase \in {"idle", "start", "edit"}
      PROVE  IInv'
  <2>1. IsWork(r)
    BY <1>4 DEF IsWork
  <2> QED
    BY <1>1, <1>4, <2>1, TabKeeps
<1>5. ASSUME NEW r, tab' = [tab EXCEPT ![t] = r], r.phase = "save", r.form \in SaveForms
      PROVE  IInv'
  <2>1. IsWork(r)
    BY <1>5 DEF IsWork
  <2> QED
    BY <1>1, <1>5, <2>1, TabKeeps
<1> QED
  BY <1>2, <1>3, <1>4, <1>5

\* the save the editor sends,
LEMMA PostKeeps ==
  ASSUME IInv, NEW t \in Tabs, NEW known, Post(t, known)
  PROVE  IInv'
<1> DEFINE body == build_save_body(tab[t].id, tab[t].form, tab[t].draft, known)
           w == [phase |-> "posted", id |-> tab[t].id, body |-> body]
<1>1. /\ tab[t].phase = "save" /\ tab' = [tab EXCEPT ![t] = w]
      /\ UNCHANGED <<disk, memory, loaded>>
  BY DEF Post, Unmoved
<1>2. tab[t].form \in SaveForms
  BY <1>1 DEF IInv, IsWork
<1>3. IsBody(body)
  BY <1>2, BuiltIsBody
<1> HIDE DEF body
<1>4. IsWork(w)
  BY <1>3 DEF IsWork
<1> QED
  BY <1>1, <1>4, TabKeeps

\* a save that somebody else sends,
LEMMA PostBodyKeeps ==
  ASSUME IInv, NEW t \in Tabs, NEW body \in Bodies, PostBody(t, body)
  PROVE  IInv'
<1> DEFINE w == [phase |-> "posted", id |-> "", body |-> body]
<1>1. tab' = [tab EXCEPT ![t] = w] /\ UNCHANGED <<disk, memory, loaded>>
  BY DEF PostBody, Unmoved
<1>2. IsBody(body)
  BY FilesAreTyped DEF IsBody
<1>3. IsWork(w)
  BY <1>2 DEF IsWork
<1> QED
  BY <1>1, <1>3, TabKeeps

\* and the checks of a save.
LEMMA CheckKeeps ==
  ASSUME IInv, NEW t \in Tabs, CheckSave(t)
  PROVE  IInv'
<1> DEFINE body == tab[t].body
           w == [phase |-> "checked", id |-> tab[t].id, body |-> body, against |-> <<main, folder>>]
<1>1. /\ tab[t].phase = "posted"
      /\ tab' = [tab EXCEPT ![t] = w] \/ tab' = [tab EXCEPT ![t] = Idle]
      /\ UNCHANGED <<disk, memory, loaded>>
  BY DEF CheckSave, Unmoved
<1>2. IsBody(body)
  BY <1>1 DEF IInv, IsWork
<1> HIDE DEF body
<1>3. IsWork(w) /\ IsWork(Idle)
  BY <1>2 DEF IsWork, Idle
<1> QED
  BY <1>1, <1>3, TabKeeps

\* No step leaves IInv.
LEMMA InvStays ==
  ASSUME IInv, [Next]_vars
  PROVE  IInv'
<1>1. CASE UNCHANGED vars
  <2>1. UNCHANGED <<main, folder, tab, memory, loaded>>
    BY <1>1 DEF vars, disk
  <2>2. MemoryIsLoaded'
    BY <2>1, MemoryStays
  <2> QED
    BY <2>1, <2>2 DEF IInv
<1>2. CASE FilesChange
  BY <1>2, FilesChangeKeeps
<1>3. CASE Reload
  BY <1>3, ReloadKeeps
<1>4. ASSUME NEW t \in Tabs, CheckSave(t) PROVE IInv'
  BY <1>4, CheckKeeps
<1>5. ASSUME NEW t \in Tabs, WriteSave(t) PROVE IInv'
  BY <1>5, WriteKeeps
<1>6. ASSUME NEW t \in Tabs, NEW known \in BOOLEAN, Post(t, known) PROVE IInv'
  BY <1>6, PostKeeps
<1>7. ASSUME NEW t \in Tabs, NEW body \in Bodies, PostBody(t, body) PROVE IInv'
  BY <1>7, PostBodyKeeps
<1>8. ASSUME NEW t \in Tabs, NEW id, NEW name, delete_overlay(t, id, name) PROVE IInv'
  BY <1>8, DeleteKeeps
<1>9. ASSUME NEW t \in Tabs,
             \/ create_with_sources(t)
             \/ \E known \in BOOLEAN : Store(t, known)
             \/ \E lost \in BOOLEAN : Answer(t, lost)
             \/ \E id \in Ids :
                  \/ start_draft(t, id) \/ discard_draft(t, id) \/ ShowPorts(t, id)
                  \/ \E e \in Edits : Take(t, id, e)
                  \/ \E form \in SaveForms : TakeForSave(t, id, form)
      PROVE  IInv'
  BY <1>9, EditorKeeps
<1> QED
  BY <1>1, <1>2, <1>3, <1>4, <1>5, <1>6, <1>7, <1>8, <1>9 DEF Next

\* In every state the files have the form a load relies on, and memory is what
\* load_multi made of the files it was given: no step mixes two loads.
THEOREM Invariance == Spec => []IInv
<1>1. Init => IInv
  BY InvStarts
<1>2. IInv /\ [Next]_vars => IInv'
  BY InvStays
<1> QED
  BY <1>1, <1>2, PTL DEF Spec

(***************************************************************************)
(* What the checks of a switch leave of it, when it passes them.           *)
(***************************************************************************)

\* The switch r is s but for one of its fields.
Replaces(r, s, field, x) ==
  /\ DOMAIN r = RowFields /\ r[field] = x
  /\ \A f \in RowFields : f # field => r[f] = s[f]

\* A switch with other ports,
LEMMA PortsReplaced ==
  ASSUME NEW s, DOMAIN s = RowFields, NEW x, NEW r, r = [s EXCEPT !.ports = x]
  PROVE  Replaces(r, s, "ports", x)
  BY DEF RowFields, Replaces

\* and one with another SNMP block.
LEMMA SnmpReplaced ==
  ASSUME NEW s, DOMAIN s = RowFields, NEW x, NEW r, r = [s EXCEPT !.snmp = x]
  PROVE  Replaces(r, s, "snmp", x)
  BY DEF RowFields, Replaces

\* The verdict of a check, when it is one of success.
LEMMA Verdict ==
  ASSUME NEW r, NEW ok \in BOOLEAN, NEW switch, r = [ok |-> ok, switch |-> switch], r.ok
  PROVE  ok /\ r.switch = switch
  OBVIOUS

\* resolve_snmp_secrets touches nothing but the SNMP block.
LEMMA SecretsLeaveTheRest ==
  ASSUME NEW s, DOMAIN s = RowFields, NEW sec
  PROVE  \E x : Replaces(resolve_snmp_secrets(s, sec), s, "snmp", x)
<1>1. PICK x : resolve_snmp_secrets(s, sec) = [s EXCEPT !.snmp = x]
  BY Zenon DEF resolve_snmp_secrets
<1> QED
  BY <1>1, SnmpReplaced, Zenon

\* When resolve_vlan_names succeeds every port is resolved, and no name is ambiguous.
LEMMA ResolvedNames ==
  ASSUME NEW s, DOMAIN s = RowFields, NEW strict, resolve_vlan_names(s, strict).ok
  PROVE  /\ Replaces(resolve_vlan_names(s, strict).switch, s, "ports",
                     [n \in DOMAIN s.ports |-> ResolvedPort(s.ports[n], s.vlans)])
         /\ find_ambiguous_vlan_name(s.vlans) = {}
<1> DEFINE stuck == {n \in DOMAIN s.ports : UnknownNames(s.ports[n], s.vlans, strict) # {}}
           done(n) == \A m \in stuck : n < m
           P == [n \in DOMAIN s.ports |->
                   IF done(n) THEN ResolvedPort(s.ports[n], s.vlans) ELSE s.ports[n]]
           Q == [n \in DOMAIN s.ports |-> ResolvedPort(s.ports[n], s.vlans)]
           r == resolve_vlan_names(s, strict)
           t == [s EXCEPT !.ports = P]
           ok == stuck = {}
<1>1. find_ambiguous_vlan_name(s.vlans) = {}
  BY DEF resolve_vlan_names
<1>2. r = [ok |-> ok, switch |-> t]
  BY <1>1, Zenon DEF resolve_vlan_names
<1>3. stuck = {} /\ r.switch = t
  <2>1. ok /\ r.switch = t
    <3>1. ok \in BOOLEAN
      OBVIOUS
    <3> HIDE DEF ok, t
    <3> QED
      BY <1>2, <3>1, Verdict, Zenon
  <2> QED
    BY <2>1
<1>4. P = Q
  BY <1>3
<1>5. Replaces(t, s, "ports", P)
  <2> HIDE DEF P
  <2> QED
    BY PortsReplaced, Zenon
<1> QED
  <2> HIDE DEF P, Q, t
  <2> QED
    BY <1>1, <1>3, <1>4, <1>5, Zenon DEF Q

\* When validate_vlan_references succeeds the VLANs of every port are defined.
LEMMA FilteredPorts ==
  ASSUME NEW s, DOMAIN s = RowFields, validate_vlan_references(s).ok
  PROVE  /\ Replaces(validate_vlan_references(s).switch, s, "ports",
                     OnlyDefined(s.ports, defined_vlans(s)))
         /\ \A n \in DOMAIN s.ports : s.ports[n].vlan \in defined_vlans(s)
         /\ \A m \in Range(s.port_mirrors) : m.destination_port \notin DOMAIN s.ports
<1> DEFINE P == OnlyDefined(s.ports, defined_vlans(s))
           A == /\ \A p \in Range(s.ports) :
                     p.vlan \in defined_vlans(s) /\ supports_speed(The(s.model), p.speed_duplex)
                /\ \A m \in Range(s.port_mirrors) : m.destination_port \notin DOMAIN s.ports
           r == validate_vlan_references(s)
           t == [s EXCEPT !.ports = P]
           unusable == \E v \in Range(s.vlans) : v.name \in UnusableNames
<1>1. r = IF unusable THEN [ok |-> FALSE, switch |-> s] ELSE [ok |-> A, switch |-> t]
  BY Zenon DEF validate_vlan_references
<1>2. A /\ r.switch = t
  <2>1. A \in BOOLEAN /\ FALSE \in BOOLEAN
    OBVIOUS
  <2> HIDE DEF unusable, t, A
  <2>2. ~ unusable
    BY <1>1, <2>1, Verdict, Zenon
  <2> QED
    BY <1>1, <2>1, <2>2, Verdict, Zenon
<1>3. \A n \in DOMAIN s.ports : s.ports[n].vlan \in defined_vlans(s)
  BY <1>2 DEF Range
<1>4. Replaces(t, s, "ports", P)
  <2> HIDE DEF P
  <2> QED
    BY PortsReplaced, Zenon
<1> QED
  <2> HIDE DEF t
  <2> QED
    BY <1>2, <1>3, <1>4, Zenon

\* What LoadedIsConsistent says of one switch, but for the tagged VLANs of its ports.
Consistent(s) ==
  /\ s.vlans # <<>>
  /\ \A p \in Range(s.ports) :
       p.vlan_name = {} /\ p.tagged_vlan_refs = <<>> /\ p.vlan \in DOMAIN s.vlans \cup {1}
  /\ \A v, w \in DOMAIN s.vlans : s.vlans[v].name = s.vlans[w].name => v = w
  /\ \A m \in Range(s.port_mirrors) : m.destination_port \notin DOMAIN s.ports

\* A switch that passes all checks is consistent, has the VLANs it was merged with, and
\* of its ports what resolving the names and dropping the undefined VLANs makes of them.
LEMMA CheckedIsConsistent ==
  ASSUME NEW s, DOMAIN s = RowFields, NEW sec, Checked(s, sec).ok
  PROVE  /\ Consistent(Checked(s, sec).switch) /\ Checked(s, sec).switch.vlans = s.vlans
         /\ Checked(s, sec).switch.ports =
              OnlyDefined([k \in DOMAIN s.ports |-> ResolvedPort(s.ports[k], s.vlans)],
                          DOMAIN s.vlans \cup {1})
<1> DEFINE w == resolve_snmp_secrets(s, sec)
           named == resolve_vlan_names(w, FALSE)
           n == named.switch
           checked == validate_vlan_references(n)
           c == checked.switch
           fails == \/ get_missing_required_fields(s) # {}
                    \/ ~ SecretsResolve(s, sec)
                    \/ ~ check_vendor_support(s)
           some == DOMAIN s.vlans # {}
<1>1. Checked(s, sec) =
        IF fails THEN [ok |-> FALSE, switch |-> s]
        ELSE IF ~ named.ok THEN [ok |-> FALSE, switch |-> named.switch]
        ELSE [ok |-> checked.ok /\ some, switch |-> c]
  BY Zenon DEF Checked
<1>2. named.ok /\ checked.ok /\ some /\ Checked(s, sec).switch = c /\ ~ fails
  <2>1. FALSE \in BOOLEAN /\ (checked.ok /\ some) \in BOOLEAN
    OBVIOUS
  <2> HIDE DEF fails, named, checked, some, c
  <2>2. ~ fails /\ named.ok
    BY <1>1, <2>1, Verdict, Zenon
  <2> QED
    BY <1>1, <2>1, <2>2, Verdict, Zenon
<1>3. s.model # {}
  BY <1>2 DEF get_missing_required_fields
<1>4. PICK x : Replaces(w, s, "snmp", x)
  BY SecretsLeaveTheRest
<1>5. DOMAIN w = RowFields
  BY <1>4 DEF Replaces
<1>6. /\ Replaces(n, w, "ports", [k \in DOMAIN w.ports |-> ResolvedPort(w.ports[k], w.vlans)])
      /\ find_ambiguous_vlan_name(w.vlans) = {}
  BY <1>2, <1>5, ResolvedNames, Zenon
<1>7. DOMAIN n = RowFields
  BY <1>6 DEF Replaces
<1>8. /\ Replaces(c, n, "ports", OnlyDefined(n.ports, defined_vlans(n)))
      /\ \A k \in DOMAIN n.ports : n.ports[k].vlan \in defined_vlans(n)
      /\ \A m \in Range(n.port_mirrors) : m.destination_port \notin DOMAIN n.ports
  BY <1>2, <1>7, FilteredPorts, Zenon
<1> HIDE DEF w, named, n, checked, c, fails, some
<1>9. /\ c.vlans = n.vlans /\ n.vlans = w.vlans /\ w.vlans = s.vlans
      /\ c.port_mirrors = n.port_mirrors
      /\ n.ports = [k \in DOMAIN w.ports |-> ResolvedPort(w.ports[k], w.vlans)]
      /\ c.ports = OnlyDefined(n.ports, defined_vlans(n))
  BY <1>4, <1>6, <1>8 DEF Replaces, RowFields
<1>10. defined_vlans(n) = DOMAIN c.vlans \cup {1}
  <2>1. n.model = s.model
    BY <1>4, <1>6 DEF Replaces, RowFields
  <2> QED
    BY <1>9, <1>3, <2>1 DEF defined_vlans, implicit_vlans
<1>11. c.vlans # <<>>
  BY <1>2, <1>9 DEF some
<1>12. ASSUME NEW k \in DOMAIN c.ports
       PROVE  /\ c.ports[k].vlan_name = {} /\ c.ports[k].tagged_vlan_refs = <<>>
              /\ c.ports[k].vlan \in DOMAIN c.vlans \cup {1}
  <2> DEFINE p == n.ports[k]
             q == c.ports[k]
  <2>1. k \in DOMAIN n.ports /\ q = [p EXCEPT !.tagged_vlans = Among(@, defined_vlans(n))]
    BY <1>9, <1>12 DEF OnlyDefined
  <2>2. p = ResolvedPort(w.ports[k], w.vlans)
    BY <1>9, <2>1
  <2>3. /\ DOMAIN p = {"port_id", "vlan", "vlan_name", "tagged_vlans",
                       "tagged_vlan_refs", "speed_duplex"}
        /\ p.vlan_name = {} /\ p.tagged_vlan_refs = <<>>
    BY <2>2 DEF ResolvedPort
  <2>4. p.vlan \in defined_vlans(n)
    BY <1>8, <2>1
  <2> HIDE DEF p, q
  <2>5. q.vlan_name = {} /\ q.tagged_vlan_refs = <<>> /\ q.vlan = p.vlan
    BY <2>1, <2>3
  <2> QED
    BY <1>10, <2>4, <2>5 DEF q
<1>13. \A m \in Range(c.port_mirrors) : m.destination_port \notin DOMAIN c.ports
  BY <1>8, <1>9 DEF OnlyDefined
<1>14. \A v, u \in DOMAIN c.vlans : c.vlans[v].name = c.vlans[u].name => v = u
  BY <1>6, <1>9 DEF find_ambiguous_vlan_name
<1>15. \A p \in Range(c.ports) :
         p.vlan_name = {} /\ p.tagged_vlan_refs = <<>> /\ p.vlan \in DOMAIN c.vlans \cup {1}
  BY <1>12 DEF Range
<1>16. Consistent(c)
  BY <1>11, <1>13, <1>14, <1>15, Zenon DEF Consistent
<1>17. c.ports = OnlyDefined([k \in DOMAIN s.ports |-> ResolvedPort(s.ports[k], s.vlans)],
                            DOMAIN s.vlans \cup {1})
  <2>1. w.ports = s.ports
    BY <1>4 DEF Replaces, RowFields
  <2> QED
    BY <1>9, <1>10, <2>1, Zenon
<1> QED
  BY <1>2, <1>9, <1>16, <1>17, Zenon

(***************************************************************************)
(* What a load is made of: the places of the files that declare a switch.  *)
(***************************************************************************)

DeclaredIn(configs) == UNION {{s.id : s \in Range(c.switches)} : c \in configs}

MergedFrom(configs, id, sec) == Checked(merge_single_switch(id, sources_of(configs, id)), sec)

\* merge_configs keeps the switches that pass their checks, each checked by itself.
LEMMA MergeKeepsTheValid ==
  ASSUME NEW configs, NEW sec, merge_configs(configs, sec).ok
  PROVE  merge_configs(configs, sec).switches =
           [id \in {d \in DeclaredIn(configs) : MergedFrom(configs, d, sec).ok} |->
              MergedFrom(configs, id, sec).switch]
<1> DEFINE ids == DeclaredIn(configs)
           sources == [id \in ids |-> sources_of(configs, id)]
           checked == [id \in ids |-> Checked(merge_single_switch(id, sources[id]), sec)]
           valid == {id \in ids : checked[id].ok}
           m == merge_configs(configs, sec)
           switches == [id \in valid |-> checked[id].switch]
           failures == [id \in ids \ valid |->
                            [preview |-> checked[id].switch,
                             vlan_sources |-> FileOf(sources[id], "vlans", "id"),
                             port_sources |-> FileOf(sources[id], "ports", "port_id")]]
           agreed == ~ \E id \in ids : ~ validate_switch_identity(sources[id])
<1>1. m = IF ~ agreed THEN Refused
          ELSE [ok |-> TRUE, switches |-> switches, failures |-> failures]
  BY Zenon DEF merge_configs, DeclaredIn
<1>2. m.switches = switches
  <2> HIDE DEF agreed, switches, failures
  <2>1. CASE agreed
    BY <1>1, <2>1
  <2>2. CASE ~ agreed
    BY <1>1, <2>2 DEF Refused
  <2> QED
    BY <2>1, <2>2
<1>3. \A id \in ids : checked[id] = MergedFrom(configs, id, sec)
  BY Zenon DEF MergedFrom
<1>4. valid = {d \in ids : MergedFrom(configs, d, sec).ok}
  <2> HIDE DEF checked
  <2> QED
    BY <1>3
<1>5. switches = [id \in {d \in ids : MergedFrom(configs, d, sec).ok} |->
              MergedFrom(configs, id, sec).switch]
  <2> HIDE DEF checked, valid
  <2>1. valid \subseteq ids
    BY <1>4
  <2> QED
    BY <1>3, <1>4, <2>1
<1> QED
  BY <1>2, <1>5, Zenon

\* The files of a load.
ConfigsOf(m, f) ==
  load_with_metadata(MainFile, "main", m) \cup The(scan_config_folder(f))

\* A load that succeeds merges the main file and the folder.
LEMMA LoadMerges ==
  ASSUME NEW m, NEW f, NEW sec, load_multi(m, f, sec).ok
  PROVE  /\ load_multi(m, f, sec) = merge_configs(ConfigsOf(m, f), sec)
         /\ load_with_metadata(MainFile, "main", m) # {} /\ scan_config_folder(f) # {}
<1> DEFINE first == load_with_metadata(MainFile, "main", m)
           others == scan_config_folder(f)
           merged == merge_configs(first \cup The(others), sec)
<1>1. load_multi(m, f, sec) = IF first = {} \/ others = {} THEN Refused ELSE merged
  BY Zenon DEF load_multi
<1>2. ~ Refused.ok
  BY DEF Refused
<1> HIDE DEF first, others, merged
<1>3. first # {} /\ others # {}
  BY <1>1, <1>2
<1> QED
  BY <1>1, <1>3, Zenon DEF first, others, merged, ConfigsOf

\* What a file gives when it is loaded, and each of its rows as a source.
KindOf(n) == IF n = MainFile THEN "main" ELSE "folder"

PriorityOf(n, file) ==
  IF file.merge_priority = {} THEN default_priority(KindOf(n)) ELSE The(file.merge_priority)

ConfigAt(n, file) ==
  [source_file |-> n, merge_priority |-> PriorityOf(n, file),
   switches |-> [i \in DOMAIN file.switches |-> expand_port_ranges(file.switches[i])]]

SourceAt(n, file, i) ==
  [switch |-> expand_port_ranges(file.switches[i]), index |-> i, source_file |-> n,
   merge_priority |-> PriorityOf(n, file)]

FileAt(m, f, n) == IF n = MainFile THEN m ELSE f[n]

Names(f) == {MainFile} \cup DOMAIN f

\* A file that is not refused gives its rows, expanded,
LEMMA LoadGives ==
  ASSUME NEW n, NEW file, load_with_metadata(n, KindOf(n), file) # {}
  PROVE  load_with_metadata(n, KindOf(n), file) = {ConfigAt(n, file)} /\ file.parses
<1> DEFINE switches == [i \in DOMAIN file.switches |-> expand_port_ranges(file.switches[i])]
           p == PriorityOf(n, file)
           fits == /\ file.parses
                   /\ \A s \in Range(file.switches) : CanExpand(s)
                   /\ \A s \in Range(switches) : Validates(s)
                   /\ KindOf(n) = "folder" => p >= 11
           config == [source_file |-> n, merge_priority |-> p, switches |-> switches]
<1>1. load_with_metadata(n, KindOf(n), file) = IF fits THEN {config} ELSE {}
  BY Zenon DEF load_with_metadata, PriorityOf
<1>2. config = ConfigAt(n, file)
  BY Zenon DEF ConfigAt
<1>3. fits => file.parses
  OBVIOUS
<1> HIDE DEF fits, config
<1> QED
  BY <1>1, <1>2, <1>3

\* and so does every file of a folder that is not refused.
LEMMA ScanGives ==
  ASSUME NEW f, IsFolder(f), scan_config_folder(f) # {}
  PROVE  /\ The(scan_config_folder(f)) = {ConfigAt(n, f[n]) : n \in DOMAIN f}
         /\ \A n \in DOMAIN f : f[n].parses
<1> DEFINE names == Range(FolderFiles) \cap DOMAIN f
           loads(n) == load_with_metadata(n, "folder", f[n])
           all == {The(loads(n)) : n \in names}
           refused == \E n \in names : loads(n) = {}
<1>1. names = DOMAIN f
  BY DEF IsFolder
<1>2. scan_config_folder(f) = IF refused THEN {} ELSE {all}
  BY Zenon DEF scan_config_folder
<1>3. ~ refused /\ scan_config_folder(f) = {all}
  <2> HIDE DEF refused, all
  <2> QED
    BY <1>2
<1>4. \A n \in DOMAIN f : loads(n) = {ConfigAt(n, f[n])} /\ f[n].parses
  <2> TAKE n \in DOMAIN f
  <2>1. KindOf(n) = "folder"
    BY <1>1, FilesAssumption DEF KindOf
  <2>2. loads(n) # {}
    BY <1>1, <1>3
  <2> QED
    BY <2>1, <2>2, LoadGives
<1>5. \A n \in DOMAIN f : The(loads(n)) = ConfigAt(n, f[n])
  BY <1>4 DEF The
<1>6. all = {ConfigAt(n, f[n]) : n \in DOMAIN f}
  <2> HIDE DEF names
  <2> QED
    BY <1>1, <1>5
<1>7. The({all}) = all
  <2> HIDE DEF all
  <2> QED
    BY DEF The
<1> QED
  BY <1>3, <1>4, <1>6, <1>7, Zenon

\* What a load that succeeds merges: every file, once.
LEMMA ConfigsAre ==
  ASSUME NEW m, NEW f, NEW sec, IsFile(m), IsFolder(f), load_multi(m, f, sec).ok
  PROVE  /\ ConfigsOf(m, f) = {ConfigAt(n, FileAt(m, f, n)) : n \in Names(f)}
         /\ \A n \in Names(f) : FileAt(m, f, n).parses
<1>1. load_with_metadata(MainFile, "main", m) # {} /\ scan_config_folder(f) # {}
  BY LoadMerges
<1>2. load_with_metadata(MainFile, "main", m) = {ConfigAt(MainFile, m)} /\ m.parses
  <2>1. KindOf(MainFile) = "main"
    BY DEF KindOf
  <2> QED
    BY <1>1, <2>1, LoadGives
<1>3. /\ The(scan_config_folder(f)) = {ConfigAt(n, f[n]) : n \in DOMAIN f}
      /\ \A n \in DOMAIN f : f[n].parses
  BY <1>1, ScanGives
<1>4. MainFile \notin DOMAIN f
  BY FilesAssumption DEF IsFolder
<1>5. ConfigsOf(m, f) = {ConfigAt(MainFile, m)} \cup {ConfigAt(n, f[n]) : n \in DOMAIN f}
  BY <1>2, <1>3 DEF ConfigsOf
<1>6. FileAt(m, f, MainFile) = m /\ \A n \in DOMAIN f : FileAt(m, f, n) = f[n]
  BY <1>4 DEF FileAt
<1> QED
  BY <1>2, <1>3, <1>5, <1>6 DEF Names

\* Expanding the ports of a row leaves its id and its VLANs.
LEMMA ExpandedRow ==
  ASSUME NEW row, IsRow(row)
  PROVE  expand_port_ranges(row).id = row.id /\ expand_port_ranges(row).vlans = row.vlans
<1> DEFINE r == expand_port_ranges(row)
<1>1. PICK p, q : r = [row EXCEPT !.ports = p, !.port_mirrors = q]
  BY Zenon DEF expand_port_ranges
<1> HIDE DEF r
<1>2. r.id = row.id /\ r.vlans = row.vlans
  BY <1>1 DEF IsRow, RowFields
<1> QED
  BY <1>2 DEF r

\* The places of the files that declare a switch.
Sources(m, f, id) ==
  UNION {{SourceAt(n, FileAt(m, f, n), i) : i \in {j \in DOMAIN FileAt(m, f, n).switches :
                                                   FileAt(m, f, n).switches[j].id = id}}
         : n \in Names(f)}

\* Each file of a load is one.
LEMMA FilesAt ==
  ASSUME NEW m, NEW f, IsFile(m), IsFolder(f), NEW n \in Names(f)
  PROVE  IsFile(FileAt(m, f, n))
  BY FilesAssumption DEF IsFolder, FileAt, Names

\* The rows merge_single_switch gets for a switch are those of Sources.
LEMMA SourcesAre ==
  ASSUME NEW m, NEW f, NEW sec, IsFile(m), IsFolder(f), load_multi(m, f, sec).ok, NEW id
  PROVE  sources_of(ConfigsOf(m, f), id) = Sources(m, f, id)
<1> DEFINE configs == ConfigsOf(m, f)
           row(c, i) == [switch |-> c.switches[i], index |-> i, source_file |-> c.source_file,
                         merge_priority |-> c.merge_priority]
           rows(c) == {row(c, i) : i \in DOMAIN c.switches}
           At(n) == FileAt(m, f, n)
           source(n, i) == SourceAt(n, At(n), i)
<1>1. sources_of(configs, id) = {r \in UNION {rows(c) : c \in configs} : r.switch.id = id}
  BY Zenon DEF sources_of
<1>2. configs = {ConfigAt(n, At(n)) : n \in Names(f)}
  BY ConfigsAre, Zenon
<1>3. ASSUME NEW n \in Names(f)
      PROVE  /\ DOMAIN ConfigAt(n, At(n)).switches = DOMAIN At(n).switches
             /\ \A i \in DOMAIN At(n).switches :
                  row(ConfigAt(n, At(n)), i) = source(n, i)
  BY DEF ConfigAt, SourceAt
<1>4. ASSUME NEW n \in Names(f), NEW i \in DOMAIN At(n).switches
      PROVE  source(n, i).switch.id = At(n).switches[i].id
  <2>1. IsRow(At(n).switches[i])
    BY FilesAt DEF IsFile, AreRows
  <2>2. source(n, i).switch = expand_port_ranges(At(n).switches[i])
    BY DEF SourceAt
  <2> QED
    BY <2>1, <2>2, ExpandedRow
<1> HIDE DEF At, row, configs
<1>5. UNION {rows(c) : c \in configs} =
        UNION {{SourceAt(n, At(n), i) : i \in DOMAIN At(n).switches} : n \in Names(f)}
  BY <1>2, <1>3
<1>6. \A n \in Names(f) :
        {SourceAt(n, At(n), i) : i \in {j \in DOMAIN At(n).switches : At(n).switches[j].id = id}}
          = {r \in {SourceAt(n, At(n), i) : i \in DOMAIN At(n).switches} : r.switch.id = id}
  BY <1>4
<1>7. sources_of(configs, id) =
        UNION {{r \in {SourceAt(n, At(n), i) : i \in DOMAIN At(n).switches} : r.switch.id = id}
               : n \in Names(f)}
  <2> DEFINE all(n) == {SourceAt(n, At(n), i) : i \in DOMAIN At(n).switches}
  <2>1. sources_of(configs, id) = {r \in UNION {all(n) : n \in Names(f)} : r.switch.id = id}
    BY <1>1, <1>5, Zenon
  <2> HIDE DEF all
  <2>2. {r \in UNION {all(n) : n \in Names(f)} : r.switch.id = id}
          = UNION {{r \in all(n) : r.switch.id = id} : n \in Names(f)}
    OBVIOUS
  <2> QED
    BY <2>1, <2>2, Zenon DEF all
<1>8. sources_of(configs, id) =
        UNION {{SourceAt(n, At(n), i) : i \in {j \in DOMAIN At(n).switches : At(n).switches[j].id = id}}
               : n \in Names(f)}
  <2> DEFINE a(n) == {r \in {SourceAt(n, At(n), i) : i \in DOMAIN At(n).switches} : r.switch.id = id}
             b(n) == {SourceAt(n, At(n), i) :
                       i \in {j \in DOMAIN At(n).switches : At(n).switches[j].id = id}}
  <2>1. \A n \in Names(f) : a(n) = b(n)
    BY <1>6, Zenon
  <2>2. sources_of(configs, id) = UNION {a(n) : n \in Names(f)}
    BY <1>7, Zenon
  <2> HIDE DEF a, b
  <2>3. UNION {a(n) : n \in Names(f)} = UNION {b(n) : n \in Names(f)}
    BY <2>1
  <2> QED
    BY <2>2, <2>3, Zenon DEF b
<1> QED
  BY <1>8, Zenon DEF Sources, At, configs

\* A switch is merged if a file declares it.
LEMMA DeclaredHaveSources ==
  ASSUME NEW m, NEW f, NEW sec, IsFile(m), IsFolder(f), load_multi(m, f, sec).ok, NEW id
  PROVE  id \in DeclaredIn(ConfigsOf(m, f)) <=> Sources(m, f, id) # {}
<1> DEFINE configs == ConfigsOf(m, f)
           At(n) == FileAt(m, f, n)
<1>1. configs = {ConfigAt(n, At(n)) : n \in Names(f)}
  BY ConfigsAre, Zenon
<1>2. ASSUME NEW n \in Names(f)
      PROVE  {s.id : s \in Range(ConfigAt(n, At(n)).switches)} = {s.id : s \in Range(At(n).switches)}
  <2>1. ConfigAt(n, At(n)).switches =
          [i \in DOMAIN At(n).switches |-> expand_port_ranges(At(n).switches[i])]
    BY DEF ConfigAt
  <2>2. \A i \in DOMAIN At(n).switches :
          expand_port_ranges(At(n).switches[i]).id = At(n).switches[i].id
    BY FilesAt, ExpandedRow DEF IsFile, AreRows
  <2> HIDE DEF At
  <2> QED
    BY <2>1, <2>2 DEF Range
<1>3. id \in DeclaredIn(configs) <=>
        \E n \in Names(f) : \E i \in DOMAIN At(n).switches : At(n).switches[i].id = id
  <2>1. id \in DeclaredIn(configs) <=> \E c \in configs : id \in {s.id : s \in Range(c.switches)}
    BY Zenon DEF DeclaredIn
  <2>2. id \in DeclaredIn(configs) <=>
          \E n \in Names(f) : id \in {s.id : s \in Range(At(n).switches)}
    BY <1>1, <1>2, <2>1, Zenon
  <2> HIDE DEF At
  <2> QED
    BY <2>2 DEF Range
<1>4. Sources(m, f, id) # {} <=>
        \E n \in Names(f) : \E i \in DOMAIN At(n).switches : At(n).switches[i].id = id
  <2> DEFINE b(n) == {SourceAt(n, At(n), i) :
                       i \in {j \in DOMAIN At(n).switches : At(n).switches[j].id = id}}
  <2>1. Sources(m, f, id) = UNION {b(n) : n \in Names(f)}
    BY Zenon DEF Sources
  <2>2. \A n : b(n) # {} <=> \E i \in DOMAIN At(n).switches : At(n).switches[i].id = id
    OBVIOUS
  <2> HIDE DEF b
  <2>3. UNION {b(n) : n \in Names(f)} # {} <=> \E n \in Names(f) : b(n) # {}
    OBVIOUS
  <2> QED
    BY <2>1, <2>2, <2>3, Zenon
<1> QED
  BY <1>3, <1>4, Zenon

(***************************************************************************)
(* A switch in memory depends only on the files that declare it.           *)
(***************************************************************************)

\* The rows of a switch are known from the files that declare it,
LEMMA SourcesFollow ==
  ASSUME NEW m, NEW f, NEW files, NEW id, \A n \in Names(f) : FileAt(m, f, n).parses,
         \A n \in Names(f) : IsFile(FileAt(m, f, n)),
         \A n \in Names(f) : file_declares_switch(FileAt(m, f, n), id) =>
                               <<n, FileAt(m, f, n)>> \in Declaring(files, id)
  PROVE  Sources(m, f, id) \subseteq Sources(files.main, files.folder, id)
<1> DEFINE At(n) == FileAt(m, f, n)
           Other(n) == FileAt(files.main, files.folder, n)
           b(n) == {SourceAt(n, At(n), i) :
                       i \in {j \in DOMAIN At(n).switches : At(n).switches[j].id = id}}
           c(n) == {SourceAt(n, Other(n), i) :
                      i \in {j \in DOMAIN Other(n).switches : Other(n).switches[j].id = id}}
<1>1. Declaring(files, id) =
        {<<n, Other(n)>> : n \in {k \in Names(files.folder) : file_declares_switch(Other(k), id)}}
  BY Zenon DEF Declaring, FileAt, Names
<1>2. ASSUME NEW n \in Names(f), b(n) # {}
      PROVE  n \in Names(files.folder) /\ b(n) = c(n)
  <2>1. file_declares_switch(At(n), id)
    BY <1>2 DEF file_declares_switch, Range
  <2>2. <<n, At(n)>> \in Declaring(files, id)
    BY <2>1, Zenon
  <2> HIDE DEF At, Other
  <2>3. PICK k \in Names(files.folder) : <<n, At(n)>> = <<k, Other(k)>>
    BY <1>1, <2>2
  <2>4. n = k /\ At(n) = Other(n)
    BY <2>3
  <2> QED
    BY <2>4
<1>3. /\ Sources(m, f, id) = UNION {b(n) : n \in Names(f)}
      /\ Sources(files.main, files.folder, id) = UNION {c(n) : n \in Names(files.folder)}
  BY Zenon DEF Sources
<1> HIDE DEF b, c
<1> QED
  BY <1>2, <1>3

\* so they are the same when these files are.
LEMMA SameSources ==
  ASSUME NEW old, NEW new, NEW id, IsFile(old.main), IsFolder(old.folder),
         IsFile(new.main), IsFolder(new.folder),
         \A n \in Names(old.folder) : FileAt(old.main, old.folder, n).parses,
         \A n \in Names(new.folder) : FileAt(new.main, new.folder, n).parses,
         Declaring(old, id) = Declaring(new, id)
  PROVE  Sources(old.main, old.folder, id) = Sources(new.main, new.folder, id)
<1>1. ASSUME NEW x, IsFile(x.main), IsFolder(x.folder), NEW n \in Names(x.folder)
      PROVE  /\ IsFile(FileAt(x.main, x.folder, n))
             /\ file_declares_switch(FileAt(x.main, x.folder, n), id) =>
                  <<n, FileAt(x.main, x.folder, n)>> \in Declaring(x, id)
  <2>1. IsFile(FileAt(x.main, x.folder, n))
    BY <1>1, FilesAt
  <2>2. Declaring(x, id) =
          {<<k, FileAt(x.main, x.folder, k)>> :
             k \in {j \in Names(x.folder) : file_declares_switch(FileAt(x.main, x.folder, j), id)}}
    BY Zenon DEF Declaring, FileAt, Names
  <2> QED
    BY <1>1, <2>1, <2>2
<1>2. Sources(old.main, old.folder, id) \subseteq Sources(new.main, new.folder, id)
  BY <1>1, SourcesFollow
<1>3. Sources(new.main, new.folder, id) \subseteq Sources(old.main, old.folder, id)
  BY <1>1, SourcesFollow
<1> QED
  BY <1>2, <1>3

\* What memory holds of a switch, from the places that declare it.
MergedOf(files, id) ==
  Checked(merge_single_switch(id, Sources(files.main, files.folder, id)), files.secrets)

\* What a load holds of a switch is merged and checked from its rows alone.
LEMMA MemoryOf ==
  ASSUME NEW files, NEW mem, mem = load_multi(files.main, files.folder, files.secrets), mem.ok,
         IsFile(files.main), IsFolder(files.folder), NEW id
  PROVE  /\ id \in DOMAIN mem.switches <=>
              Sources(files.main, files.folder, id) # {} /\ MergedOf(files, id).ok
         /\ id \in DOMAIN mem.switches => mem.switches[id] = MergedOf(files, id).switch
<1> DEFINE configs == ConfigsOf(files.main, files.folder)
           merged(d) == MergedFrom(configs, d, files.secrets)
<1>1. mem = merge_configs(configs, files.secrets) /\ merge_configs(configs, files.secrets).ok
  BY LoadMerges, Zenon
<1>2. mem.switches = [d \in {e \in DeclaredIn(configs) : merged(e).ok} |-> merged(d).switch]
  <2> HIDE DEF configs
  <2> QED
    BY <1>1, MergeKeepsTheValid
<1>3. id \in DeclaredIn(configs) <=> Sources(files.main, files.folder, id) # {}
  BY DeclaredHaveSources
<1>4. merged(id) = MergedOf(files, id)
  <2>1. sources_of(configs, id) = Sources(files.main, files.folder, id)
    BY SourcesAre
  <2> QED
    BY <2>1, Zenon DEF MergedFrom, MergedOf
<1> HIDE DEF configs, merged
<1> QED
  BY <1>2, <1>3, <1>4

\* Two loads with the same secrets and the same files that declare a switch agree on it.
LEMMA SameSwitch ==
  ASSUME NEW old, NEW new, NEW a, NEW b, NEW id,
         a = load_multi(old.main, old.folder, old.secrets), a.ok,
         b = load_multi(new.main, new.folder, new.secrets), b.ok,
         IsFile(old.main), IsFolder(old.folder), IsFile(new.main), IsFolder(new.folder),
         new.secrets = old.secrets, Declaring(new, id) = Declaring(old, id)
  PROVE  /\ (id \in DOMAIN a.switches) = (id \in DOMAIN b.switches)
         /\ id \in DOMAIN a.switches => b.switches[id] = a.switches[id]
<1>1. /\ \A n \in Names(old.folder) : FileAt(old.main, old.folder, n).parses
      /\ \A n \in Names(new.folder) : FileAt(new.main, new.folder, n).parses
  BY ConfigsAre
<1>2. Sources(old.main, old.folder, id) = Sources(new.main, new.folder, id)
  BY <1>1, SameSources
<1>3. MergedOf(old, id) = MergedOf(new, id)
  BY <1>2, Zenon DEF MergedOf
<1> DEFINE Holds(mem, files) ==
             /\ id \in DOMAIN mem.switches <=>
                  Sources(files.main, files.folder, id) # {} /\ MergedOf(files, id).ok
             /\ id \in DOMAIN mem.switches => mem.switches[id] = MergedOf(files, id).switch
<1>4. ASSUME NEW mem, NEW files, mem = load_multi(files.main, files.folder, files.secrets), mem.ok,
             IsFile(files.main), IsFolder(files.folder)
      PROVE  Holds(mem, files)
  BY <1>4, MemoryOf
<1> HIDE DEF Holds
<1>5. Holds(a, old) /\ Holds(b, new)
  BY <1>4, Zenon
<1> QED
  BY <1>2, <1>3, <1>5 DEF Holds

(***************************************************************************)
(* Of the rows that declare a VLAN, the best one counts.                   *)
(***************************************************************************)

\* The place of a file among the files that are read is a number,
LEMMA PlaceIsNumber ==
  ASSUME NEW n \in {MainFile} \cup Range(FolderFiles)
  PROVE  place(n) \in Nat /\ (n # MainFile => place(n) \in DOMAIN FolderFiles /\ place(n) > 0
                                              /\ FolderFiles[place(n)] = n)
<1>1. DOMAIN FolderFiles = 1..Len(FolderFiles) /\ Len(FolderFiles) \in Nat
  BY FilesAssumption
<1>2. CASE n = MainFile
  BY <1>2 DEF place
<1>3. CASE n # MainFile
  <2>1. \E i \in DOMAIN FolderFiles : FolderFiles[i] = n
    BY <1>3 DEF Range
  <2>2. place(n) = CHOOSE i \in DOMAIN FolderFiles : FolderFiles[i] = n
    BY <1>3, Zenon DEF place
  <2>3. place(n) \in DOMAIN FolderFiles /\ FolderFiles[place(n)] = n
    BY <2>1, <2>2
  <2> QED
    BY <1>1, <2>3
<1> QED
  BY <1>2, <1>3

\* and no two files have the same.
LEMMA PlacesDiffer ==
  ASSUME NEW a \in {MainFile} \cup Range(FolderFiles), NEW b \in {MainFile} \cup Range(FolderFiles),
         place(a) = place(b)
  PROVE  a = b
<1>1. CASE a # MainFile /\ b # MainFile
  BY <1>1, PlaceIsNumber
<1>2. place(MainFile) = 0
  BY DEF place
<1> QED
  BY <1>1, <1>2, PlaceIsNumber

\* The priority of a file is a number.
LEMMA PriorityIsNumber ==
  ASSUME NEW n, NEW file, IsFile(file)
  PROVE  PriorityOf(n, file) \in Nat
<1>1. CASE file.merge_priority = {}
  BY <1>1 DEF PriorityOf, default_priority
<1>2. CASE file.merge_priority # {}
  <2>1. The(file.merge_priority) \in file.merge_priority
    BY <1>2 DEF The
  <2> QED
    BY <1>2, <2>1 DEF PriorityOf, IsFile
<1> QED
  BY <1>1, <1>2

\* A row that could be a source: it has a priority, a file and an index.
IsSource(r) ==
  /\ r.merge_priority \in Nat /\ r.source_file \in {MainFile} \cup Range(FolderFiles)
  /\ r.index \in Nat

\* What a row of a file is as a source.
LEMMA SourceIs ==
  ASSUME NEW n \in {MainFile} \cup Range(FolderFiles), NEW file, IsFile(file),
         NEW i \in DOMAIN file.switches
  PROVE  /\ SourceAt(n, file, i).merge_priority = PriorityOf(n, file)
         /\ SourceAt(n, file, i).source_file = n /\ SourceAt(n, file, i).index = i
         /\ SourceAt(n, file, i).switch = expand_port_ranges(file.switches[i])
         /\ IsSource(SourceAt(n, file, i))
<1>1. i \in Nat
  BY DEF IsFile, AreRows
<1>2. PriorityOf(n, file) \in Nat
  BY PriorityIsNumber
<1> QED
  BY <1>1, <1>2 DEF SourceAt, IsSource

\* Of some sources, no two from one place of one file, BestOf precedes all others.
LEMMA BestExists ==
  ASSUME NEW R, R # {}, \A r \in R : IsSource(r),
         \A r, s \in R : r.source_file = s.source_file /\ r.index = s.index => r = s
  PROVE  BestOf(R) \in R /\ \A s \in R \ {BestOf(R)} : Precedes(BestOf(R), s)
<1> DEFINE file(r) == place(r.source_file)
<1>1. \A r \in R : r.merge_priority \in Nat /\ file(r) \in Nat /\ r.index \in Nat
  BY PlaceIsNumber DEF IsSource
<1>2. PICK p \in R : \A s \in R : ~ (s.merge_priority < p.merge_priority)
  <2> DEFINE T == {r.merge_priority : r \in R}
  <2>1. T \subseteq Nat /\ T # {}
    BY <1>1
  <2>2. PICK x \in T : \A y \in T : ~ (y < x)
    BY <2>1, LeastNumber
  <2> QED
    BY <2>2
<1> DEFINE P == {r \in R : r.merge_priority = p.merge_priority}
<1>3. PICK q \in P : \A s \in P : ~ (file(s) < file(q))
  <2> DEFINE T == {file(r) : r \in P}
  <2>1. T \subseteq Nat /\ T # {}
    BY <1>1
  <2>2. PICK x \in T : \A y \in T : ~ (y < x)
    BY <2>1, LeastNumber
  <2> QED
    BY <2>2
<1> DEFINE Q == {r \in P : file(r) = file(q)}
<1>4. PICK b \in Q : \A s \in Q : ~ (s.index < b.index)
  <2> DEFINE T == {r.index : r \in Q}
  <2>1. T \subseteq Nat /\ T # {}
    BY <1>1
  <2>2. PICK x \in T : \A y \in T : ~ (y < x)
    BY <2>1, LeastNumber
  <2> QED
    BY <2>2
<1>5. ASSUME NEW s \in R \ {b}
      PROVE  Precedes(b, s)
  <2>1. CASE s \notin P
    <3>1. b.merge_priority < s.merge_priority
      BY <1>1, <1>2, <2>1
    <3> QED
      BY <3>1 DEF Precedes
  <2>2. CASE s \in P /\ s \notin Q
    <3>1. b.merge_priority = s.merge_priority /\ file(b) < file(s)
      BY <1>1, <1>3, <2>2
    <3> QED
      BY <3>1 DEF Precedes, ReadBefore
  <2>3. CASE s \in Q
    <3>1. b.merge_priority = s.merge_priority /\ file(b) = file(s)
      BY <2>3
    <3>2. b.source_file = s.source_file
      BY <3>1, PlacesDiffer DEF IsSource
    <3>3. b.index < s.index
      BY <1>1, <1>4, <2>3, <3>2
    <3> QED
      BY <3>1, <3>2, <3>3 DEF Precedes, ReadBefore
  <2> QED
    BY <2>1, <2>2, <2>3
<1>6. \E r \in R : \A s \in R \ {r} : Precedes(r, s)
  BY <1>5
<1> QED
  BY <1>6, Zenon DEF BestOf

\* FirstWith finds a row with the key, when the list has one.
LEMMA FirstWithIs ==
  ASSUME NEW rows, DOMAIN rows \subseteq Nat, NEW field, NEW k,
         \E i \in DOMAIN rows : rows[i][field] = k
  PROVE  \E i \in DOMAIN rows : FirstWith(rows, field, k) = rows[i] /\ rows[i][field] = k
<1> DEFINE T == {i \in DOMAIN rows : rows[i][field] = k}
           i == CHOOSE i \in DOMAIN rows :
                  rows[i][field] = k /\ \A j \in DOMAIN rows : j < i => rows[j][field] # k
<1>1. T \subseteq Nat /\ T # {}
  OBVIOUS
<1>2. PICK x \in T : \A y \in T : ~ (y < x)
  BY <1>1, LeastNumber
<1>3. \E least \in DOMAIN rows :
        rows[least][field] = k /\ \A j \in DOMAIN rows : j < least => rows[j][field] # k
  BY <1>2
<1>4. i \in DOMAIN rows /\ rows[i][field] = k
  BY <1>3
<1>5. FirstWith(rows, field, k) = rows[i]
  BY Zenon DEF FirstWith
<1> QED
  BY <1>4, <1>5, Zenon

\* Each source is a row of a file, with the priority of the file and the VLANs of the row,
LEMMA SourceComesFrom ==
  ASSUME NEW m, NEW f, IsFile(m), IsFolder(f), NEW id
  PROVE  \A r \in Sources(m, f, id) :
           \E n \in Names(f) : \E i \in DOMAIN FileAt(m, f, n).switches :
             /\ FileAt(m, f, n).switches[i].id = id /\ r = SourceAt(n, FileAt(m, f, n), i)
             /\ r.source_file = n /\ r.index = i /\ IsSource(r)
             /\ r.merge_priority = PriorityOf(n, FileAt(m, f, n))
             /\ r.switch.vlans = FileAt(m, f, n).switches[i].vlans
<1> SUFFICES ASSUME NEW r \in Sources(m, f, id)
    PROVE  \E n \in Names(f) : \E i \in DOMAIN FileAt(m, f, n).switches :
             /\ FileAt(m, f, n).switches[i].id = id /\ r = SourceAt(n, FileAt(m, f, n), i)
             /\ r.source_file = n /\ r.index = i /\ IsSource(r)
             /\ r.merge_priority = PriorityOf(n, FileAt(m, f, n))
             /\ r.switch.vlans = FileAt(m, f, n).switches[i].vlans
  OBVIOUS
<1> DEFINE At(n) == FileAt(m, f, n)
<1>1. PICK n \in Names(f) : r \in {SourceAt(n, At(n), j) : j \in {k \in DOMAIN At(n).switches :
                                                                   At(n).switches[k].id = id}}
  BY Zenon DEF Sources
<1>2. PICK i \in DOMAIN At(n).switches : At(n).switches[i].id = id /\ r = SourceAt(n, At(n), i)
  BY <1>1
<1>3. n \in {MainFile} \cup Range(FolderFiles)
  BY DEF Names, IsFolder
<1>4. IsFile(At(n)) /\ IsRow(At(n).switches[i])
  <2>1. IsFile(At(n))
    BY FilesAt
  <2> QED
    BY <1>2, <2>1 DEF IsFile, AreRows
<1>5. expand_port_ranges(At(n).switches[i]).vlans = At(n).switches[i].vlans
  BY <1>4, ExpandedRow
<1> HIDE DEF At
<1>6. /\ r.source_file = n /\ r.index = i /\ IsSource(r)
      /\ r.merge_priority = PriorityOf(n, At(n))
      /\ r.switch.vlans = At(n).switches[i].vlans
  BY <1>2, <1>3, <1>4, <1>5, SourceIs
<1> QED
  BY <1>2, <1>6, Zenon DEF At

\* and each row that declares the switch is a source.
LEMMA SourceOf ==
  ASSUME NEW m, NEW f, NEW id, NEW n \in Names(f), NEW i \in DOMAIN FileAt(m, f, n).switches,
         FileAt(m, f, n).switches[i].id = id
  PROVE  SourceAt(n, FileAt(m, f, n), i) \in Sources(m, f, id)
  BY DEF Sources

\* Among some rows of one switch there is a best one.
LEMMA BestSource ==
  ASSUME NEW m, NEW f, IsFile(m), IsFolder(f), NEW id,
         NEW R, R \subseteq Sources(m, f, id), R # {}
  PROVE  BestOf(R) \in R /\ \A s \in R \ {BestOf(R)} : Precedes(BestOf(R), s)
<1>1. \A r \in R : IsSource(r)
  BY SourceComesFrom
<1>2. \A r, s \in R : r.source_file = s.source_file /\ r.index = s.index => r = s
  BY SourceComesFrom
<1> QED
  BY <1>1, <1>2, BestExists

\* RowsOf and PriorityIn of the properties, with FileAt and PriorityOf of the proof.
LEMMA RowsAre ==
  ASSUME NEW files, NEW n, NEW id
  PROVE  RowsOf(files, n, id) =
           UNION {Range(s.vlans) :
                    s \in {t \in Range(FileAt(files.main, files.folder, n).switches) : t.id = id}}
  BY Zenon DEF RowsOf, FileAt

LEMMA PrioritiesAgree ==
  ASSUME NEW files, NEW n
  PROVE  PriorityIn(files, n) = PriorityOf(n, FileAt(files.main, files.folder, n))
<1> DEFINE file == FileAt(files.main, files.folder, n)
<1>1. PriorityIn(files, n) = IF file.merge_priority # {} THEN The(file.merge_priority)
                             ELSE IF n = MainFile THEN 50 ELSE 100
  BY Zenon DEF PriorityIn, FileAt
<1>2. default_priority(KindOf(n)) = IF n = MainFile THEN 50 ELSE 100
  BY DEF default_priority, KindOf
<1> HIDE DEF file
<1>3. PriorityOf(n, file) = IF file.merge_priority = {} THEN default_priority(KindOf(n))
                            ELSE The(file.merge_priority)
  BY Zenon DEF PriorityOf
<1> QED
  BY <1>1, <1>2, <1>3 DEF file

\* The row of a merged VLAN is that of the best file that declares it.
LEMMA BestRow ==
  ASSUME NEW files, IsFile(files.main), IsFolder(files.folder), NEW id, NEW v,
         v \in DOMAIN Merged(Sources(files.main, files.folder, id), "vlans", "id")
  PROVE  \E a \in Names(files.folder) :
           /\ Merged(Sources(files.main, files.folder, id), "vlans", "id")[v] \in RowsOf(files, a, id)
           /\ \A b \in Names(files.folder) :
                Outranks(files, b, a) => \A r \in RowsOf(files, b, id) : r.id # v
<1> DEFINE At(n) == FileAt(files.main, files.folder, n)
           S == Sources(files.main, files.folder, id)
           R == {r \in S : v \in Keys(r, "vlans", "id")}
           D == BestOf(R)
           row == Merged(S, "vlans", "id")[v]
<1>1. /\ v \in UNION {Keys(r, "vlans", "id") : r \in S}
      /\ row = FirstWith(D.switch["vlans"], "id", v)
  BY DEF Merged, Declarer
<1>2. R # {} /\ R \subseteq S
  BY <1>1
<1>3. D \in R /\ \A s \in R \ {D} : Precedes(D, s)
  <2> HIDE DEF R
  <2> QED
    BY <1>2, BestSource
<1>4. PICK a \in Names(files.folder) : \E i \in DOMAIN At(a).switches :
        /\ At(a).switches[i].id = id /\ D.source_file = a /\ IsSource(D)
        /\ D.merge_priority = PriorityOf(a, At(a))
        /\ D.switch.vlans = At(a).switches[i].vlans
  <2>1. D \in S
    BY <1>2, <1>3
  <2>2. ASSUME NEW r \in S
        PROVE  \E n \in Names(files.folder) : \E i \in DOMAIN At(n).switches :
                 /\ At(n).switches[i].id = id /\ r.source_file = n /\ IsSource(r)
                 /\ r.merge_priority = PriorityOf(n, At(n))
                 /\ r.switch.vlans = At(n).switches[i].vlans
    BY SourceComesFrom
  <2> HIDE DEF S, D, At
  <2> QED
    BY <2>1, <2>2, Zenon
<1>5. PICK i \in DOMAIN At(a).switches :
        /\ At(a).switches[i].id = id /\ D.source_file = a /\ IsSource(D)
        /\ D.merge_priority = PriorityOf(a, At(a))
        /\ D.switch.vlans = At(a).switches[i].vlans
  BY <1>4
<1> DEFINE rows == At(a).switches[i].vlans
<1>6. row \in Range(rows) /\ row \in RowsOf(files, a, id)
  <2>1. v \in Keys(D, "vlans", "id")
    BY <1>3
  <2>2. \E j \in DOMAIN rows : rows[j].id = v
    <3>1. PICK r \in Range(D.switch["vlans"]) : r.id = v
      BY <2>1, Zenon DEF Keys
    <3>2. D.switch["vlans"] = rows
      BY <1>5
    <3> HIDE DEF D, rows
    <3> QED
      BY <3>1, <3>2 DEF Range
  <2>3. DOMAIN rows \subseteq Nat
    BY <1>5, FilesAt DEF IsFile, AreRows, IsRow
  <2>4. row = FirstWith(rows, "id", v)
    <3> HIDE DEF D, At, row
    <3> QED
      BY <1>1, <1>5
  <2> HIDE DEF rows, row
  <2>5. PICK j \in DOMAIN rows : row = rows[j]
    BY <2>2, <2>3, <2>4, FirstWithIs
  <2>6. row \in Range(rows)
    BY <2>5 DEF Range
  <2> HIDE DEF At
  <2> QED
    BY <1>5, <2>6, RowsAre DEF Range, rows, At
<1>7. ASSUME NEW b \in Names(files.folder), Outranks(files, b, a),
             NEW r \in RowsOf(files, b, id), r.id = v
      PROVE  FALSE
  <2>1. PICK k \in DOMAIN At(b).switches :
          At(b).switches[k].id = id /\ r \in Range(At(b).switches[k].vlans)
    <3> HIDE DEF At
    <3> QED
      BY <1>7, RowsAre DEF Range, At
  <2> DEFINE s == SourceAt(b, At(b), k)
  <2>2. s \in S
    BY <2>1, SourceOf
  <2>3. b \in {MainFile} \cup Range(FolderFiles) /\ a \in {MainFile} \cup Range(FolderFiles)
    BY DEF Names, IsFolder
  <2>4. IsFile(At(b)) /\ IsRow(At(b).switches[k])
    BY <2>1, FilesAt DEF IsFile, AreRows
  <2>5. /\ s.source_file = b /\ s.merge_priority = PriorityOf(b, At(b)) /\ IsSource(s)
        /\ s.switch.vlans = At(b).switches[k].vlans
    <3> HIDE DEF At
    <3> QED
      BY <2>1, <2>3, <2>4, SourceIs, ExpandedRow
  <2>6. s \in R
    <3> HIDE DEF S, s, At
    <3> QED
      BY <1>7, <2>1, <2>2, <2>5 DEF Keys, Range
  <2>7. PriorityIn(files, a) = D.merge_priority /\ PriorityIn(files, b) = s.merge_priority
    <3> HIDE DEF D, s
    <3> QED
      BY <1>5, <2>5, PrioritiesAgree
  <2>8. D.merge_priority \in Nat /\ s.merge_priority \in Nat /\ place(a) \in Nat /\ place(b) \in Nat
    BY <1>5, <2>3, <2>5, PlaceIsNumber DEF IsSource
  <2>9. \/ s.merge_priority < D.merge_priority
        \/ s.merge_priority = D.merge_priority /\ place(b) < place(a)
    BY <1>7, <2>7, Zenon DEF Outranks
  <2> HIDE DEF D, s, R, S
  <2>10. CASE s = D
    BY <1>5, <2>5, <2>8, <2>9, <2>10
  <2>11. CASE s # D
    <3>1. Precedes(D, s)
      BY <1>3, <2>6, <2>11
    <3> QED
      BY <1>5, <2>5, <2>8, <2>9, <3>1 DEF Precedes, ReadBefore
  <2> QED
    BY <2>10, <2>11
<1> QED
  BY <1>6, <1>7

\* What memory holds of a switch passed its checks.
LEMMA MemoryIsChecked ==
  ASSUME IInv, NEW id \in DOMAIN memory.switches,
         NEW S, S = Sources(loaded.main, loaded.folder, id),
         NEW P, P = Merged(S, "ports", "port_id"), NEW V, V = Merged(S, "vlans", "id")
  PROVE  /\ Consistent(memory.switches[id]) /\ memory.switches[id].vlans = V
         /\ memory.switches[id].ports =
              OnlyDefined([k \in DOMAIN P |-> ResolvedPort(P[k], V)], DOMAIN V \cup {1})
<1> DEFINE s == merge_single_switch(id, S)
<1>1. /\ memory = load_multi(loaded.main, loaded.folder, loaded.secrets) /\ memory.ok
      /\ IsFile(loaded.main) /\ IsFolder(loaded.folder)
  BY Zenon DEF IInv, MemoryIsLoaded
<1>2. MergedOf(loaded, id).ok /\ memory.switches[id] = MergedOf(loaded, id).switch
  BY <1>1, MemoryOf
<1>3. DOMAIN s = RowFields /\ s.vlans = V /\ s.ports = P
  BY DEF merge_single_switch, RowFields
<1>4. MergedOf(loaded, id) = Checked(s, loaded.secrets)
  BY Zenon DEF MergedOf
<1> HIDE DEF s
<1>5. /\ Consistent(Checked(s, loaded.secrets).switch)
      /\ Checked(s, loaded.secrets).switch.vlans = s.vlans
      /\ Checked(s, loaded.secrets).switch.ports =
           OnlyDefined([k \in DOMAIN s.ports |-> ResolvedPort(s.ports[k], s.vlans)],
                       DOMAIN s.vlans \cup {1})
  BY <1>2, <1>3, <1>4, CheckedIsConsistent, Zenon
<1> QED
  BY <1>2, <1>3, <1>4, <1>5, Zenon

\* The rows of merge_vlans are those of the file with the best priority that has
\* them, however the priorities, the alphabet and the order of the rows fall.
THEOREM RowsAlwaysComeFromTheBestFile == Spec => []RowsComeFromTheBestFile
<1>1. IInv => RowsComeFromTheBestFile
  <2> SUFFICES ASSUME IInv, NEW id \in DOMAIN memory.switches,
                      NEW v \in DOMAIN memory.switches[id].vlans
               PROVE  \E a \in {MainFile} \cup DOMAIN loaded.folder :
                        /\ memory.switches[id].vlans[v] \in RowsOf(loaded, a, id)
                        /\ \A b \in {MainFile} \cup DOMAIN loaded.folder :
                             Outranks(loaded, b, a) => \A r \in RowsOf(loaded, b, id) : r.id # v
    BY Zenon DEF RowsComeFromTheBestFile
  <2>1. IsFile(loaded.main) /\ IsFolder(loaded.folder)
    BY DEF IInv, MemoryIsLoaded
  <2>2. memory.switches[id].vlans = Merged(Sources(loaded.main, loaded.folder, id), "vlans", "id")
    BY MemoryIsChecked
  <2>3. v \in DOMAIN Merged(Sources(loaded.main, loaded.folder, id), "vlans", "id")
    BY <2>2
  <2> QED
    BY <2>1, <2>2, <2>3, BestRow, Zenon DEF Names
<1> QED
  BY <1>1, Invariance, PTL

\* merge_configs checks every switch by itself: a load changes a switch only when a
\* file that declares it, or a secret, has changed.
THEOREM OtherSwitchesAreNeverTouched == Spec => OtherSwitchesUntouched
<1> DEFINE Untouched ==
      \A id \in Ids :
        /\ loaded'.secrets = loaded.secrets
        /\ Declaring(loaded', id) = Declaring(loaded, id)
        => (id \in DOMAIN memory.switches) = (id \in DOMAIN memory'.switches)
           /\ (id \in DOMAIN memory.switches => memory'.switches[id] = memory.switches[id])
<1>1. IInv /\ IInv' => Untouched
  <2> SUFFICES ASSUME IInv, IInv', NEW id \in Ids, loaded'.secrets = loaded.secrets,
                      Declaring(loaded', id) = Declaring(loaded, id)
               PROVE  /\ (id \in DOMAIN memory.switches) = (id \in DOMAIN memory'.switches)
                      /\ (id \in DOMAIN memory.switches => memory'.switches[id] = memory.switches[id])
    OBVIOUS
  <2>1. /\ memory = load_multi(loaded.main, loaded.folder, loaded.secrets) /\ memory.ok
        /\ IsFile(loaded.main) /\ IsFolder(loaded.folder)
    BY DEF IInv, MemoryIsLoaded
  <2>2. /\ memory' = load_multi(loaded'.main, loaded'.folder, loaded'.secrets) /\ memory'.ok
        /\ IsFile(loaded'.main) /\ IsFolder(loaded'.folder)
    BY DEF IInv, MemoryIsLoaded
  <2> QED
    BY <2>1, <2>2, SameSwitch
<1>2. Init => IInv
  BY InvStarts
<1>3. IInv /\ [Next]_vars => IInv'
  BY InvStays
<1>4. IInv /\ [Next]_vars => [Untouched]_vars
  BY <1>1, <1>3
<1> QED
  BY <1>2, <1>3, <1>4, PTL DEF Spec, OtherSwitchesUntouched

(***************************************************************************)
(* Induction, and sequences that are put together and sorted.              *)
(***************************************************************************)

\* Induction, without an operator as a parameter.
LEMMA Induction ==
  ASSUME NEW T, 0 \in T, \A n \in Nat : n \in T => n + 1 \in T
  PROVE  \A n \in Nat : n \in T
<1> SUFFICES ASSUME Nat \ T # {} PROVE FALSE
  OBVIOUS
<1>1. PICK x \in Nat \ T : \A y \in Nat \ T : ~ (y < x)
  BY LeastNumber
<1>2. x # 0 /\ x - 1 \in Nat /\ x - 1 < x /\ (x - 1) + 1 = x
  BY <1>1
<1> QED
  BY <1>1, <1>2

\* FlattenSeq takes one list after the other.
LEMMA FlattenUnfolds ==
  ASSUME NEW s, Len(s) \in Nat \ {0}
  PROVE  \E upto : /\ upto[1] = s[1]
                   /\ \A n \in 2..Len(s) : upto[n] = upto[n - 1] \o s[n]
                   /\ FlattenSeq(s) = upto[Len(s)]
<1> DEFINE N == Len(s)
           Further(r, n) == r \o s[n]
           Upto(f, k) == /\ f = [n \in 1..k |-> f[n]] /\ (k > 0 => f[1] = s[1])
                         /\ \A n \in 2..k : f[n] = Further(f[n - 1], n)
           T == {k \in Nat : \E f : Upto(f, k)}
<1> HIDE DEF Further
<1>1. 0 \in T
  <2>1. Upto([n \in 1..0 |-> <<>>], 0)
    OBVIOUS
  <2> QED
    BY <2>1
<1>2. ASSUME NEW k \in Nat, k \in T PROVE k + 1 \in T
  <2>1. PICK f : Upto(f, k)
    BY <1>2
  <2> DEFINE g == [n \in 1..(k + 1) |->
                     IF n < k + 1 THEN f[n] ELSE IF n = 1 THEN s[1] ELSE Further(f[k], k + 1)]
  <2>2. g[1] = s[1]
    BY <2>1
  <2>3. ASSUME NEW n \in 2..(k + 1) PROVE g[n] = Further(g[n - 1], n)
    <3>1. g[n - 1] = f[n - 1]
      OBVIOUS
    <3>2. CASE n = k + 1
      BY <3>1, <3>2
    <3>3. CASE n # k + 1
      <4>1. n \in 2..k /\ g[n] = f[n]
        BY <3>3
      <4>2. f[n] = Further(f[n - 1], n)
        BY <2>1, <4>1
      <4> QED
        BY <4>1, <4>2, <3>1
    <3> QED
      BY <3>2, <3>3
  <2>4. g = [n \in 1..(k + 1) |-> g[n]]
    OBVIOUS
  <2> HIDE DEF g
  <2>5. Upto(g, k + 1)
    BY <2>2, <2>3, <2>4, Zenon
  <2> HIDE DEF Upto
  <2> QED
    BY <2>5
<1>3. N \in T
  <2> HIDE DEF T
  <2> QED
    BY <1>1, <1>2, Induction
<1>4. PICK f : Upto(f, N)
  BY <1>3
<1> HIDE DEF T
<1> DEFINE Is(r) == r = [n \in 1..N |-> IF n = 1 THEN s[n] ELSE Further(r[n - 1], n)]
<1>5. Is(f)
  <2>1. f = [n \in 1..N |-> f[n]]
    BY <1>4, Zenon
  <2>2. f[1] = s[1] /\ \A n \in 2..N : f[n] = Further(f[n - 1], n)
    BY <1>4
  <2>3. \A n \in 1..N : n = 1 \/ n \in 2..N
    OBVIOUS
  <2>4. \A n \in 1..N : f[n] = IF n = 1 THEN s[n] ELSE Further(f[n - 1], n)
    BY <2>2, <2>3
  <2> QED
    BY <2>1, <2>4, Zenon
<1> DEFINE r == CHOOSE r : Is(r)
<1>6. FlattenSeq(s) = r[N]
  BY DEF FlattenSeq, Further
<1>7. Is(r)
  <2> HIDE DEF Is
  <2> QED
    BY <1>5
<1> HIDE DEF r
<1>8. r[1] = s[1] /\ \A n \in 2..N : r[n] = Further(r[n - 1], n)
  BY <1>7
<1> QED
  BY <1>6, <1>8, Zenon DEF Further

\* The members of two lists, one after the other.
LEMMA ConcatRange ==
  ASSUME NEW T, NEW s \in Seq(T), NEW t \in Seq(T)
  PROVE  s \o t \in Seq(T) /\ Range(s \o t) = Range(s) \cup Range(t)
<1> DEFINE u == s \o t
<1>1. /\ u \in Seq(T) /\ Len(u) = Len(s) + Len(t)
      /\ \A i \in 1..(Len(s) + Len(t)) : u[i] = IF i <= Len(s) THEN s[i] ELSE t[i - Len(s)]
  BY ConcatProperties
<1>2. /\ DOMAIN u = 1..Len(u) /\ DOMAIN s = 1..Len(s) /\ DOMAIN t = 1..Len(t)
      /\ Len(s) \in Nat /\ Len(t) \in Nat
  BY <1>1, LenProperties
<1> HIDE DEF u
<1>3. \A i \in DOMAIN s : u[i] = s[i] /\ i \in DOMAIN u
  BY <1>1, <1>2
<1>4. \A i \in DOMAIN t : u[Len(s) + i] = t[i] /\ Len(s) + i \in DOMAIN u
  BY <1>1, <1>2
<1>5. \A i \in DOMAIN u : (i \in DOMAIN s /\ u[i] = s[i])
                          \/ (i - Len(s) \in DOMAIN t /\ u[i] = t[i - Len(s)])
  BY <1>1, <1>2
<1>6. Range(u) \subseteq Range(s) \cup Range(t)
  BY <1>5, Zenon DEF Range
<1>7. Range(s) \subseteq Range(u) /\ Range(t) \subseteq Range(u)
  BY <1>3, <1>4 DEF Range
<1> QED
  BY <1>1, <1>6, <1>7 DEF u

\* FlattenSeq has the members of all the lists.
LEMMA FlattenIs ==
  ASSUME NEW T, NEW s \in Seq(Seq(T))
  PROVE  /\ FlattenSeq(s) \in Seq(T)
         /\ Range(FlattenSeq(s)) = UNION {Range(s[i]) : i \in DOMAIN s}
<1>0. Len(s) \in Nat /\ DOMAIN s = 1..Len(s) /\ \A i \in 1..Len(s) : s[i] \in Seq(T)
  BY LenProperties, ElementOfSeq
<1>1. CASE Len(s) = 0
  <2>1. s = <<>>
    BY <1>1, EmptySeq
  <2>2. FlattenSeq(s) = <<>>
    BY <1>1, <2>1 DEF FlattenSeq
  <2>3. Range(<<>>) = {}
    BY DEF Range
  <2> QED
    BY <1>0, <1>1, <2>2, <2>3
<1>2. CASE Len(s) # 0
  <2>1. PICK f : /\ f[1] = s[1]
                 /\ \A n \in 2..Len(s) : f[n] = f[n - 1] \o s[n]
                 /\ FlattenSeq(s) = f[Len(s)]
    BY <1>0, <1>2, FlattenUnfolds
  <2> DEFINE N == {n \in Nat : n \in 1..Len(s) =>
                      f[n] \in Seq(T) /\ Range(f[n]) = UNION {Range(s[i]) : i \in 1..n}}
  <2>2. 0 \in N
    OBVIOUS
  <2>3. ASSUME NEW n \in Nat, n \in N PROVE n + 1 \in N
    <3> SUFFICES ASSUME n + 1 \in 1..Len(s)
                 PROVE  /\ f[n + 1] \in Seq(T)
                        /\ Range(f[n + 1]) = UNION {Range(s[i]) : i \in 1..(n + 1)}
      OBVIOUS
    <3>1. CASE n = 0
      <4>1. 1..(n + 1) = {1} /\ 1 \in 1..Len(s)
        BY <3>1
      <4> QED
        BY <1>0, <2>1, <3>1, <4>1
    <3>2. CASE n # 0
      <4>1. n + 1 \in 2..Len(s) /\ (n + 1) - 1 = n /\ n \in 1..Len(s)
        BY <1>0, <3>2
      <4>2. f[n + 1] = f[n] \o s[n + 1]
        BY <2>1, <4>1
      <4>3. f[n] \in Seq(T) /\ Range(f[n]) = UNION {Range(s[i]) : i \in 1..n}
        BY <2>3, <4>1
      <4>4. s[n + 1] \in Seq(T)
        BY <1>0
      <4>5. f[n + 1] \in Seq(T) /\ Range(f[n + 1]) = Range(f[n]) \cup Range(s[n + 1])
        BY <4>2, <4>3, <4>4, ConcatRange
      <4>6. 1..(n + 1) = 1..n \cup {n + 1}
        OBVIOUS
      <4> QED
        BY <4>3, <4>5, <4>6
    <3> QED
      BY <3>1, <3>2
  <2>4. \A n \in Nat : n \in N
    <3> HIDE DEF N
    <3> QED
      BY <2>2, <2>3, Induction
  <2>5. Len(s) \in 1..Len(s)
    BY <1>0, <1>2
  <2>6. Len(s) \in N
    BY <1>0, <2>4
  <2> QED
    BY <1>0, <2>1, <2>5, <2>6
<1> QED
  BY <1>1, <1>2

\* In a finite set of numbers there is one with each number of smaller ones.
LEMMA Ranked ==
  ASSUME NEW S, S \subseteq Nat, IsFiniteSet(S), NEW i \in 1..Cardinality(S)
  PROVE  \E x \in S : Cardinality({y \in S : y < x}) = i - 1
<1> DEFINE Below(R, x) == {y \in R : y < x}
           N == {n \in Nat : \A R \in SUBSET Nat : IsFiniteSet(R) /\ Cardinality(R) = n =>
                               \A j \in 1..n : \E x \in R : Cardinality(Below(R, x)) = j - 1}
<1>1. 0 \in N
  OBVIOUS
<1>2. ASSUME NEW n \in Nat, n \in N PROVE n + 1 \in N
  <2> SUFFICES ASSUME NEW R \in SUBSET Nat, IsFiniteSet(R), Cardinality(R) = n + 1,
                      NEW j \in 1..(n + 1)
               PROVE  \E x \in R : Cardinality(Below(R, x)) = j - 1
    OBVIOUS
  <2>1. R # {}
    BY FS_EmptySet
  <2>2. PICK x \in R : \A y \in R : ~ (y < x)
    BY <2>1, LeastNumber
  <2> DEFINE Q == R \ {x}
  <2>3. IsFiniteSet(Q) /\ Cardinality(Q) = n /\ Q \in SUBSET Nat
    <3>1. /\ IsFiniteSet(R \ {x})
          /\ Cardinality(R \ {x}) = IF x \in R THEN Cardinality(R) - 1 ELSE Cardinality(R)
      BY FS_RemoveElement, Zenon
    <3> QED
      BY <3>1
  <2>4. CASE j = 1
    <3>1. Below(R, x) = {}
      BY <2>2
    <3>2. Cardinality(Below(R, x)) = 0
      BY <3>1, FS_EmptySet, Zenon
    <3> QED
      BY <2>4, <3>2
  <2>5. CASE j # 1
    <3>1. j - 1 \in 1..n
      BY <2>5
    <3>2. PICK z \in Q : Cardinality(Below(Q, z)) = (j - 1) - 1
      BY <1>2, <2>3, <3>1
    <3>3. Below(R, z) = Below(Q, z) \cup {x} /\ x \notin Below(Q, z)
      BY <2>2
    <3>4. IsFiniteSet(Below(Q, z))
      BY <2>3, FS_Subset
    <3>5. Cardinality(Below(R, z)) = Cardinality(Below(Q, z)) + 1
      <4> HIDE DEF Below
      <4> QED
        BY <3>3, <3>4, FS_AddElement
    <3>6. Cardinality(Below(R, z)) = j - 1 /\ z \in R
      <4>1. ((j - 1) - 1) + 1 = j - 1
        OBVIOUS
      <4> HIDE DEF Below
      <4> QED
        BY <3>2, <3>5, <4>1
    <3> QED
      BY <3>6, Zenon
  <2> QED
    BY <2>4, <2>5
<1>3. \A n \in Nat : n \in N
  <2> HIDE DEF N
  <2> QED
    BY <1>1, <1>2, Induction
<1>4. Cardinality(S) \in N
  BY <1>3, FS_CardinalityType
<1> QED
  BY <1>4

\* Sorted has every member of the set, and no other.
LEMMA SortedIs ==
  ASSUME NEW S, S \subseteq Nat, IsFiniteSet(S)
  PROVE  /\ DOMAIN Sorted(S) = 1..Cardinality(S) /\ Cardinality(S) \in Nat
         /\ \A i \in DOMAIN Sorted(S) : Sorted(S)[i] \in S
         /\ \A x \in S : \E i \in DOMAIN Sorted(S) : Sorted(S)[i] = x
<1> DEFINE Below(x) == {y \in S : y < x}
           n == Cardinality(S)
<1>1. n \in Nat /\ \A x \in S : IsFiniteSet(Below(x)) /\ Cardinality(Below(x)) \in Nat
  <2>1. \A x \in S : IsFiniteSet(Below(x))
    BY FS_Subset
  <2> QED
    BY <2>1, FS_CardinalityType
<1>2. DOMAIN Sorted(S) = 1..n
  BY DEF Sorted
<1>3. ASSUME NEW i \in 1..n
      PROVE  Sorted(S)[i] \in S /\ Cardinality(Below(Sorted(S)[i])) = i - 1
  <2>1. \E x \in S : Cardinality(Below(x)) = i - 1
    BY Ranked
  <2>2. Sorted(S)[i] = CHOOSE x \in S : Cardinality(Below(x)) = i - 1
    BY DEF Sorted
  <2> QED
    BY <2>1, <2>2
<1>4. ASSUME NEW x \in S, NEW z \in S, x < z
      PROVE  Cardinality(Below(x)) < Cardinality(Below(z))
  <2>1. x \in Nat /\ z \in Nat
    OBVIOUS
  <2>2. Below(x) \cup {x} \in SUBSET Below(z) /\ x \notin Below(x)
    <3>1. \A y \in Nat : y < x => y < z
      BY <1>4, <2>1
    <3>2. ~ (x < x)
      BY <2>1
    <3> QED
      BY <1>4, <3>1, <3>2
  <2>3. Cardinality(Below(x) \cup {x}) = Cardinality(Below(x)) + 1
    BY <1>1, <2>2, FS_AddElement
  <2>4. Cardinality(Below(x) \cup {x}) <= Cardinality(Below(z))
    BY <1>1, <2>2, FS_Subset
  <2> QED
    BY <1>1, <2>3, <2>4
<1>5. ASSUME NEW x \in S PROVE \E i \in 1..n : Sorted(S)[i] = x
  <2>1. Below(x) \in SUBSET (S \ {x})
    BY <1>5
  <2>2. IsFiniteSet(S \ {x}) /\ Cardinality(S \ {x}) = n - 1
    BY FS_RemoveElement
  <2>3. Cardinality(Below(x)) <= n - 1
    <3>1. Cardinality(Below(x)) <= Cardinality(S \ {x})
      BY <2>1, <2>2, FS_Subset, Zenon
    <3> QED
      BY <2>2, <3>1
  <2> DEFINE i == Cardinality(Below(x)) + 1
  <2>4. i \in 1..n
    <3> HIDE DEF Below
    <3>1. Cardinality(Below(x)) \in Nat
      BY <1>1
    <3> HIDE DEF n
    <3> QED
      BY <1>1, <2>3, <3>1
  <2> DEFINE z == Sorted(S)[i]
  <2>5. z \in S /\ Cardinality(Below(z)) = Cardinality(Below(x))
    BY <1>1, <1>3, <2>4
  <2>6. ~ (x < z) /\ ~ (z < x)
    <3> HIDE DEF z, Below
    <3> QED
      BY <1>1, <1>4, <2>5
  <2>7. z = x
    <3> HIDE DEF z
    <3> QED
      BY <2>5, <2>6
  <2> QED
    BY <2>4, <2>7
<1> QED
  BY <1>1, <1>2, <1>3, <1>5

\* A list of the values of a function, in the order of the keys.
LEMMA InOrderIs ==
  ASSUME NEW f, DOMAIN f \subseteq Nat, IsFiniteSet(DOMAIN f)
  PROVE  /\ InOrder(f) \in Seq({f[k] : k \in DOMAIN f})
         /\ Range(InOrder(f)) = {f[k] : k \in DOMAIN f}
<1> DEFINE keys == Sorted(DOMAIN f)
           n == Cardinality(DOMAIN f)
           V == {f[k] : k \in DOMAIN f}
<1>1. /\ DOMAIN keys = 1..n /\ n \in Nat
      /\ \A i \in 1..n : keys[i] \in DOMAIN f
      /\ \A x \in DOMAIN f : \E i \in 1..n : keys[i] = x
  BY SortedIs
<1> HIDE DEF keys, n
<1>2. InOrder(f) = [i \in 1..n |-> f[keys[i]]]
  BY <1>1 DEF InOrder, keys
<1>3. InOrder(f) \in [1..n -> V]
  BY <1>1, <1>2
<1>4. InOrder(f) \in Seq(V)
  <2> HIDE DEF V
  <2> QED
    BY <1>1, <1>3
<1>5. Range(InOrder(f)) = V
  BY <1>1, <1>2 DEF Range
<1> QED
  BY <1>4, <1>5

\* A list has the places 1 to its length,
LEMMA ListIs ==
  ASSUME NEW l, IsList(l)
  PROVE  /\ DOMAIN l = 1..Len(l) /\ Len(l) \in Nat /\ DOMAIN l \subseteq Nat
         /\ IsFiniteSet(DOMAIN l) /\ l = [i \in DOMAIN l |-> l[i]]
<1>1. DOMAIN l = 1..Len(l) /\ Len(l) \in Nat /\ l = [i \in DOMAIN l |-> l[i]]
  BY LenProperties DEF IsList
<1>2. 1 \in Int /\ Len(l) \in Int
  BY <1>1
<1>3. IsFiniteSet(DOMAIN l)
  BY <1>1, <1>2, FS_Interval
<1> QED
  BY <1>1, <1>3

\* is one with other values at them,
LEMMA MappedList ==
  ASSUME NEW l, IsList(l), NEW g, g = [i \in DOMAIN l |-> g[i]]
  PROVE  IsList(g)
<1>1. DOMAIN l = 1..Len(l) /\ Len(l) \in Nat
  BY ListIs
<1>2. \A i \in DOMAIN l : g[i] \in Range(g)
  BY DEF Range
<1> QED
  BY <1>1, <1>2 DEF IsList

\* as is a finite set that is sorted,
LEMMA SortedIsList ==
  ASSUME NEW S, IsFiniteSet(S)
  PROVE  IsList(Sorted(S))
<1> DEFINE n == Cardinality(S)
           nth(i) == CHOOSE x \in S : Cardinality({y \in S : y < x}) = i - 1
           l == [i \in 1..n |-> nth(i)]
<1>1. n \in Nat
  BY FS_CardinalityType
<1>2. Sorted(S) = l
  BY DEF Sorted
<1> HIDE DEF n, nth
<1>3. \A i \in 1..n : l[i] \in Range(l)
  BY DEF Range
<1>4. IsList(l)
  BY <1>1, <1>3 DEF IsList
<1> QED
  BY <1>2, <1>4, Zenon

\* as are the values of a function in the order of its keys,
LEMMA InOrderIsList ==
  ASSUME NEW f, DOMAIN f \subseteq Nat, IsFiniteSet(DOMAIN f)
  PROVE  IsList(InOrder(f)) /\ Range(InOrder(f)) = {f[k] : k \in DOMAIN f}
BY InOrderIs DEF IsList

\* and these values, when it is one itself, are in their order.
LEMMA ListInOrder ==
  ASSUME NEW l, IsList(l)
  PROVE  InOrder(l) = l
<1> DEFINE n == Len(l)
           S == 1..n
           keys == Sorted(S)
<1>1. DOMAIN l = S /\ n \in Nat /\ l = [i \in DOMAIN l |-> l[i]]
  BY ListIs
<1>2. \A k \in Nat : Cardinality(1..k) = k
  <2> SUFFICES ASSUME NEW k \in Nat PROVE Cardinality(1..k) = k
    OBVIOUS
  <2>1. 1 \in Int /\ k \in Int
    OBVIOUS
  <2>2. Cardinality(1..k) = IF 1 > k THEN 0 ELSE k - 1 + 1
    BY <2>1, FS_Interval
  <2> QED
    BY <2>2
<1>3. \A x \in S : Cardinality({y \in S : y < x}) = x - 1
  <2> SUFFICES ASSUME NEW x \in S PROVE Cardinality({y \in S : y < x}) = x - 1
    OBVIOUS
  <2>1. {y \in S : y < x} = 1..(x - 1) /\ x - 1 \in Nat
    BY <1>1
  <2> QED
    BY <1>2, <2>1
<1>4. DOMAIN keys = S
  BY <1>1, <1>2 DEF Sorted
<1>5. ASSUME NEW i \in S PROVE keys[i] = i
  <2> DEFINE Has(x) == Cardinality({y \in S : y < x}) = i - 1
  <2>1. keys[i] = CHOOSE x \in S : Has(x)
    BY <1>1, <1>2 DEF Sorted
  <2>2. \A x \in S : Has(x) <=> x = i
    BY <1>1, <1>3
  <2> HIDE DEF Has
  <2> QED
    BY <2>1, <2>2
<1>6. InOrder(l) = [i \in S |-> l[keys[i]]]
  BY <1>1, <1>4 DEF InOrder
<1> QED
  BY <1>1, <1>5, <1>6

\* Among keeps what is in the set, and a list of nothing else as it is.
LEMMA AmongIs ==
  ASSUME NEW l, IsList(l), NEW S
  PROVE  /\ IsList(Among(l, S)) /\ Range(Among(l, S)) = Range(l) \cap S
         /\ Range(l) \subseteq S => Among(l, S) = l
<1> DEFINE K == {j \in DOMAIN l : l[j] \in S}
           f == [i \in K |-> l[i]]
<1>1. Among(l, S) = InOrder(f)
  BY DEF Among
<1>2. DOMAIN f = K /\ K \subseteq DOMAIN l
  OBVIOUS
<1>3. K \subseteq Nat /\ IsFiniteSet(K)
  BY <1>2, ListIs, FS_Subset
<1>4. {f[k] : k \in DOMAIN f} = Range(l) \cap S
  BY DEF Range
<1>5. Range(l) \subseteq S => f = l
  <2>1. l = [i \in DOMAIN l |-> l[i]]
    BY ListIs
  <2>2. Range(l) \subseteq S => K = DOMAIN l
    BY DEF Range
  <2> QED
    BY <2>1, <2>2
<1> HIDE DEF f, K
<1>6. IsList(InOrder(f)) /\ Range(InOrder(f)) = Range(l) \cap S
  BY <1>2, <1>3, <1>4, InOrderIsList
<1> QED
  BY <1>1, <1>5, <1>6, ListInOrder

\* Firsts has no value the list has not.
LEMMA FirstsIs ==
  ASSUME NEW l, IsList(l)
  PROVE  /\ IsList(Firsts(l))
         /\ \A x \in Range(Firsts(l)) : \E i \in DOMAIN l : x = The(l[i])
<1> DEFINE isFirst(i) == l[i] # {} /\ \A j \in DOMAIN l : j < i => l[j] # l[i]
           K == {j \in DOMAIN l : isFirst(j)}
           f == [i \in K |-> The(l[i])]
<1>1. Firsts(l) = InOrder(f)
  BY DEF Firsts
<1> HIDE DEF isFirst
<1>2. DOMAIN f = K /\ K \subseteq DOMAIN l
  OBVIOUS
<1>3. K \subseteq Nat /\ IsFiniteSet(K)
  BY <1>2, ListIs, FS_Subset
<1>4. \A x \in {f[k] : k \in DOMAIN f} : \E i \in DOMAIN l : x = The(l[i])
  OBVIOUS
<1> HIDE DEF f, K
<1>5. IsList(InOrder(f)) /\ Range(InOrder(f)) = {f[k] : k \in DOMAIN f}
  BY <1>2, <1>3, InOrderIsList
<1> QED
  BY <1>1, <1>4, <1>5

(***************************************************************************)
(* What an overlay says is expanded, written and read again.               *)
(***************************************************************************)

\* A list of segments is a list of numbers.
LEMMA ParsedPorts ==
  ASSUME NEW segments \in Segments
  PROVE  parse_port_id(segments) \in Seq(Nat)
<1> DEFINE piece(i) == [k \in 1..(segments[i].last + 1 - segments[i].first) |->
                          segments[i].first + k - 1]
           pieces == [i \in DOMAIN segments |-> piece(i)]
<1>1. DOMAIN segments = 1..Len(segments) /\ Len(segments) \in Nat
  BY LenProperties DEF Segments
<1>2. ASSUME NEW i \in DOMAIN segments PROVE piece(i) \in Seq(Nat)
  <2>1. segments[i].first \in Nat /\ segments[i].last \in Nat
    <3>1. segments[i] \in [first : Nat, last : Nat, mixed : BOOLEAN]
      BY <1>1, ElementOfSeq, Zenon DEF Segments
    <3> QED
      BY <3>1
  <2> DEFINE a == segments[i].first
             n == segments[i].last + 1 - segments[i].first
  <2>2. a \in Nat /\ n \in Int
    BY <2>1
  <2> HIDE DEF a, n
  <2> DEFINE p == [k \in 1..n |-> a + k - 1]
  <2>3. p \in Seq(Nat)
    <3>1. CASE n >= 0
      <4>1. \A k \in 1..n : a + k - 1 \in Nat
        BY <2>2
      <4> QED
        BY <2>2, <3>1, <4>1
    <3>2. CASE n < 0
      <4>1. 1..n = 1..0 /\ \A k \in 1..n : FALSE
        BY <2>2, <3>2
      <4>2. p \in [1..0 -> Nat]
        BY <4>1
      <4> HIDE DEF p
      <4> QED
        BY <4>2
    <3> QED
      BY <2>2, <3>1, <3>2
  <2> QED
    BY <2>3 DEF a, n
<1> HIDE DEF piece
<1>3. pieces \in Seq(Seq(Nat))
  BY <1>1, <1>2
<1>4. parse_port_id(segments) = FlattenSeq(pieces)
  BY Zenon DEF parse_port_id, piece
<1> HIDE DEF pieces
<1> QED
  BY <1>3, <1>4, FlattenIs

\* A single port is parsed as itself.
LEMMA ParsedSegment ==
  ASSUME NEW n \in Nat
  PROVE  Segment(n) \in Segments /\ parse_port_id(Segment(n)) = <<n>>
<1> DEFINE segments == Segment(n)
           pieces == [i \in DOMAIN segments |->
                        [k \in 1..(segments[i].last + 1 - segments[i].first) |->
                           segments[i].first + k - 1]]
<1>1. segments \in Segments
  BY DEF Segment, Segments
<1>2. DOMAIN segments = 1..1 /\ segments[1].first = n /\ segments[1].last = n
  BY DEF Segment
<1>3. parse_port_id(segments) = FlattenSeq(pieces)
  BY Zenon DEF parse_port_id
<1>4. Len(pieces) = 1 /\ pieces[1] = [k \in 1..(n + 1 - n) |-> n + k - 1]
  <2> HIDE DEF segments
  <2> QED
    BY <1>2
<1>5. FlattenSeq(pieces) = pieces[1]
  <2> HIDE DEF pieces
  <2>1. PICK f : f[1] = pieces[1] /\ FlattenSeq(pieces) = f[Len(pieces)]
    <3>1. Len(pieces) \in Nat \ {0}
      BY <1>4
    <3> QED
      BY <3>1, FlattenUnfolds, Zenon
  <2> QED
    BY <1>4, <2>1
<1>6. [k \in 1..(n + 1 - n) |-> n + k - 1] = <<n>>
  <2>1. n + 1 - n = 1 /\ n + 1 - 1 = n
    OBVIOUS
  <2> QED
    BY <2>1
<1> QED
  BY <1>1, <1>3, <1>4, <1>5, <1>6, Zenon

\* The ports of an expanded row: every number of every entry, with what the entry says.
HasListedPorts(row) ==
  /\ IsRow(row) /\ row.ports \in Seq(Range(row.ports))
  /\ \A p \in Range(row.ports) : p.port_id \in Segments /\ IsList(p.tagged_vlans)

\* Each entry of an expanded row is one number of an entry of the row.
LEMMA ExpandedPorts ==
  ASSUME NEW row, HasListedPorts(row)
  PROVE  /\ expand_port_ranges(row).ports \in Seq(Range(expand_port_ranges(row).ports))
         /\ \A e : e \in Range(expand_port_ranges(row).ports) <=>
                     \E i \in DOMAIN row.ports :
                       \E n \in Range(parse_port_id(row.ports[i].port_id)) :
                         e = DeserializedPort(row.ports[i], n)
         /\ \A i \in DOMAIN row.ports : parse_port_id(row.ports[i].port_id) \in Seq(Nat)
<1> DEFINE ports == row.ports
           ids(i) == parse_port_id(ports[i].port_id)
           piece(i) == [k \in DOMAIN ids(i) |-> DeserializedPort(ports[i], ids(i)[k])]
           pieces == [i \in DOMAIN ports |-> piece(i)]
           E == expand_port_ranges(row).ports
           T == UNION {Range(piece(i)) : i \in DOMAIN ports}
<1>1. E = FlattenSeq(pieces)
  <2>1. PICK q : expand_port_ranges(row) = [row EXCEPT !.ports = FlattenSeq(pieces), !.port_mirrors = q]
    BY Zenon DEF expand_port_ranges
  <2> HIDE DEF pieces, E
  <2>2. expand_port_ranges(row).ports = FlattenSeq(pieces)
    BY <2>1 DEF HasListedPorts, IsRow, RowFields
  <2> QED
    BY <2>2 DEF E
<1>2. DOMAIN ports = 1..Len(ports) /\ Len(ports) \in Nat
  BY LenProperties DEF HasListedPorts
<1>3. ASSUME NEW i \in DOMAIN ports PROVE ids(i) \in Seq(Nat)
  BY ParsedPorts DEF HasListedPorts, Range
<1>4. ASSUME NEW i \in DOMAIN ports PROVE piece(i) \in Seq(T)
  <2>1. DOMAIN ids(i) = 1..Len(ids(i)) /\ Len(ids(i)) \in Nat
    BY <1>3, LenProperties
  <2>2. Range(piece(i)) \subseteq T
    OBVIOUS
  <2>3. piece(i) \in [DOMAIN ids(i) -> Range(piece(i))]
    BY DEF Range
  <2>4. piece(i) \in [1..Len(ids(i)) -> T]
    <3> HIDE DEF piece, ids, T
    <3> QED
      BY <2>1, <2>2, <2>3
  <2> HIDE DEF piece, ids, T
  <2> QED
    BY <2>1, <2>4
<1> HIDE DEF ports
<1>5. pieces \in Seq(Seq(T))
  <2> HIDE DEF piece, T
  <2> QED
    BY <1>2, <1>4
<1>6. E \in Seq(T) /\ Range(E) = UNION {Range(pieces[i]) : i \in DOMAIN pieces}
  <2> HIDE DEF pieces, T, E
  <2> QED
    BY <1>1, <1>5, FlattenIs
<1>7. Range(E) = T
  <2> HIDE DEF piece, E
  <2> QED
    BY <1>6
<1>8. \A e : e \in T <=> \E i \in DOMAIN ports : \E n \in Range(ids(i)) : e = DeserializedPort(ports[i], n)
  <2>1. \A i \in DOMAIN ports : \A e : e \in Range(piece(i)) <=>
          \E n \in Range(ids(i)) : e = DeserializedPort(ports[i], n)
    BY DEF Range
  <2> HIDE DEF piece, ids
  <2> QED
    BY <2>1
<1> HIDE DEF T, E
<1>9. E \in Seq(Range(E))
  BY <1>6, <1>7
<1> QED
  BY <1>3, <1>7, <1>8, <1>9, Zenon DEF E, ports

\* The image of a finite set is finite.
LEMMA FiniteImage ==
  ASSUME NEW S, IsFiniteSet(S), NEW f, S \subseteq DOMAIN f
  PROVE  IsFiniteSet({f[x] : x \in S})
<1> DEFINE g == [x \in S |-> f[x]]
           T == {f[x] : x \in S}
<1>1. g \in [S -> T] /\ \A t \in T : \E x \in S : g[x] = t
  OBVIOUS
<1> HIDE DEF g, T
<1>2. g \in Surjection(S, T)
  BY <1>1 DEF Surjection
<1>3. IsFiniteSet(T)
  BY <1>2, FS_Surjection
<1> QED
  BY <1>3 DEF T

\* The row of a list that has a key,
LEMMA KeyedRow ==
  ASSUME NEW rows, DOMAIN rows \subseteq Nat, NEW field, NEW k \in DOMAIN Keyed(rows, field)
  PROVE  /\ Keyed(rows, field)[k] = FirstWith(rows, field, k)
         /\ Keyed(rows, field)[k][field] = k
         /\ Keyed(rows, field)[k] \in Range(rows)
<1>1. Keyed(rows, field) = [j \in {r[field] : r \in Range(rows)} |-> FirstWith(rows, field, j)]
  BY DEF Keyed
<1>2. PICK r \in Range(rows) : r[field] = k
  BY <1>1
<1>3. \E i \in DOMAIN rows : rows[i][field] = k
  BY <1>2 DEF Range
<1>4. PICK i \in DOMAIN rows : FirstWith(rows, field, k) = rows[i] /\ rows[i][field] = k
  BY <1>3, FirstWithIs
<1>5. rows[i] \in Range(rows)
  BY DEF Range
<1> QED
  BY <1>1, <1>4, <1>5

\* and which keys there are.
LEMMA KeyedIs ==
  ASSUME NEW rows, DOMAIN rows \subseteq Nat, NEW field
  PROVE  /\ DOMAIN Keyed(rows, field) = {rows[i][field] : i \in DOMAIN rows}
         /\ \A k \in DOMAIN Keyed(rows, field) : Keyed(rows, field)[k] \in Range(rows)
<1>1. /\ DOMAIN Keyed(rows, field) = {r[field] : r \in Range(rows)}
      /\ {r[field] : r \in Range(rows)} = {rows[i][field] : i \in DOMAIN rows}
  BY DEF Keyed, Range
<1>2. \A k \in DOMAIN Keyed(rows, field) : Keyed(rows, field)[k] \in Range(rows)
  BY KeyedRow
<1> QED
  BY <1>1, <1>2

\* A port is a number with lists of VLANs.
IsPort(p) ==
  /\ {"port_id", "tagged_vlans", "tagged_vlan_refs"} \subseteq DOMAIN p
  /\ p.port_id \in Nat /\ IsList(p.tagged_vlans) /\ IsList(p.tagged_vlan_refs)

\* The ports of a configuration are finitely many.
PortsTyped(ports) ==
  /\ DOMAIN ports \subseteq Nat /\ IsFiniteSet(DOMAIN ports)
  /\ \A n \in DOMAIN ports : IsPort(ports[n])

IsConfig(config) == DOMAIN config = RowFields /\ PortsTyped(config.ports)

\* The same ports, with other VLANs.
LEMMA SamePorts ==
  ASSUME NEW a, PortsTyped(a), NEW b, DOMAIN b = DOMAIN a, \A n \in DOMAIN a : IsPort(b[n])
  PROVE  PortsTyped(b)
  BY DEF PortsTyped

\* A port with its names looked up is a port,
LEMMA ResolvedIsPort ==
  ASSUME NEW p, IsPort(p), NEW vlans
  PROVE  IsPort(ResolvedPort(p, vlans))
<1> DEFINE refs == p.tagged_vlan_refs
           options == [i \in DOMAIN refs |-> Referenced(refs[i], vlans)]
           q == ResolvedPort(p, vlans)
<1>1. IsList(options)
  BY MappedList DEF IsPort
<1> HIDE DEF options
<1>2. IsList(Firsts(options))
  BY <1>1, FirstsIs
<1>3. q.tagged_vlans = IF refs = <<>> THEN p.tagged_vlans ELSE Firsts(options)
  BY DEF ResolvedPort, options
<1>4. /\ q.port_id = p.port_id /\ q.tagged_vlan_refs = <<>>
      /\ {"port_id", "tagged_vlans", "tagged_vlan_refs"} \subseteq DOMAIN q
  BY DEF ResolvedPort
<1>5. IsList(<<>>)
  BY DEF IsList
<1> HIDE DEF q
<1> QED
  BY <1>2, <1>3, <1>4, <1>5 DEF IsPort, q

\* and so is one with other tagged VLANs, or with anything else changed.
LEMMA ChangedIsPort ==
  ASSUME NEW p, IsPort(p), NEW q, DOMAIN q = DOMAIN p, q.port_id = p.port_id,
         IsList(q.tagged_vlans), q.tagged_vlan_refs \in {p.tagged_vlan_refs, <<>>}
  PROVE  IsPort(q)
<1>1. IsList(<<>>)
  BY DEF IsList
<1> QED
  BY <1>1 DEF IsPort

\* A port with those of its tagged VLANs that are in a set.
LEMMA NarrowedPort ==
  ASSUME NEW p, IsPort(p), NEW D, NEW q, q = [p EXCEPT !.tagged_vlans = Among(@, D)]
  PROVE  /\ IsPort(q) /\ q.tagged_vlans = Among(p.tagged_vlans, D)
         /\ "vlan" \in DOMAIN p => q.vlan = p.vlan
<1> DEFINE l == Among(p.tagged_vlans, D)
<1>1. IsList(l)
  BY AmongIs DEF IsPort
<1> HIDE DEF l
<1>2. /\ DOMAIN q = DOMAIN p /\ q.port_id = p.port_id /\ q.tagged_vlans = l
      /\ q.tagged_vlan_refs = p.tagged_vlan_refs /\ ("vlan" \in DOMAIN p => q.vlan = p.vlan)
  BY DEF IsPort, l
<1>3. IsPort(q)
  BY <1>1, <1>2, ChangedIsPort
<1> QED
  BY <1>2, <1>3 DEF l

\* A configuration with other ports,
LEMMA OtherPorts ==
  ASSUME NEW s, IsConfig(s), NEW x, PortsTyped(x)
  PROVE  IsConfig([s EXCEPT !.ports = x])
  BY DEF IsConfig, RowFields

\* or with anything else changed.
LEMMA OtherField ==
  ASSUME NEW s, IsConfig(s), NEW x, NEW field, field # "ports"
  PROVE  IsConfig([s EXCEPT ![field] = x])
  BY DEF IsConfig, RowFields

\* Looking up the VLAN names leaves the ports what they are,
LEMMA ResolveKeepsPorts ==
  ASSUME NEW s, IsConfig(s), NEW strict
  PROVE  IsConfig(resolve_vlan_names(s, strict).switch)
<1> DEFINE stuck == {n \in DOMAIN s.ports : UnknownNames(s.ports[n], s.vlans, strict) # {}}
           done(n) == \A m \in stuck : n < m
           P == [n \in DOMAIN s.ports |->
                   IF done(n) THEN ResolvedPort(s.ports[n], s.vlans) ELSE s.ports[n]]
           ambiguous == find_ambiguous_vlan_name(s.vlans) # {}
<1>1. resolve_vlan_names(s, strict) =
        IF ambiguous THEN [ok |-> FALSE, switch |-> s]
        ELSE [ok |-> stuck = {}, switch |-> [s EXCEPT !.ports = P]]
  BY Zenon DEF resolve_vlan_names
<1>2. PortsTyped(P)
  <2>1. PortsTyped(s.ports) /\ DOMAIN P = DOMAIN s.ports
    BY DEF IsConfig
  <2>2. \A n \in DOMAIN s.ports : IsPort(s.ports[n]) /\ IsPort(ResolvedPort(s.ports[n], s.vlans))
    BY <2>1, ResolvedIsPort DEF PortsTyped
  <2> HIDE DEF done
  <2>3. \A n \in DOMAIN s.ports : IsPort(P[n])
    BY <2>2
  <2> HIDE DEF P
  <2> QED
    BY <2>1, <2>3, SamePorts
<1> HIDE DEF P, ambiguous, stuck
<1>3. IsConfig([s EXCEPT !.ports = P])
  BY <1>2, OtherPorts
<1>4. resolve_vlan_names(s, strict).switch = IF ambiguous THEN s ELSE [s EXCEPT !.ports = P]
  <2> DEFINE t == [s EXCEPT !.ports = P]
  <2> HIDE DEF t
  <2> QED
    BY <1>1 DEF t
<1> QED
  BY <1>3, <1>4

\* and so does dropping the VLANs nobody defines,
LEMMA FilterKeepsPorts ==
  ASSUME NEW s, IsConfig(s)
  PROVE  IsConfig(validate_vlan_references(s).switch)
<1> DEFINE P == OnlyDefined(s.ports, defined_vlans(s))
           A == /\ \A p \in Range(s.ports) :
                     p.vlan \in defined_vlans(s) /\ supports_speed(The(s.model), p.speed_duplex)
                /\ \A m \in Range(s.port_mirrors) : m.destination_port \notin DOMAIN s.ports
           unusable == \E v \in Range(s.vlans) : v.name \in UnusableNames
           t == [s EXCEPT !.ports = P]
<1>1. validate_vlan_references(s) =
        IF unusable THEN [ok |-> FALSE, switch |-> s] ELSE [ok |-> A, switch |-> t]
  BY Zenon DEF validate_vlan_references
<1>2. PortsTyped(P)
  <2>1. PortsTyped(s.ports)
    BY DEF IsConfig
  <2>2. /\ DOMAIN P = DOMAIN s.ports
        /\ \A n \in DOMAIN s.ports :
             P[n] = [s.ports[n] EXCEPT !.tagged_vlans = Among(@, defined_vlans(s))]
    BY DEF OnlyDefined
  <2> HIDE DEF P
  <2>3. ASSUME NEW n \in DOMAIN s.ports PROVE IsPort(P[n])
    <3>1. IsPort(s.ports[n])
      BY <2>1 DEF PortsTyped
    <3> QED
      BY <2>2, <3>1, NarrowedPort
  <2> QED
    BY <2>1, <2>2, <2>3, SamePorts
<1> HIDE DEF P
<1>3. IsConfig(t)
  BY <1>2, OtherPorts
<1> HIDE DEF unusable, A, t
<1>4. validate_vlan_references(s).switch = IF unusable THEN s ELSE t
  BY <1>1
<1> QED
  BY <1>3, <1>4

\* so do all the checks, whatever they say,
LEMMA CheckedKeepsPorts ==
  ASSUME NEW s, IsConfig(s), NEW sec
  PROVE  IsConfig(Checked(s, sec).switch)
<1> DEFINE w == resolve_snmp_secrets(s, sec)
           named == resolve_vlan_names(w, FALSE)
           n == named.switch
           checked == validate_vlan_references(n)
           c == checked.switch
           fails == \/ get_missing_required_fields(s) # {}
                    \/ ~ SecretsResolve(s, sec)
                    \/ ~ check_vendor_support(s)
           some == DOMAIN s.vlans # {}
<1>1. Checked(s, sec) =
        IF fails THEN [ok |-> FALSE, switch |-> s]
        ELSE IF ~ named.ok THEN [ok |-> FALSE, switch |-> named.switch]
        ELSE [ok |-> checked.ok /\ some, switch |-> c]
  BY Zenon DEF Checked
<1>2. IsConfig(w)
  <2>1. PICK x : Replaces(w, s, "snmp", x)
    BY SecretsLeaveTheRest DEF IsConfig
  <2> HIDE DEF w
  <2> QED
    BY <2>1 DEF Replaces, IsConfig, RowFields
<1>3. IsConfig(n)
  <2> HIDE DEF w
  <2> QED
    BY <1>2, ResolveKeepsPorts
<1>4. IsConfig(c)
  <2> HIDE DEF n
  <2> QED
    BY <1>3, FilterKeepsPorts
<1> HIDE DEF fails, named, checked, some, c
<1>5. Checked(s, sec).switch = IF fails THEN s ELSE IF ~ named.ok THEN n ELSE c
  BY <1>1
<1> QED
  BY <1>3, <1>4, <1>5

\* and so does what is sent of a configuration.
LEMMA SerializedKeepsPorts ==
  ASSUME NEW s, IsConfig(s)
  PROVE  IsConfig(Serialized(s))
<1> DEFINE P == [n \in DOMAIN s.ports |-> SerializedPort(s.ports[n])]
<1>1. PICK x : Serialized(s) = [s EXCEPT !.ports = P, !.snmp = x]
  BY Zenon DEF Serialized
<1>2. PortsTyped(P)
  <2>1. PortsTyped(s.ports)
    BY DEF IsConfig
  <2>2. /\ DOMAIN P = DOMAIN s.ports
        /\ \A n \in DOMAIN s.ports : P[n] = SerializedPort(s.ports[n])
    OBVIOUS
  <2> HIDE DEF P
  <2>3. ASSUME NEW n \in DOMAIN s.ports PROVE IsPort(P[n])
    <3> DEFINE p == s.ports[n]
    <3>1. IsPort(p)
      BY <2>1 DEF PortsTyped
    <3>2. P[n] = [p EXCEPT !.vlan_name = {}, !.tagged_vlan_refs = <<>>]
      BY <2>2 DEF SerializedPort
    <3> HIDE DEF p
    <3>3. /\ DOMAIN P[n] = DOMAIN p /\ P[n].port_id = p.port_id
          /\ P[n].tagged_vlans = p.tagged_vlans /\ P[n].tagged_vlan_refs = <<>>
      BY <3>1, <3>2 DEF IsPort
    <3> QED
      BY <3>1, <3>3, ChangedIsPort DEF IsPort
  <2> QED
    BY <2>1, <2>2, <2>3, SamePorts
<1> HIDE DEF P
<1> DEFINE t == [s EXCEPT !.ports = P]
<1>3. IsConfig(t)
  BY <1>2, OtherPorts
<1>4. Serialized(s) = [t EXCEPT !.snmp = x]
  BY <1>1, Zenon
<1> HIDE DEF t
<1> QED
  BY <1>3, <1>4, OtherField

FilesListPorts(m, f) ==
  ListPorts(m.switches) /\ \A n \in DOMAIN f : ListPorts(f[n].switches)

\* A row of a file lists its ports.
LEMMA RowListsPorts ==
  ASSUME NEW rows, AreRows(rows), ListPorts(rows), NEW i \in DOMAIN rows
  PROVE  HasListedPorts(rows[i])
<1>1. rows[i] \in Range(rows)
  BY DEF Range
<1> QED
  BY <1>1 DEF HasListedPorts, ListPorts, AreRows, IsList

\* The rows of a switch are finitely many, and each lists its ports.
LEMMA SourcesListPorts ==
  ASSUME NEW m, NEW f, IsFile(m), IsFolder(f), FilesListPorts(m, f), NEW id
  PROVE  /\ IsFiniteSet(Sources(m, f, id))
         /\ \A r \in Sources(m, f, id) :
              \E row : HasListedPorts(row) /\ r.switch = expand_port_ranges(row)
<1> DEFINE At(n) == FileAt(m, f, n)
           declared(n) == {j \in DOMAIN At(n).switches : At(n).switches[j].id = id}
           b(n) == {SourceAt(n, At(n), i) : i \in declared(n)}
<1>1. ASSUME NEW n \in Names(f)
      PROVE  IsFile(At(n)) /\ ListPorts(At(n).switches)
  BY FilesAt, FilesAssumption DEF FilesListPorts, FileAt, Names
<1>2. IsFiniteSet(Names(f))
  <2>1. IsFiniteSet(DOMAIN FolderFiles)
    <3>1. DOMAIN FolderFiles = 1..Len(FolderFiles) /\ Len(FolderFiles) \in Nat
      BY FilesAssumption
    <3>2. 1 \in Int /\ Len(FolderFiles) \in Int
      BY <3>1
    <3> QED
      BY <3>1, <3>2, FS_Interval
  <2>2. IsFiniteSet(Range(FolderFiles))
    <3>1. Range(FolderFiles) = {FolderFiles[x] : x \in DOMAIN FolderFiles}
      BY DEF Range
    <3> QED
      BY <2>1, <3>1, FiniteImage
  <2>3. IsFiniteSet(DOMAIN f)
    BY <2>2, FS_Subset DEF IsFolder
  <2>4. Names(f) = DOMAIN f \cup {MainFile}
    BY DEF Names
  <2> QED
    BY <2>3, <2>4, FS_AddElement
<1>3. ASSUME NEW n \in Names(f) PROVE IsFiniteSet(b(n))
  <2> DEFINE rows == At(n).switches
             g == [i \in DOMAIN rows |-> SourceAt(n, At(n), i)]
  <2>1. DOMAIN rows = 1..Len(rows) /\ Len(rows) \in Nat
    BY <1>1, LenProperties DEF ListPorts, IsList
  <2>2. 1 \in Int /\ Len(rows) \in Int
    BY <2>1
  <2>3. IsFiniteSet(DOMAIN rows)
    BY <2>1, <2>2, FS_Interval
  <2>4. IsFiniteSet(declared(n)) /\ declared(n) \subseteq DOMAIN g
    BY <2>3, FS_Subset
  <2>5. b(n) = {g[i] : i \in declared(n)}
    OBVIOUS
  <2> HIDE DEF g, declared, b
  <2> QED
    BY <2>4, <2>5, FiniteImage
<1>4. IsFiniteSet(Sources(m, f, id))
  <2> DEFINE parts == [n \in Names(f) |-> b(n)]
             all == {parts[n] : n \in Names(f)}
  <2>1. Sources(m, f, id) = UNION all
    <3>1. Sources(m, f, id) = UNION {b(n) : n \in Names(f)}
      BY Zenon DEF Sources
    <3> HIDE DEF b
    <3> QED
      BY <3>1
  <2>2. IsFiniteSet(all) /\ \A x \in all : IsFiniteSet(x)
    <3> HIDE DEF b
    <3> QED
      BY <1>2, <1>3, FiniteImage
  <2> HIDE DEF all
  <2> QED
    BY <2>1, <2>2, FS_UNION
<1>5. ASSUME NEW r \in Sources(m, f, id)
      PROVE  \E row : HasListedPorts(row) /\ r.switch = expand_port_ranges(row)
  <2>1. PICK n \in Names(f) : r \in b(n)
    BY Zenon DEF Sources
  <2>2. PICK i \in DOMAIN At(n).switches : r = SourceAt(n, At(n), i)
    BY <2>1
  <2>3. HasListedPorts(At(n).switches[i])
    BY <1>1, RowListsPorts DEF IsFile
  <2>4. r.switch = expand_port_ranges(At(n).switches[i])
    <3> HIDE DEF At
    <3> QED
      BY <2>2 DEF SourceAt
  <2> QED
    BY <2>3, <2>4
<1> QED
  BY <1>4, <1>5

\* The port an entry stands for.
LEMMA DeserializedIs ==
  ASSUME NEW row, NEW n
  PROVE  DeserializedPort(row, n).port_id = n /\ "port_id" \in DOMAIN DeserializedPort(row, n)
  BY DEF DeserializedPort

\* It is a port.
LEMMA DeserializedIsPort ==
  ASSUME NEW row, IsList(row.tagged_vlans), NEW n \in Nat
  PROVE  IsPort(DeserializedPort(row, n))
<1> DEFINE refs == row.tagged_vlans
           later == \E r \in Range(refs) : IsName(r)
           ids == [i \in DOMAIN refs |-> refs[i].id]
           d == DeserializedPort(row, n)
<1>1. IsList(ids) /\ IsList(<<>>)
  <2>1. IsList(ids)
    BY MappedList
  <2> QED
    BY <2>1 DEF IsList
<1>2. /\ {"port_id", "tagged_vlans", "tagged_vlan_refs"} \subseteq DOMAIN d /\ d.port_id = n
      /\ d.tagged_vlans = IF later THEN <<>> ELSE ids
      /\ d.tagged_vlan_refs = IF later THEN refs ELSE <<>>
  BY DEF DeserializedPort
<1> HIDE DEF d, ids, later
<1> QED
  BY <1>1, <1>2 DEF IsPort, d

\* The ports of an expanded row are finitely many, and numbers.
LEMMA ExpandedAreTyped ==
  ASSUME NEW row, HasListedPorts(row), NEW E, E = expand_port_ranges(row).ports
  PROVE  /\ DOMAIN E \subseteq Nat /\ IsFiniteSet(DOMAIN E) /\ E \in Seq(Range(E))
         /\ \A e \in Range(E) : IsPort(e)
         /\ IsFiniteSet({e.port_id : e \in Range(E)})
<1>1. E \in Seq(Range(E))
  BY ExpandedPorts
<1>2. DOMAIN E = 1..Len(E) /\ Len(E) \in Nat
  BY <1>1, LenProperties
<1>3. IsFiniteSet(DOMAIN E)
  <2>1. 1 \in Int /\ Len(E) \in Int
    BY <1>2
  <2> QED
    BY <1>2, <2>1, FS_Interval
<1>4. ASSUME NEW e \in Range(E) PROVE IsPort(e)
  <2>1. PICK i \in DOMAIN row.ports : \E n \in Range(parse_port_id(row.ports[i].port_id)) :
           e = DeserializedPort(row.ports[i], n)
    BY ExpandedPorts
  <2>2. PICK n \in Range(parse_port_id(row.ports[i].port_id)) : e = DeserializedPort(row.ports[i], n)
    BY <2>1
  <2>3. parse_port_id(row.ports[i].port_id) \in Seq(Nat)
    BY ExpandedPorts
  <2>4. n \in Nat
    BY <2>2, <2>3, LenProperties, ElementOfSeq DEF Range
  <2>5. IsList(row.ports[i].tagged_vlans)
    BY DEF HasListedPorts, Range
  <2> QED
    BY <2>2, <2>4, <2>5, DeserializedIsPort
<1>5. IsFiniteSet({e.port_id : e \in Range(E)})
  <2> DEFINE g == [i \in DOMAIN E |-> E[i].port_id]
  <2>1. {e.port_id : e \in Range(E)} = {g[i] : i \in DOMAIN E}
    BY DEF Range
  <2>2. DOMAIN E \subseteq DOMAIN g
    OBVIOUS
  <2> HIDE DEF g
  <2>3. IsFiniteSet({g[i] : i \in DOMAIN E})
    BY <1>3, <2>2, FiniteImage
  <2> QED
    BY <2>1, <2>3
<1> QED
  BY <1>1, <1>2, <1>3, <1>4, <1>5

\* The ports of a merged switch are finitely many, and numbers.
LEMMA MergedAreTyped ==
  ASSUME NEW m, NEW f, IsFile(m), IsFolder(f), FilesListPorts(m, f), NEW id
  PROVE  PortsTyped(Merged(Sources(m, f, id), "ports", "port_id"))
<1> DEFINE S == Sources(m, f, id)
           M == Merged(S, "ports", "port_id")
           keys(r) == {e.port_id : e \in Range(r.switch.ports)}
<1>1. IsFiniteSet(S)
  BY SourcesListPorts
<1>2. ASSUME NEW r \in S
      PROVE  /\ DOMAIN r.switch.ports \subseteq Nat /\ IsFiniteSet(keys(r))
             /\ \A e \in Range(r.switch.ports) : IsPort(e)
  <2>1. PICK row : HasListedPorts(row) /\ r.switch = expand_port_ranges(row)
    BY SourcesListPorts
  <2>2. r.switch.ports = expand_port_ranges(row).ports
    BY <2>1
  <2> QED
    BY <2>1, <2>2, ExpandedAreTyped, Zenon
<1>3. \A r : Keys(r, "ports", "port_id") = keys(r)
  BY DEF Keys
<1> HIDE DEF keys
<1>4. DOMAIN M = UNION {keys(r) : r \in S}
  BY <1>3 DEF Merged
<1>5. IsFiniteSet(DOMAIN M) /\ DOMAIN M \subseteq Nat
  <2> DEFINE parts == [r \in S |-> keys(r)]
             all == {parts[r] : r \in S}
  <2> HIDE DEF S
  <2>1. DOMAIN M = UNION all
    BY <1>4
  <2>2. IsFiniteSet(all) /\ \A x \in all : IsFiniteSet(x)
    BY <1>1, <1>2, FiniteImage
  <2>3. \A r \in S : keys(r) \subseteq Nat
    BY <1>2 DEF keys, IsPort
  <2>4. DOMAIN M \subseteq Nat
    BY <1>4, <2>3
  <2> HIDE DEF all
  <2> QED
    BY <2>1, <2>2, <2>4, FS_UNION
<1>6. ASSUME NEW n \in DOMAIN M
      PROVE  IsPort(M[n])
  <2> DEFINE R == {r \in S : n \in Keys(r, "ports", "port_id")}
             D == BestOf(R)
             rows == D.switch.ports
  <2>1. M[n] = FirstWith(rows, "port_id", n)
    BY DEF Merged, Declarer
  <2>2. R # {} /\ R \subseteq S
    <3>1. \E r \in S : n \in keys(r)
      BY <1>4
    <3> QED
      BY <1>3, <3>1
  <2>3. D \in R
    <3> HIDE DEF R
    <3> QED
      BY <2>2, BestSource
  <2>4. D \in S /\ n \in keys(D)
    BY <1>3, <2>3
  <2> HIDE DEF S, R, D, M
  <2>5. \E i \in DOMAIN rows : rows[i].port_id = n
    BY <2>4 DEF keys, Range
  <2>6. DOMAIN rows \subseteq Nat
    BY <1>2, <2>4
  <2>7. \E i \in DOMAIN rows : FirstWith(rows, "port_id", n) = rows[i]
    <3> HIDE DEF rows
    <3> QED
      BY <2>5, <2>6, FirstWithIs
  <2>8. M[n] \in Range(rows)
    BY <2>1, <2>7 DEF Range
  <2> QED
    BY <1>2, <2>4, <2>8
<1> HIDE DEF M
<1> QED
  BY <1>5, <1>6 DEF PortsTyped, M

\* What is merged for a switch is a configuration, and stays one when it is checked.
LEMMA MergedIsConfig ==
  ASSUME NEW m, NEW f, NEW sec, IsFile(m), IsFolder(f), FilesListPorts(m, f),
         load_multi(m, f, sec).ok, NEW id
  PROVE  IsConfig(MergedFrom(ConfigsOf(m, f), id, sec).switch)
<1> DEFINE S == Sources(m, f, id)
           s == merge_single_switch(id, S)
<1>1. sources_of(ConfigsOf(m, f), id) = S
  BY SourcesAre
<1>2. DOMAIN s = RowFields /\ s.ports = Merged(S, "ports", "port_id")
  BY DEF merge_single_switch, RowFields
<1>3. IsConfig(s)
  BY <1>2, MergedAreTyped DEF IsConfig
<1>4. MergedFrom(ConfigsOf(m, f), id, sec) = Checked(s, sec)
  BY <1>1, Zenon DEF MergedFrom
<1> HIDE DEF s
<1> QED
  BY <1>3, <1>4, CheckedKeepsPorts

\* The preview of a switch that failed its checks is what they made of it.
LEMMA MergeShowsTheInvalid ==
  ASSUME NEW configs, NEW sec, merge_configs(configs, sec).ok,
         NEW id \in DOMAIN merge_configs(configs, sec).failures
  PROVE  merge_configs(configs, sec).failures[id].preview = MergedFrom(configs, id, sec).switch
<1> DEFINE ids == DeclaredIn(configs)
           sources == [d \in ids |-> sources_of(configs, d)]
           checked == [d \in ids |-> Checked(merge_single_switch(d, sources[d]), sec)]
           valid == {d \in ids : checked[d].ok}
           m == merge_configs(configs, sec)
           switches == [d \in valid |-> checked[d].switch]
           failure(d) == [preview |-> checked[d].switch,
                          vlan_sources |-> FileOf(sources[d], "vlans", "id"),
                          port_sources |-> FileOf(sources[d], "ports", "port_id")]
           failures == [d \in ids \ valid |-> failure(d)]
           agreed == ~ \E d \in ids : ~ validate_switch_identity(sources[d])
<1>1. m = IF ~ agreed THEN Refused
          ELSE [ok |-> TRUE, switches |-> switches, failures |-> failures]
  BY Zenon DEF merge_configs, DeclaredIn
<1>2. m.failures = failures
  <2> HIDE DEF agreed, switches, failures
  <2>1. CASE agreed
    BY <1>1, <2>1
  <2>2. CASE ~ agreed
    BY <1>1, <2>2 DEF Refused
  <2> QED
    BY <2>1, <2>2
<1>3. id \in ids \ valid
  <2> HIDE DEF ids, valid, failure
  <2> QED
    BY <1>2
<1>4. checked[id] = MergedFrom(configs, id, sec)
  BY <1>3, Zenon DEF MergedFrom
<1>5. failures[id] = failure(id)
  <2> HIDE DEF failure, ids, valid
  <2> QED
    BY <1>3
<1>6. failure(id).preview = checked[id].switch
  OBVIOUS
<1> HIDE DEF failure, failures, checked
<1> QED
  BY <1>2, <1>4, <1>5, <1>6

\* What the service shows of a switch is a configuration.
LEMMA PreviewIsConfig ==
  ASSUME MemoryIsLoaded, FilesListPorts(loaded.main, loaded.folder), NEW id,
         NEW preview \in get_merge_preview(id)
  PROVE  IsConfig(preview.config)
<1> DEFINE configs == ConfigsOf(loaded.main, loaded.folder)
           merged(d) == MergedFrom(configs, d, loaded.secrets).switch
<1>1. /\ memory = load_multi(loaded.main, loaded.folder, loaded.secrets) /\ memory.ok
      /\ IsFile(loaded.main) /\ IsFolder(loaded.folder)
  BY DEF MemoryIsLoaded
<1>2. memory = merge_configs(configs, loaded.secrets)
  BY <1>1, LoadMerges
<1>3. \A d : IsConfig(merged(d))
  BY <1>1, MergedIsConfig
<1>4. CASE id \in DOMAIN memory.failures
  <2>1. preview.config = Serialized(memory.failures[id].preview)
    BY <1>4 DEF get_merge_preview
  <2>2. memory.failures[id].preview = merged(id)
    <3> HIDE DEF configs
    <3> QED
      BY <1>1, <1>2, <1>4, MergeShowsTheInvalid
  <2> HIDE DEF merged
  <2> QED
    BY <1>3, <2>1, <2>2, SerializedKeepsPorts
<1>5. CASE id \notin DOMAIN memory.failures /\ id \in DOMAIN memory.switches
  <2>1. preview.config = Serialized(memory.switches[id])
    BY <1>5 DEF get_merge_preview
  <2>2. memory.switches[id] = merged(id)
    <3> HIDE DEF configs
    <3>1. memory.switches = [d \in {e \in DeclaredIn(configs) : MergedFrom(configs, e, loaded.secrets).ok} |->
                               merged(d)]
      BY <1>1, <1>2, MergeKeepsTheValid
    <3> HIDE DEF merged
    <3> QED
      BY <1>5, <3>1
  <2> HIDE DEF merged
  <2> QED
    BY <1>3, <2>1, <2>2, SerializedKeepsPorts
<1> QED
  BY <1>4, <1>5 DEF get_merge_preview

\* A row with its ports expanded, as the checks of a save and the file it writes see it.
Expanded(row) ==
  [expand_port_ranges(row) EXCEPT !.vlans = Keyed(row.vlans, "id"), !.ports = Keyed(@, "port_id")]

\* Such a row is a configuration whose VLANs and ports are those of the row.
LEMMA ExpandedIs ==
  ASSUME NEW row, HasListedPorts(row)
  PROVE  /\ IsConfig(Expanded(row)) /\ Expanded(row).vlans = Keyed(row.vlans, "id")
         /\ Expanded(row).ports = Keyed(expand_port_ranges(row).ports, "port_id")
<1> DEFINE r == expand_port_ranges(row)
           E == r.ports
           K == Keyed(E, "port_id")
<1>1. PICK p, q : r = [row EXCEPT !.ports = p, !.port_mirrors = q]
  BY Zenon DEF expand_port_ranges
<1>2. DOMAIN r = RowFields
  <2> HIDE DEF r
  <2> QED
    BY <1>1 DEF HasListedPorts, IsRow, RowFields
<1>3. PortsTyped(K)
  <2>1. /\ DOMAIN E \subseteq Nat
        /\ \A e \in Range(E) : IsPort(e)
        /\ IsFiniteSet({e.port_id : e \in Range(E)})
    BY ExpandedAreTyped
  <2> HIDE DEF r
  <2>2. DOMAIN K = {e.port_id : e \in Range(E)}
    BY DEF Keyed
  <2>3. \A k \in DOMAIN K : K[k] \in Range(E)
    BY <2>1, KeyedIs
  <2> HIDE DEF K, E
  <2> QED
    BY <2>1, <2>2, <2>3 DEF PortsTyped, IsPort
<1>4. Expanded(row) = [r EXCEPT !.vlans = Keyed(row.vlans, "id"), !.ports = K]
  BY Zenon DEF Expanded
<1> HIDE DEF r, K
<1>5. /\ DOMAIN Expanded(row) = RowFields /\ Expanded(row).ports = K
      /\ Expanded(row).vlans = Keyed(row.vlans, "id")
  BY <1>2, <1>4 DEF RowFields
<1> QED
  BY <1>3, <1>5, Zenon DEF IsConfig, r, K

\* The VLANs of a row, its ports as they are sent, and with the names looked up in the row.
VlansOf(row) == Keyed(row.vlans, "id")

SentPorts(row) == Keyed(expand_port_ranges(row).ports, "port_id")

NamedPorts(row) == resolve_vlan_names(Expanded(row), TRUE).switch.ports

\* The ports a save writes are a list of single ports,
WrittenPort(p, vlans) ==
  LET ref(v) == IF v \in DOMAIN vlans THEN [name |-> vlans[v].name] ELSE [id |-> v]
  IN  [port_id |-> Segment(p.port_id), vlan |-> ref(p.vlan),
       tagged_vlans |-> [i \in DOMAIN p.tagged_vlans |-> ref(p.tagged_vlans[i])],
       speed_duplex |-> p.speed_duplex]

\* one for each port with its names resolved.
LEMMA WrittenAreListed ==
  ASSUME NEW row, HasListedPorts(row)
  PROVE  /\ written_ports(row) \in Seq(Range(written_ports(row)))
         /\ \A x : x \in Range(written_ports(row)) <=>
                     \E k \in DOMAIN NamedPorts(row) : x = WrittenPort(NamedPorts(row)[k], VlansOf(row))
         /\ PortsTyped(NamedPorts(row))
<1> DEFINE V == VlansOf(row)
           P == NamedPorts(row)
           w == [n \in DOMAIN P |-> WrittenPort(P[n], V)]
<1>1. written_ports(row) = InOrder(w)
  BY Zenon DEF written_ports, Expanded, WrittenPort, VlansOf, NamedPorts
<1>2. PortsTyped(P)
  BY ExpandedIs, ResolveKeepsPorts DEF IsConfig, NamedPorts
<1> HIDE DEF P, V
<1>3. DOMAIN w \subseteq Nat /\ IsFiniteSet(DOMAIN w) /\ DOMAIN w = DOMAIN P
  BY <1>2 DEF PortsTyped
<1>4. {w[k] : k \in DOMAIN w} = {WrittenPort(P[n], V) : n \in DOMAIN P}
  BY <1>3
<1> HIDE DEF w
<1>5. InOrder(w) \in Seq({w[k] : k \in DOMAIN w}) /\ Range(InOrder(w)) = {w[k] : k \in DOMAIN w}
  BY <1>3, InOrderIs
<1>6. Range(written_ports(row)) = {WrittenPort(P[n], V) : n \in DOMAIN P}
  BY <1>1, <1>4, <1>5, Zenon
<1>7. \A x : x \in Range(written_ports(row)) <=> \E k \in DOMAIN P : x = WrittenPort(P[k], V)
  BY <1>6, Zenon
<1>8. written_ports(row) \in Seq(Range(written_ports(row)))
  BY <1>1, <1>5
<1> QED
  BY <1>2, <1>7, <1>8, Zenon DEF V, P

\* so that the file it writes lists its ports.
LEMMA RewrittenListsPorts ==
  ASSUME NEW row, HasListedPorts(row)
  PROVE  HasListedPorts(prefer_vlan_names_in_yaml(row))
<1> DEFINE r == prefer_vlan_names_in_yaml(row)
           P == NamedPorts(row)
<1>1. r = [row EXCEPT !.ports = written_ports(row), !.port_mirrors = written_mirrors(row),
                      !.snmp = written_snmp(row)]
  BY Zenon DEF prefer_vlan_names_in_yaml
<1>2. IsRow(row)
  BY DEF HasListedPorts
<1>3. r.ports = written_ports(row)
  <2> HIDE DEF r
  <2> QED
    BY <1>1, <1>2 DEF IsRow, RowFields
<1>4. /\ written_ports(row) \in Seq(Range(written_ports(row)))
      /\ \A x : x \in Range(written_ports(row)) <=>
                  \E k \in DOMAIN P : x = WrittenPort(P[k], VlansOf(row))
      /\ PortsTyped(P)
  BY WrittenAreListed
<1>5. ASSUME NEW p \in Range(written_ports(row))
      PROVE  p.port_id \in Segments /\ IsList(p.tagged_vlans)
  <2> HIDE DEF P
  <2>1. PICK n \in DOMAIN P : p = WrittenPort(P[n], VlansOf(row))
    BY <1>4
  <2>2. p.port_id = Segment(P[n].port_id)
    BY <2>1 DEF WrittenPort
  <2>3. P[n].port_id \in Nat /\ IsList(P[n].tagged_vlans)
    BY <1>4 DEF PortsTyped, IsPort
  <2>4. IsList(p.tagged_vlans)
    <3>1. p.tagged_vlans = [i \in DOMAIN P[n].tagged_vlans |-> p.tagged_vlans[i]]
      BY <2>1 DEF WrittenPort
    <3> QED
      BY <2>3, <3>1, MappedList
  <2> QED
    BY <2>2, <2>3, <2>4, ParsedSegment
<1>6. IsRow(r)
  BY <1>2, RewrittenIsRow
<1> HIDE DEF r
<1> QED
  BY <1>3, <1>4, <1>5, <1>6 DEF HasListedPorts, r

(***************************************************************************)
(* The second invariant: the ports of the editor, and the last save.       *)
(***************************************************************************)

\* Each form of the editor leaves a configuration a configuration.
LEMMA EditedIsConfig ==
  ASSUME NEW c, IsConfig(c), NEW shown, PortsTyped(shown), NEW e \in Edits
  PROVE  IsConfig(Edited(c, shown, e))
<1>1. ASSUME NEW r, DOMAIN r = DOMAIN c, r.ports = c.ports
      PROVE  IsConfig(r)
  BY <1>1 DEF IsConfig
<1>2. ASSUME NEW x PROVE IsConfig([c EXCEPT !.vlans = x])
  BY <1>1 DEF IsConfig, RowFields
<1>3. ASSUME NEW x PROVE IsConfig([c EXCEPT !.port_mirrors = x])
  BY <1>1 DEF IsConfig, RowFields
<1>4. ASSUME NEW x PROVE IsConfig([c EXCEPT !.snmp = x])
  BY <1>1 DEF IsConfig, RowFields
<1>5. IsConfig(update_vlan(c, e))
  BY <1>1 DEF update_vlan, IsConfig, RowFields
<1>6. IsConfig(add_vlan(c, e)) /\ IsConfig(remove_vlan(c, e))
  BY <1>2, Zenon DEF add_vlan, remove_vlan
<1>7. IsConfig(add_mirror(c, e)) /\ IsConfig(remove_mirror(c, e))
  BY <1>3, Zenon DEF add_mirror, remove_mirror
<1>8. IsConfig(update_mirror(c, e))
  BY <1>1 DEF update_mirror, IsConfig, RowFields
<1>9. /\ IsConfig(add_snmp_community(c, e)) /\ IsConfig(remove_snmp_community(c, e))
      /\ IsConfig(add_snmp_trap_receiver(c, e)) /\ IsConfig(remove_snmp_trap_receiver(c, e))
      /\ IsConfig(update_snmp_traps(c, e))
  BY <1>4, Zenon DEF add_snmp_community, remove_snmp_community, add_snmp_trap_receiver,
                     remove_snmp_trap_receiver, update_snmp_traps
<1>10. IsConfig(update_ports(c, shown, e))
  <2> DEFINE b == parse_ports_bulk(shown, e)
  <2>1. /\ DOMAIN b = DOMAIN shown
        /\ \A n \in DOMAIN shown : b[n] = shown[n] \/ b[n] = [shown[n] EXCEPT !.vlan = e.vlan]
    BY DEF parse_ports_bulk
  <2> HIDE DEF b
  <2>2. \A n \in DOMAIN shown : IsPort(b[n])
    BY <2>1 DEF PortsTyped, IsPort
  <2>3. PortsTyped(b)
    BY <2>1, <2>2, SamePorts
  <2> QED
    BY <2>3, OtherPorts, Zenon DEF update_ports, b
<1>11. IsConfig(remove_port(c, e))
  <2>1. PortsTyped(Without(c.ports, e.port_id))
    <3>1. DOMAIN Without(c.ports, e.port_id) \subseteq DOMAIN c.ports
      BY DEF Without
    <3>2. IsFiniteSet(DOMAIN Without(c.ports, e.port_id))
      BY <3>1, FS_Subset DEF IsConfig, PortsTyped
    <3> QED
      BY <3>1, <3>2 DEF Without, IsConfig, PortsTyped
  <2> QED
    BY <2>1, OtherPorts, Zenon DEF remove_port
<1>12. ASSUME e.op = "add_port" PROVE IsConfig(add_port(c, e))
  <2>1. e.port_id \in Nat /\ IsList(e.tagged_vlans)
    BY <1>12, PortsAreTyped
  <2> DEFINE x == Put(c.ports, e.port_id, form_to_port(e))
  <2>2. IsPort(form_to_port(e))
    <3>1. IsList(<<>>)
      BY DEF IsList
    <3> QED
      BY <2>1, <3>1 DEF form_to_port, IsPort
  <2>3. DOMAIN x = DOMAIN c.ports \cup {e.port_id}
    BY DEF Put
  <2>4. IsFiniteSet(DOMAIN x)
    BY <2>3, FS_AddElement DEF IsConfig, PortsTyped
  <2>5. PortsTyped(x)
    BY <2>1, <2>2, <2>3, <2>4 DEF Put, IsConfig, PortsTyped
  <2> QED
    BY <2>5, OtherPorts, Zenon DEF add_port
<1>13. e.op \in EditorForms
  BY PortsAreTyped
<1> QED
  BY <1>5, <1>6, <1>7, <1>8, <1>9, <1>10, <1>11, <1>12, <1>13 DEF Edited, EditorForms

\* What the page shows of the ports keeps their numbers.
LEMMA ShownAreTyped ==
  ASSUME NEW c, IsConfig(c)
  PROVE  PortsTyped(edit_ports(c))
<1>1. DOMAIN edit_ports(c) = DOMAIN c.ports
  BY DEF edit_ports
<1>2. ASSUME NEW n \in DOMAIN c.ports
      PROVE  IsPort(edit_ports(c)[n])
  <2> DEFINE p == c.ports[n]
             S == Range(p.tagged_vlans) \cap DOMAIN c.vlans
             q == edit_ports(c)[n]
  <2>1. IsPort(p)
    BY DEF IsConfig, PortsTyped
  <2>2. IsList(Sorted(S))
    <3>1. IsFiniteSet(Range(p.tagged_vlans))
      BY <2>1, ListIs, FiniteImage DEF Range, IsPort
    <3> QED
      BY <3>1, FS_Subset, SortedIsList
  <2>3. PICK v : q = [p EXCEPT !.vlan = v, !.tagged_vlans = Sorted(S), !.speed_duplex = "auto"]
    BY Zenon DEF edit_ports, port_to_editable
  <2> HIDE DEF S, p, q
  <2>4. /\ DOMAIN q = DOMAIN p /\ q.port_id = p.port_id /\ q.tagged_vlans = Sorted(S)
        /\ q.tagged_vlan_refs = p.tagged_vlan_refs
    BY <2>1, <2>3 DEF IsPort
  <2> QED
    BY <2>1, <2>2, <2>4, ChangedIsPort DEF q
<1> QED
  BY <1>1, <1>2, SamePorts, Zenon DEF IsConfig

\* A row that is sent lists its ports,
LEMMA SentListsPorts ==
  ASSUME NEW id, NEW form, NEW draft, IsConfig(draft.edited), NEW known
  PROVE  ListPorts(build_save_body(id, form, draft, known).switches)
<1> DEFINE ports == exclude_main_config_rows(draft.edited.ports, draft.port_sources, known)
           w == [n \in DOMAIN ports |-> sent_port(ports[n])]
           row == sent_row(id, draft, known)
<1>1. build_save_body(id, form, draft, known).switches = <<row>>
  BY DEF build_save_body
<1>2. row.ports = InOrder(w)
  BY DEF sent_row
<1>3. PortsTyped(ports)
  <2>1. DOMAIN ports \subseteq DOMAIN draft.edited.ports
    BY DEF exclude_main_config_rows
  <2>2. IsFiniteSet(DOMAIN ports)
    BY <2>1, FS_Subset DEF IsConfig, PortsTyped
  <2> QED
    BY <2>1, <2>2 DEF exclude_main_config_rows, IsConfig, PortsTyped
<1>4. DOMAIN w \subseteq Nat /\ IsFiniteSet(DOMAIN w) /\ DOMAIN w = DOMAIN ports
  BY <1>3 DEF PortsTyped
<1>5. \A k \in DOMAIN w :
        /\ w[k].port_id = Segment(ports[k].port_id)
        /\ w[k].tagged_vlans = [i \in DOMAIN ports[k].tagged_vlans |-> w[k].tagged_vlans[i]]
  BY DEF sent_port
<1> HIDE DEF w, row, ports
<1>6. /\ InOrder(w) \in Seq({w[k] : k \in DOMAIN w})
      /\ Range(InOrder(w)) = {w[k] : k \in DOMAIN w}
  BY <1>4, InOrderIs
<1>7. \A p \in Range(InOrder(w)) : p.port_id \in Segments /\ IsList(p.tagged_vlans)
  <2>1. \A k \in DOMAIN w : w[k].port_id \in Segments /\ IsList(w[k].tagged_vlans)
    <3> SUFFICES ASSUME NEW k \in DOMAIN w
                 PROVE  w[k].port_id \in Segments /\ IsList(w[k].tagged_vlans)
      OBVIOUS
    <3>1. IsPort(ports[k])
      BY <1>3, <1>4 DEF PortsTyped
    <3>2. IsList(w[k].tagged_vlans)
      BY <1>5, <3>1, MappedList DEF IsPort
    <3> QED
      BY <1>5, <3>1, <3>2, ParsedSegment DEF IsPort
  <2> QED
    BY <1>6, <2>1
<1>8. Range(<<row>>) = {row} /\ <<row>> \in Seq(Range(<<row>>))
  BY DEF Range
<1> QED
  BY <1>1, <1>2, <1>6, <1>7, <1>8 DEF ListPorts, IsList

\* and so does the file that a save writes.
LEMMA FileListsPorts ==
  ASSUME NEW body, IsBody(body), ListPorts(body.switches)
  PROVE  ListPorts(FileFrom(body).switches)
<1> DEFINE rows == body.switches
           new == [i \in DOMAIN rows |-> prefer_vlan_names_in_yaml(rows[i])]
<1>1. FileFrom(body).switches = new
  BY DEF FileFrom
<1>2. \A i \in DOMAIN rows : HasListedPorts(rows[i])
  BY RowListsPorts DEF IsBody
<1>3. \A i \in DOMAIN rows : HasListedPorts(new[i])
  BY <1>2, RewrittenListsPorts
<1>4. DOMAIN rows = 1..Len(rows) /\ Len(rows) \in Nat /\ DOMAIN new = DOMAIN rows
  BY ListIs DEF ListPorts
<1> HIDE DEF new
<1>5. IsList(new)
  <2>1. new = [i \in DOMAIN rows |-> new[i]]
    BY <1>4 DEF new
  <2> QED
    BY <2>1, MappedList DEF ListPorts
<1>6. ASSUME NEW r \in Range(new)
      PROVE  /\ IsList(r.ports)
             /\ \A p \in Range(r.ports) : p.port_id \in Segments /\ IsList(p.tagged_vlans)
  <2>1. PICK i \in DOMAIN rows : r = new[i]
    BY <1>4 DEF Range
  <2> HIDE DEF rows
  <2> QED
    BY <1>3, <2>1, Zenon DEF HasListedPorts, IsList
<1> QED
  BY <1>1, <1>5, <1>6, Zenon DEF ListPorts

\* A save that was checked against the main file m and the folder f.
ExternalIn(m, f, id, excluding) ==
  LET configs == load_with_metadata(MainFile, "main", m) \cup UNION scan_config_folder(f)
  IN  {v.id : v \in UNION {UNION {Range(s.vlans) : s \in {t \in Range(c.switches) : t.id = id}}
                           : c \in {d \in configs : d.source_file # excluding}}}

ValidIn(m, f, body) ==
  /\ body.merge_priority \in 11..9999
  /\ \A row \in Range(body.switches) :
       validate_overlay_config(row, ExternalIn(m, f, row.id, body.filename))

IsDraft(d) == "edited" \in DOMAIN d /\ IsConfig(d.edited)

\* The ports a tab works with.
PortsOf(w) ==
  /\ w.phase = "start" => IsConfig(w.preview.config)
  /\ w.phase = "edit" => IsDraft(w.draft) /\ w.form \in Edits /\ PortsTyped(w.shown)
  /\ w.phase = "save" => IsDraft(w.draft)
  /\ w.phase \in {"posted", "checked"} => ListPorts(w.body.switches)
  /\ w.phase = "checked" => ValidIn(w.against[1], w.against[2], w.body)

\* The last save nothing overtook: what it found, and what it wrote.
Saves(a, m, f, body) ==
  /\ IsFile(m) /\ IsFolder(f) /\ IsBody(body) /\ ListPorts(body.switches)
  /\ body.switches # <<>> /\ ValidIn(m, f, body)
  /\ a.files = {<<m, Put(f, body.filename, FileFrom(body))>>} /\ a.file = body.filename
  /\ a.switch = body.switches[1].id /\ a.ports = expand_port_ranges(body.switches[1]).ports

AcceptedWasValid == accepted.files = {} \/ \E m, f, body : Saves(accepted, m, f, body)

PortsInv ==
  /\ FilesListPorts(main, folder) /\ FilesListPorts(loaded.main, loaded.folder)
  /\ \A id \in DOMAIN drafts : IsDraft(drafts[id])
  /\ DOMAIN page = Tabs /\ \A t \in Tabs : PortsTyped(page[t])
  /\ \A t \in Tabs : PortsOf(tab[t])

EditorInv == IInv /\ PortsInv /\ AcceptedWasValid

\* An empty page, and a tab that has nothing under way.
LEMMA NothingUnderWay == PortsTyped(<<>>) /\ PortsOf(Idle)
<1>1. PortsTyped(<<>>)
  BY FS_EmptySet DEF PortsTyped
<1>2. PortsOf(Idle)
  BY DEF PortsOf, Idle
<1> QED
  BY <1>1, <1>2

\* The editor starts with typed ports and without a save.
LEMMA EditorStarts == Init => EditorInv
<1> SUFFICES ASSUME Init PROVE EditorInv
  OBVIOUS
<1>1. FilesListPorts(main, folder)
  BY PortsAreTyped DEF Init, FilesListPorts
<1>2. FilesListPorts(loaded.main, loaded.folder)
  BY <1>1 DEF Init, Files
<1>3. \A id \in DOMAIN drafts : IsDraft(drafts[id])
  BY DEF Init
<1>4. /\ DOMAIN page = Tabs /\ \A t \in Tabs : PortsTyped(page[t])
      /\ \A t \in Tabs : PortsOf(tab[t])
  BY NothingUnderWay DEF Init
<1>5. accepted.files = {}
  BY DEF Init, NoSave
<1> QED
  BY <1>1, <1>2, <1>3, <1>4, <1>5, InvStarts DEF EditorInv, PortsInv, AcceptedWasValid

\* A folder with a file more.
LEMMA ListedPut ==
  ASSUME NEW m, NEW f, FilesListPorts(m, f), NEW n, NEW file, ListPorts(file.switches)
  PROVE  FilesListPorts(m, Put(f, n, file))
  BY DEF FilesListPorts, Put

\* A folder without one of its files.
LEMMA ListedWithout ==
  ASSUME NEW m, NEW f, FilesListPorts(m, f), NEW n
  PROVE  FilesListPorts(m, Without(f, n))
  BY DEF FilesListPorts, Without

\* A step that only moves a tab, the page or the drafts.
LEMMA EditorMoves ==
  ASSUME PortsInv, UNCHANGED <<disk, loaded>>, NEW t \in Tabs,
         \/ UNCHANGED tab
         \/ \E r : tab' = [tab EXCEPT ![t] = r] /\ PortsOf(r),
         \/ UNCHANGED page
         \/ \E p : page' = [page EXCEPT ![t] = p] /\ PortsTyped(p),
         \A id \in DOMAIN drafts' : IsDraft(drafts'[id]), DOMAIN tab = Tabs
  PROVE  PortsInv'
<1>1. FilesListPorts(main, folder)' /\ FilesListPorts(loaded.main, loaded.folder)'
  BY DEF PortsInv, disk
<1>2. (DOMAIN page = Tabs /\ \A u \in Tabs : PortsTyped(page[u]))'
  BY DEF PortsInv
<1>3. (\A u \in Tabs : PortsOf(tab[u]))'
  BY DEF PortsInv
<1> QED
  BY <1>1, <1>2, <1>3, Zenon DEF PortsInv

\* What all of these leave alone.
LEMMA AcceptedStays ==
  ASSUME AcceptedWasValid, UNCHANGED accepted
  PROVE  AcceptedWasValid'
  BY DEF AcceptedWasValid

\* The files change by hand, or a load takes them up, or an overlay is removed.
LEMMA FilesKeepPorts ==
  ASSUME IInv, PortsInv, FilesChange \/ Reload \/ \E t \in Tabs : \E id, name : delete_overlay(t, id, name)
  PROVE  PortsInv'
<1>1. CASE FilesChange
  <2>1. FilesListPorts(main', folder')
    <3>1. CASE main' \in Mains /\ folder' = folder
      BY <3>1, PortsAreTyped DEF PortsInv, FilesListPorts
    <3>2. CASE main' = main /\ \E n \in Range(FolderFiles), f \in HandFiles : folder' = Put(folder, n, f)
      BY <3>2, PortsAreTyped, ListedPut DEF PortsInv
    <3>3. CASE main' = main /\ folder' = folder
      BY <3>3 DEF PortsInv
    <3> QED
      BY <1>1, <3>1, <3>2, <3>3 DEF FilesChange
  <2>2. UNCHANGED <<loaded, drafts, tab, page>>
    BY <1>1 DEF FilesChange
  <2> QED
    BY <2>1, <2>2 DEF PortsInv
<1>2. CASE Reload
  <2>1. UNCHANGED <<main, folder, drafts, tab, page>> /\ loaded' = Files(main, folder, secrets)
    BY <1>2 DEF Reload, disk
  <2>2. loaded'.main = main /\ loaded'.folder = folder
    BY <2>1 DEF Files
  <2> QED
    BY <2>1, <2>2 DEF PortsInv
<1>3. ASSUME NEW t \in Tabs, NEW id, NEW name, delete_overlay(t, id, name) PROVE PortsInv'
  <2>1. /\ UNCHANGED <<main, loaded, drafts, tab>> /\ folder' = Without(folder, name)
        /\ page' = [page EXCEPT ![t] = <<>>]
    BY <1>3 DEF delete_overlay, Request
  <2>2. FilesListPorts(main, folder')
    BY <2>1, ListedWithout DEF PortsInv
  <2>3. DOMAIN page' = Tabs /\ \A u \in Tabs : PortsTyped(page'[u])
    BY <2>1, NothingUnderWay DEF PortsInv
  <2> QED
    BY <2>1, <2>2, <2>3 DEF PortsInv
<1> QED
  BY <1>1, <1>2, <1>3

\* The drafts and the page, step by step.
LEMMA EditorKeepsPorts ==
  ASSUME IInv, PortsInv, NEW t \in Tabs,
         \/ create_with_sources(t)
         \/ \E known \in BOOLEAN : Store(t, known)
         \/ \E known \in BOOLEAN : Post(t, known)
         \/ \E lost \in BOOLEAN : Answer(t, lost)
         \/ \E body \in Bodies : PostBody(t, body)
         \/ CheckSave(t)
         \/ \E id \in Ids :
              \/ start_draft(t, id) \/ discard_draft(t, id) \/ ShowPorts(t, id)
              \/ \E e \in Edits : Take(t, id, e)
              \/ \E form \in SaveForms : TakeForSave(t, id, form)
  PROVE  PortsInv'
<1> DEFINE w == tab[t]
<1>1. PortsOf(w) /\ PortsTyped(page[t]) /\ DOMAIN tab = Tabs
  BY DEF PortsInv, IInv
<1>2. \A id \in DOMAIN drafts : IsDraft(drafts[id])
  BY DEF PortsInv
<1>3. PortsOf(Idle) /\ PortsTyped(<<>>)
  BY NothingUnderWay
<1>4. CASE create_with_sources(t)
  <2>1. /\ w.phase = "start" /\ tab' = [tab EXCEPT ![t] = Idle] /\ UNCHANGED <<page, disk, loaded>>
        /\ drafts' = Put(drafts, w.id, [edited |-> w.preview.config,
                                        vlan_sources |-> w.preview.vlan_sources,
                                        port_sources |-> w.preview.port_sources])
    BY <1>4 DEF create_with_sources, Unmoved
  <2>2. IsConfig(w.preview.config)
    BY <1>1, <2>1 DEF PortsOf
  <2> HIDE DEF w
  <2>3. \A id \in DOMAIN drafts' : IsDraft(drafts'[id])
    BY <1>2, <2>1, <2>2 DEF Put, IsDraft
  <2> QED
    BY <1>1, <1>3, <2>1, <2>3, EditorMoves
<1>5. ASSUME NEW known \in BOOLEAN, Store(t, known) PROVE PortsInv'
  <2> DEFINE new == Edited(w.draft.edited, w.shown, w.form)
  <2>1. /\ w.phase = "edit" /\ tab' = [tab EXCEPT ![t] = Idle] /\ UNCHANGED <<page, disk, loaded>>
        /\ drafts' = drafts \/ drafts' = [drafts EXCEPT ![w.id].edited = new]
    BY <1>5, Zenon DEF Store, Unmoved
  <2>2. IsDraft(w.draft) /\ w.form \in Edits /\ PortsTyped(w.shown)
    BY <1>1, <2>1 DEF PortsOf
  <2>3. IsConfig(new)
    BY <2>2, EditedIsConfig DEF IsDraft
  <2> HIDE DEF new, w
  <2>4. \A id \in DOMAIN drafts' : IsDraft(drafts'[id])
    BY <1>2, <2>1, <2>3 DEF IsDraft
  <2> QED
    BY <1>1, <1>3, <2>1, <2>4, EditorMoves
<1>6. ASSUME NEW known \in BOOLEAN, Post(t, known) PROVE PortsInv'
  <2> DEFINE body == build_save_body(w.id, w.form, w.draft, known)
             r == [phase |-> "posted", id |-> w.id, body |-> body]
  <2>1. w.phase = "save" /\ tab' = [tab EXCEPT ![t] = r] /\ UNCHANGED <<page, disk, loaded, drafts>>
    BY <1>6, Zenon DEF Post, Unmoved
  <2>2. ListPorts(body.switches)
    BY <1>1, <2>1, SentListsPorts DEF PortsOf, IsDraft
  <2> HIDE DEF body, w
  <2>3. PortsOf(r)
    BY <2>2 DEF PortsOf
  <2> HIDE DEF r
  <2> QED
    BY <1>1, <1>2, <2>1, <2>3, EditorMoves
<1>7. ASSUME NEW lost \in BOOLEAN, Answer(t, lost) PROVE PortsInv'
  <2>1. /\ tab' = [tab EXCEPT ![t] = Idle] /\ UNCHANGED <<page, disk, loaded>>
        /\ drafts' = drafts \/ drafts' = Without(drafts, w.id)
    BY <1>7, Zenon DEF Answer, Unmoved
  <2> HIDE DEF w
  <2>2. \A id \in DOMAIN drafts' : IsDraft(drafts'[id])
    BY <1>2, <2>1 DEF Without
  <2> QED
    BY <1>1, <1>3, <2>1, <2>2, EditorMoves
<1>8. ASSUME NEW body \in Bodies, PostBody(t, body) PROVE PortsInv'
  <2> DEFINE r == [phase |-> "posted", id |-> "", body |-> body]
  <2>1. /\ tab' = [tab EXCEPT ![t] = r] /\ UNCHANGED <<disk, loaded, drafts>>
        /\ page' = [page EXCEPT ![t] = <<>>]
    BY <1>8 DEF PostBody, Unmoved, Request
  <2>2. PortsOf(r)
    BY PortsAreTyped DEF PortsOf
  <2> HIDE DEF r, w
  <2> QED
    BY <1>1, <1>2, <1>3, <2>1, <2>2, EditorMoves
<1>9. CASE CheckSave(t)
  <2> DEFINE body == w.body
             r == [phase |-> "checked", id |-> w.id, body |-> body, against |-> <<main, folder>>]
  <2>1. /\ w.phase = "posted" /\ UNCHANGED <<page, disk, loaded, drafts>>
        /\ tab' = [tab EXCEPT ![t] = IF SaveIsValid(body) THEN r ELSE Idle]
    BY <1>9, Zenon DEF CheckSave, Unmoved
  <2>2. ListPorts(body.switches)
    BY <1>1, <2>1 DEF PortsOf
  <2>3. SaveIsValid(body) <=> ValidIn(main, folder, body)
    <3> HIDE DEF body
    <3>1. \A id, name : known_external_vlan_ids(id, name) = ExternalIn(main, folder, id, name)
      BY Zenon DEF known_external_vlan_ids, ExternalIn
    <3> QED
      BY <3>1 DEF SaveIsValid, ValidIn
  <2> HIDE DEF body, w
  <2>4. SaveIsValid(body) => PortsOf(r)
    BY <2>2, <2>3 DEF PortsOf
  <2> HIDE DEF r
  <2> QED
    BY <1>1, <1>2, <1>3, <2>1, <2>4, EditorMoves
<1>10. ASSUME NEW id, start_draft(t, id) PROVE PortsInv'
  <2>1. PICK preview \in get_merge_preview(id) :
          tab' = [tab EXCEPT ![t] = [phase |-> "start", id |-> id, preview |-> preview]]
    BY <1>10, Zenon DEF start_draft
  <2> DEFINE r == [phase |-> "start", id |-> id, preview |-> preview]
  <2>2. UNCHANGED <<disk, loaded, drafts>> /\ page' = [page EXCEPT ![t] = <<>>]
    BY <1>10 DEF start_draft, Unmoved, Request
  <2>3. IsConfig(preview.config)
    BY PreviewIsConfig DEF PortsInv, IInv
  <2>4. PortsOf(r)
    BY <2>3 DEF PortsOf
  <2> HIDE DEF r, w
  <2> QED
    BY <1>1, <1>2, <1>3, <2>1, <2>2, <2>4, EditorMoves DEF r
<1>11. ASSUME NEW id, discard_draft(t, id) PROVE PortsInv'
  <2>1. /\ UNCHANGED <<disk, loaded, tab>> /\ page' = [page EXCEPT ![t] = <<>>]
        /\ drafts' = Without(drafts, id)
    BY <1>11 DEF discard_draft, Unmoved, Request
  <2>2. \A d \in DOMAIN drafts' : IsDraft(drafts'[d])
    BY <1>2, <2>1 DEF Without
  <2> QED
    BY <1>1, <1>3, <2>1, <2>2, EditorMoves
<1>12. ASSUME NEW id, ShowPorts(t, id) PROVE PortsInv'
  <2>1. /\ UNCHANGED <<disk, loaded, tab, drafts>> /\ id \in DOMAIN drafts
        /\ page' = [page EXCEPT ![t] = edit_ports(drafts[id].edited)]
    BY <1>12 DEF ShowPorts, Unmoved
  <2>2. PortsTyped(edit_ports(drafts[id].edited))
    BY <1>2, <2>1, ShownAreTyped DEF IsDraft
  <2> QED
    BY <1>1, <1>2, <2>1, <2>2, EditorMoves
<1>13. ASSUME NEW id, NEW e \in Edits, Take(t, id, e) PROVE PortsInv'
  <2> DEFINE shown == IF e.op = "update_ports" THEN page[t] ELSE <<>>
             r == [phase |-> "edit", id |-> id, draft |-> drafts[id], form |-> e, shown |-> shown]
  <2>1. /\ UNCHANGED <<disk, loaded, drafts>> /\ id \in DOMAIN drafts
        /\ tab' = [tab EXCEPT ![t] = r] /\ page' = [page EXCEPT ![t] = <<>>]
    BY <1>13, Zenon DEF Take, Unmoved, Request
  <2>2. PortsTyped(shown) /\ IsDraft(drafts[id])
    BY <1>1, <1>2, <1>3, <2>1
  <2> HIDE DEF shown, w
  <2>3. PortsOf(r)
    BY <2>2 DEF PortsOf
  <2> HIDE DEF r
  <2> QED
    BY <1>1, <1>2, <1>3, <2>1, <2>3, EditorMoves
<1>14. ASSUME NEW id, NEW form \in SaveForms, TakeForSave(t, id, form) PROVE PortsInv'
  <2> DEFINE r == [phase |-> "save", id |-> id, draft |-> drafts[id], form |-> form]
  <2>1. /\ UNCHANGED <<disk, loaded, drafts>> /\ id \in DOMAIN drafts
        /\ tab' = [tab EXCEPT ![t] = r] /\ page' = [page EXCEPT ![t] = <<>>]
    BY <1>14, Zenon DEF TakeForSave, Unmoved, Request
  <2>2. PortsOf(r)
    BY <1>2, <2>1 DEF PortsOf
  <2> HIDE DEF r, w
  <2> QED
    BY <1>1, <1>2, <1>3, <2>1, <2>2, EditorMoves
<1> QED
  BY <1>4, <1>5, <1>6, <1>7, <1>8, <1>9, <1>10, <1>11, <1>12, <1>13, <1>14

\* A save that is written.
LEMMA WriteKeepsPorts ==
  ASSUME IInv, PortsInv, NEW t \in Tabs, WriteSave(t)
  PROVE  PortsInv' /\ AcceptedWasValid'
<1> DEFINE w == tab[t]
           body == w.body
           r == [phase |-> "written", id |-> w.id, body |-> body]
           row == body.switches[1]
<1>1. /\ w.phase = "checked" /\ UNCHANGED <<main, loaded, drafts, page>>
      /\ folder' = Put(folder, body.filename, FileFrom(body)) /\ tab' = [tab EXCEPT ![t] = r]
      /\ accepted' = IF w.against # <<main, folder>> \/ body.switches = <<>> THEN NoSave
                     ELSE [files |-> {<<main, folder'>>}, file |-> body.filename,
                           switch |-> row.id, ports |-> expand_port_ranges(row).ports]
  BY Zenon DEF WriteSave
<1>2. PortsOf(w) /\ IsWork(w) /\ DOMAIN tab = Tabs
  BY DEF PortsInv, IInv
<1>3. /\ IsBody(body) /\ ListPorts(body.switches)
      /\ ValidIn(w.against[1], w.against[2], body)
  BY <1>1, <1>2 DEF PortsOf, IsWork
<1> HIDE DEF w, body
<1>4. PortsInv'
  <2>1. ListPorts(FileFrom(body).switches)
    BY <1>3, FileListsPorts
  <2>2. FilesListPorts(main, folder')
    BY <1>1, <2>1, ListedPut DEF PortsInv
  <2>3. PortsOf(r)
    BY DEF PortsOf
  <2> HIDE DEF r
  <2>4. \A u \in Tabs : PortsOf(tab'[u])
    BY <1>1, <1>2, <2>3 DEF PortsInv
  <2> QED
    BY <1>1, <2>2, <2>4 DEF PortsInv
<1>5. AcceptedWasValid'
  <2>1. CASE w.against # <<main, folder>> \/ body.switches = <<>>
    BY <1>1, <2>1 DEF NoSave, AcceptedWasValid
  <2>2. CASE w.against = <<main, folder>> /\ body.switches # <<>>
    <3>1. accepted' = [files |-> {<<main, folder'>>}, file |-> body.filename,
                       switch |-> row.id, ports |-> expand_port_ranges(row).ports]
      BY <1>1, <2>2, Zenon
    <3>2. ValidIn(main, folder, body)
      BY <1>3, <2>2
    <3>3. Saves(accepted', main, folder, body)
      BY <1>1, <1>3, <2>2, <3>1, <3>2 DEF Saves, IInv
    <3> QED
      BY <3>3, Zenon DEF AcceptedWasValid
  <2> QED
    BY <2>1, <2>2
<1> QED
  BY <1>4, <1>5

\* No step leaves EditorInv.
LEMMA EditorStays ==
  ASSUME EditorInv, [Next]_vars
  PROVE  EditorInv'
<1>1. IInv' /\ IInv /\ PortsInv /\ AcceptedWasValid
  BY InvStays DEF EditorInv
<1>2. CASE UNCHANGED vars
  <2>1. UNCHANGED <<main, folder, loaded, drafts, tab, page, accepted>>
    BY <1>2 DEF vars, disk
  <2> QED
    BY <1>1, <2>1, AcceptedStays DEF EditorInv, PortsInv
<1>3. CASE FilesChange \/ Reload \/ \E t \in Tabs : \E id, name : delete_overlay(t, id, name)
  <2>1. UNCHANGED accepted
    BY <1>3 DEF FilesChange, Reload, delete_overlay
  <2> QED
    BY <1>1, <1>3, <2>1, AcceptedStays, FilesKeepPorts DEF EditorInv
<1>4. ASSUME NEW t \in Tabs, WriteSave(t) PROVE EditorInv'
  BY <1>1, <1>4, WriteKeepsPorts DEF EditorInv
<1>5. ASSUME NEW t \in Tabs,
             \/ create_with_sources(t)
             \/ \E known \in BOOLEAN : Store(t, known)
             \/ \E known \in BOOLEAN : Post(t, known)
             \/ \E lost \in BOOLEAN : Answer(t, lost)
             \/ \E body \in Bodies : PostBody(t, body)
             \/ CheckSave(t)
             \/ \E id \in Ids :
                  \/ start_draft(t, id) \/ discard_draft(t, id) \/ ShowPorts(t, id)
                  \/ \E e \in Edits : Take(t, id, e)
                  \/ \E form \in SaveForms : TakeForSave(t, id, form)
      PROVE  EditorInv'
  <2>1. UNCHANGED accepted
    BY <1>5 DEF create_with_sources, Store, Post, Answer, PostBody, CheckSave, start_draft,
                discard_draft, ShowPorts, Take, TakeForSave, Unmoved
  <2> QED
    BY <1>1, <1>5, <2>1, AcceptedStays, EditorKeepsPorts DEF EditorInv
<1> QED
  BY <1>2, <1>3, <1>4, <1>5 DEF Next

\* In every state the drafts, the pages and the saves under way hold ports that are
\* numbers, and the last save nothing overtook was valid for the files it was checked
\* against: what was checked is what was written.
THEOREM EditorInvariance == Spec => []EditorInv
<1>1. Init => EditorInv
  BY EditorStarts
<1>2. EditorInv /\ [Next]_vars => EditorInv'
  BY EditorStays
<1> QED
  BY <1>1, <1>2, PTL DEF Spec

(***************************************************************************)
(* What a load leaves of the ports.                                        *)
(***************************************************************************)

\* Their tagged VLANs are defined, too.
LEMMA TagsAreDefined ==
  ASSUME EditorInv, NEW id \in DOMAIN memory.switches, NEW p \in Range(memory.switches[id].ports)
  PROVE  Range(p.tagged_vlans) \subseteq DOMAIN memory.switches[id].vlans \cup {1}
<1> DEFINE S == Sources(loaded.main, loaded.folder, id)
           Q == Merged(S, "ports", "port_id")
           M == Merged(S, "vlans", "id")
           switch == memory.switches[id]
           named == [k \in DOMAIN Q |-> ResolvedPort(Q[k], M)]
           D == DOMAIN M \cup {1}
<1> HIDE DEF S, Q, M, switch, named, D
<1>1. switch.vlans = M /\ switch.ports = OnlyDefined(named, D)
  <2>1. /\ Consistent(switch) /\ switch.vlans = M
        /\ switch.ports = OnlyDefined([k \in DOMAIN Q |-> ResolvedPort(Q[k], M)], DOMAIN M \cup {1})
    BY MemoryIsChecked, Zenon DEF EditorInv, S, M, Q, switch
  <2> QED
    BY <2>1, Zenon DEF named, D
<1>2. PortsTyped(Q)
  <2>1. IsFile(loaded.main) /\ IsFolder(loaded.folder) /\ FilesListPorts(loaded.main, loaded.folder)
    BY Zenon DEF EditorInv, IInv, MemoryIsLoaded, PortsInv
  <2> QED
    BY <2>1, MergedAreTyped, Zenon DEF S, Q
<1>3. PICK k \in DOMAIN Q : p = [named[k] EXCEPT !.tagged_vlans = Among(@, D)]
  BY <1>1 DEF OnlyDefined, Range, switch, named
<1>4. IsPort(named[k])
  BY <1>2, ResolvedIsPort DEF PortsTyped, named
<1>5. p.tagged_vlans = Among(named[k].tagged_vlans, D)
  BY <1>3, <1>4, NarrowedPort
<1>6. Range(p.tagged_vlans) \subseteq D
  BY <1>4, <1>5, AmongIs DEF IsPort
<1> QED
  BY <1>1, <1>6 DEF D, switch

\* Whatever files are merged, every VLAN a port of a loaded switch is in exists, no
\* name is left to look up or ambiguous, and no mirror sends to a configured port.
THEOREM LoadedIsAlwaysConsistent == Spec => []LoadedIsConsistent
<1>1. EditorInv => LoadedIsConsistent
  <2> SUFFICES ASSUME EditorInv, NEW id \in DOMAIN memory.switches
               PROVE  LET s == memory.switches[id]
                      IN  /\ s.vlans # <<>>
                          /\ \A p \in Range(s.ports) :
                               /\ p.vlan_name = {} /\ p.tagged_vlan_refs = <<>>
                               /\ {p.vlan} \cup Range(p.tagged_vlans) \subseteq DOMAIN s.vlans \cup {1}
                          /\ \A v, w \in DOMAIN s.vlans : s.vlans[v].name = s.vlans[w].name => v = w
                          /\ \A m \in Range(s.port_mirrors) : m.destination_port \notin DOMAIN s.ports
    BY Zenon DEF LoadedIsConsistent
  <2> DEFINE s == memory.switches[id]
  <2>1. Consistent(s)
    BY MemoryIsChecked DEF EditorInv
  <2>2. \A p \in Range(s.ports) : Range(p.tagged_vlans) \subseteq DOMAIN s.vlans \cup {1}
    BY TagsAreDefined
  <2> HIDE DEF s
  <2>3. \A p \in Range(s.ports) : {p.vlan} \cup Range(p.tagged_vlans) \subseteq DOMAIN s.vlans \cup {1}
    BY <2>1, <2>2 DEF Consistent
  <2> QED
    BY <2>1, <2>3, Zenon DEF Consistent, s
<1> QED
  BY <1>1, EditorInvariance, PTL

(***************************************************************************)
(* A load of the files that a save left.                                   *)
(***************************************************************************)

\* The names of a row that may be saved are those of its own VLANs, and the VLANs of its
\* ports are its own, those of other files, or VLAN 1.
IsValidRow(row, external) ==
  /\ DOMAIN NamedPorts(row) = DOMAIN SentPorts(row)
  /\ \A n \in DOMAIN SentPorts(row) :
       /\ NamedPorts(row)[n] = ResolvedPort(SentPorts(row)[n], VlansOf(row))
       /\ \A v \in {NamedPorts(row)[n].vlan} \cup Range(NamedPorts(row)[n].tagged_vlans) :
            v \in external \cup {1} \/ \E r \in Range(row.vlans) : v = r.id

\* That is what the checks of a save ask for.
LEMMA ValidRow ==
  ASSUME NEW row, HasListedPorts(row), NEW external, validate_overlay_config(row, external)
  PROVE  IsValidRow(row, external)
<1> DEFINE K == SentPorts(row)
           V == VlansOf(row)
           P == NamedPorts(row)
           switch == expand_port_ranges(row)
           t == [switch EXCEPT !.vlans = Keyed(@, "id"), !.ports = Keyed(@, "port_id")]
           named == resolve_vlan_names(t, TRUE)
           valid == {v.id : v \in Range(row.vlans)} \cup external
                      \cup (IF row.model = {} THEN {1} ELSE implicit_vlans(The(row.model)))
<1>1. t = Expanded(row)
  <2>1. switch.vlans = row.vlans
    BY ExpandedRow DEF HasListedPorts
  <2>2. t = [switch EXCEPT !.vlans = Keyed(switch.vlans, "id"), !.ports = Keyed(@, "port_id")]
    BY Zenon
  <2>3. Expanded(row) = [switch EXCEPT !.vlans = Keyed(row.vlans, "id"), !.ports = Keyed(@, "port_id")]
    BY Zenon DEF Expanded
  <2> HIDE DEF switch
  <2> QED
    BY <2>1, <2>2, <2>3, Zenon
<1>2. named.ok /\ \A p \in Range(named.switch.ports) : {p.vlan} \cup Range(p.tagged_vlans) \subseteq valid
  BY Zenon DEF validate_overlay_config
<1>3. \A v \in valid : v \in external \cup {1} \/ \E r \in Range(row.vlans) : v = r.id
  BY DEF implicit_vlans
<1>4. /\ DOMAIN Expanded(row) = RowFields /\ Expanded(row).vlans = V /\ Expanded(row).ports = K
  BY ExpandedIs DEF IsConfig, VlansOf, SentPorts
<1>5. named.switch.ports = P
  BY <1>1 DEF NamedPorts
<1> HIDE DEF valid, K, V, P
<1>6. resolve_vlan_names(Expanded(row), TRUE).ok
  BY <1>1, <1>2
<1>7. Replaces(resolve_vlan_names(Expanded(row), TRUE).switch, Expanded(row), "ports",
               [k \in DOMAIN Expanded(row).ports |->
                  ResolvedPort(Expanded(row).ports[k], Expanded(row).vlans)])
  BY <1>4, <1>6, ResolvedNames, Zenon
<1>8. P = [k \in DOMAIN K |-> ResolvedPort(K[k], V)]
  BY <1>4, <1>7, Zenon DEF Replaces, NamedPorts, P
<1>9. \A k \in DOMAIN P : {P[k].vlan} \cup Range(P[k].tagged_vlans) \subseteq valid
  <2> HIDE DEF named
  <2>1. \A k \in DOMAIN P : P[k] \in Range(P)
    BY DEF Range
  <2> QED
    BY <1>2, <1>5, <2>1
<1> QED
  <2>1. DOMAIN P = DOMAIN K /\ \A n \in DOMAIN K : P[n] = ResolvedPort(K[n], V)
    BY <1>8
  <2>2. \A n \in DOMAIN K : \A v \in {P[n].vlan} \cup Range(P[n].tagged_vlans) :
          v \in external \cup {1} \/ \E r \in Range(row.vlans) : v = r.id
    BY <1>3, <1>9, <2>1, Zenon
  <2> QED
    BY <2>1, <2>2, Zenon DEF IsValidRow, P, K, V

\* Once takes each member of a list once.
LEMMA OnceIs ==
  ASSUME NEW l, IsList(l)
  PROVE  IsList(Once(l)) /\ Range(Once(l)) \subseteq Range(l)
<1> DEFINE options == [i \in DOMAIN l |-> {l[i]}]
<1>1. IsList(options)
  BY MappedList
<1>2. \A i \in DOMAIN options : The(options[i]) = l[i] /\ l[i] \in Range(l)
  BY DEF The, Range
<1>3. Once(l) = Firsts(options)
  BY DEF Once
<1> HIDE DEF options
<1> QED
  BY <1>1, <1>2, <1>3, FirstsIs

\* A port as a save writes it is read back with the VLANs it had, if the VLANs of the row
\* keep their names and no other VLAN has one of them.
LEMMA WrittenReadsBack ==
  ASSUME NEW p, IsList(p.tagged_vlans), NEW n, NEW V, NEW M,
         \A v \in DOMAIN V : v \in DOMAIN M /\ M[v].name = V[v].name,
         \A v, w \in DOMAIN M : M[v].name = M[w].name => v = w,
         NEW q, q = ResolvedPort(DeserializedPort(WrittenPort(p, V), n), M)
  PROVE  /\ q.vlan = p.vlan /\ q.tagged_vlans \in {p.tagged_vlans, Once(p.tagged_vlans)}
         /\ DOMAIN q = {"port_id", "vlan", "vlan_name", "tagged_vlans", "tagged_vlan_refs",
                        "speed_duplex"}
<1> DEFINE ref(v) == IF v \in DOMAIN V THEN [name |-> V[v].name] ELSE [id |-> v]
           w == WrittenPort(p, V)
           d == DeserializedPort(w, n)
<1>1. w.vlan = ref(p.vlan) /\ w.tagged_vlans = [i \in DOMAIN p.tagged_vlans |-> ref(p.tagged_vlans[i])]
  BY DEF WrittenPort
<1>2. \A v \in DOMAIN V : NamedVlans(M, V[v].name) = {v}
  BY DEF NamedVlans
<1>3. \A v : IsName(ref(v)) <=> v \in DOMAIN V
  BY DEF IsName
<1>4. \A v : Referenced(ref(v), M) = {v}
  <2> SUFFICES ASSUME NEW v PROVE Referenced(ref(v), M) = {v}
    OBVIOUS
  <2>1. CASE v \in DOMAIN V
    BY <1>2, <1>3, <2>1 DEF Referenced
  <2>2. CASE v \notin DOMAIN V
    BY <1>3, <2>2 DEF Referenced
  <2> QED
    BY <2>1, <2>2
<1>5. \A v : v \notin DOMAIN V => ref(v).id = v
  OBVIOUS
<1>6. \A v : v \in DOMAIN V => ref(v).name = V[v].name
  OBVIOUS
<1> DEFINE later == \E r \in Range(w.tagged_vlans) : IsName(r)
           ids == [i \in DOMAIN w.tagged_vlans |-> w.tagged_vlans[i].id]
<1>7. /\ d.vlan = IF IsName(w.vlan) THEN 1 ELSE w.vlan.id
      /\ d.vlan_name = IF IsName(w.vlan) THEN {w.vlan.name} ELSE {}
      /\ d.tagged_vlans = IF later THEN <<>> ELSE ids
      /\ d.tagged_vlan_refs = IF later THEN w.tagged_vlans ELSE <<>>
  BY DEF DeserializedPort
<1>8. /\ q.vlan = IF d.vlan_name = {} THEN d.vlan ELSE The(NamedVlans(M, The(d.vlan_name)))
      /\ q.tagged_vlans = IF d.tagged_vlan_refs = <<>> THEN d.tagged_vlans
                          ELSE Firsts([i \in DOMAIN d.tagged_vlan_refs |->
                                         Referenced(d.tagged_vlan_refs[i], M)])
      /\ DOMAIN q = {"port_id", "vlan", "vlan_name", "tagged_vlans", "tagged_vlan_refs",
                     "speed_duplex"}
  BY DEF ResolvedPort
<1>9. \A x : The({x}) = x
  BY DEF The
<1> HIDE DEF ref, w, d
<1>10. q.vlan = p.vlan
  <2>1. CASE p.vlan \in DOMAIN V
    <3>1. d.vlan_name = {V[p.vlan].name}
      BY <1>1, <1>3, <1>6, <1>7, <2>1
    <3>2. d.vlan_name # {} /\ The(d.vlan_name) = V[p.vlan].name
      BY <1>9, <3>1
    <3>3. NamedVlans(M, The(d.vlan_name)) = {p.vlan}
      BY <1>2, <2>1, <3>2
    <3> QED
      BY <1>8, <1>9, <3>2, <3>3
  <2>2. CASE p.vlan \notin DOMAIN V
    BY <1>1, <1>3, <1>5, <1>7, <1>8, <2>2
  <2> QED
    BY <2>1, <2>2
<1>11. q.tagged_vlans \in {p.tagged_vlans, Once(p.tagged_vlans)}
  <2> DEFINE l == p.tagged_vlans
             options == [i \in DOMAIN l |-> {l[i]}]
  <2>1. CASE later
    <3>1. d.tagged_vlan_refs = w.tagged_vlans /\ w.tagged_vlans # <<>>
      BY <1>7, <2>1 DEF Range
    <3>2. q.tagged_vlans = Firsts([i \in DOMAIN w.tagged_vlans |-> Referenced(w.tagged_vlans[i], M)])
      BY <1>8, <3>1, Zenon
    <3>3. [i \in DOMAIN w.tagged_vlans |-> Referenced(w.tagged_vlans[i], M)] = options
      BY <1>1, <1>4
    <3> HIDE DEF options
    <3>4. q.tagged_vlans = Firsts(options)
      BY <3>2, <3>3, Zenon
    <3> QED
      BY <3>4 DEF Once, options
  <2>2. CASE ~ later
    <3>1. q.tagged_vlans = ids
      BY <1>7, <1>8, <2>2
    <3>2. \A i \in DOMAIN l : ref(l[i]).id = l[i]
      <4>1. \A i \in DOMAIN l : ~ IsName(ref(l[i]))
        BY <1>1, <2>2 DEF Range
      <4> QED
        BY <1>3, <1>5, <4>1
    <3>3. l = [i \in DOMAIN l |-> l[i]]
      BY ListIs
    <3>4. DOMAIN w.tagged_vlans = DOMAIN l /\ \A i \in DOMAIN l : w.tagged_vlans[i] = ref(l[i])
      BY <1>1
    <3>5. ids = [i \in DOMAIN l |-> l[i]]
      BY <3>2, <3>4
    <3> QED
      BY <3>1, <3>3, <3>5, Zenon
  <2> QED
    BY <2>1, <2>2
<1> QED
  BY <1>8, <1>10, <1>11

\* The row a save writes, read again, has each of its ports as the save wrote it.
LEMMA WrittenEntry ==
  ASSUME NEW row, HasListedPorts(row), NEW external, validate_overlay_config(row, external),
         NEW n \in DOMAIN SentPorts(row)
  PROVE  /\ \E e \in Range(expand_port_ranges(prefer_vlan_names_in_yaml(row)).ports) : e.port_id = n
         /\ FirstWith(expand_port_ranges(prefer_vlan_names_in_yaml(row)).ports, "port_id", n)
              = DeserializedPort(WrittenPort(NamedPorts(row)[n], VlansOf(row)), n)
<1> DEFINE K == SentPorts(row)
           V == VlansOf(row)
           P == NamedPorts(row)
           E == expand_port_ranges(prefer_vlan_names_in_yaml(row)).ports
           new == prefer_vlan_names_in_yaml(row)
           entry(k) == DeserializedPort(WrittenPort(P[k], V), k)
<1>1. HasListedPorts(new)
  BY RewrittenListsPorts
<1>2. new.ports = written_ports(row)
  <2>1. new = [row EXCEPT !.ports = written_ports(row), !.port_mirrors = written_mirrors(row),
                          !.snmp = written_snmp(row)]
    BY Zenon DEF prefer_vlan_names_in_yaml
  <2> HIDE DEF new
  <2> QED
    BY <2>1 DEF HasListedPorts, IsRow, RowFields
<1>3. /\ \A x : x \in Range(written_ports(row)) <=> \E k \in DOMAIN P : x = WrittenPort(P[k], V)
      /\ PortsTyped(P)
  BY WrittenAreListed, Zenon
<1> HIDE DEF new, E
<1>4. DOMAIN P = DOMAIN K
  BY ValidRow, Zenon DEF IsValidRow
<1>5. n \in DOMAIN P
  BY <1>4, Zenon
<1>6. \A k \in DOMAIN P : P[k].port_id = k
  <2> SUFFICES ASSUME NEW k \in DOMAIN K PROVE P[k].port_id = k
    BY <1>4
  <2>1. DOMAIN expand_port_ranges(row).ports \subseteq Nat
    BY ExpandedAreTyped
  <2>2. K[k]["port_id"] = k
    BY <2>1, KeyedRow DEF SentPorts
  <2>3. P[k] = ResolvedPort(K[k], V)
    BY ValidRow, Zenon DEF IsValidRow
  <2> HIDE DEF P, K, V
  <2> QED
    BY <2>2, <2>3 DEF ResolvedPort
<1> HIDE DEF P, K, V
<1>7. /\ E \in Seq(Range(E))
      /\ \A e : e \in Range(E) <=> \E i \in DOMAIN new.ports :
                                     \E k \in Range(parse_port_id(new.ports[i].port_id)) :
                                       e = DeserializedPort(new.ports[i], k)
  <2> DEFINE X == expand_port_ranges(new).ports
  <2>1. E = X
    BY Zenon DEF new, E
  <2>2. /\ X \in Seq(Range(X))
        /\ \A e : e \in Range(X) <=> \E i \in DOMAIN new.ports :
                                       \E k \in Range(parse_port_id(new.ports[i].port_id)) :
                                         e = DeserializedPort(new.ports[i], k)
    BY <1>1, ExpandedPorts
  <2> HIDE DEF X
  <2> QED
    BY <2>1, <2>2, Zenon
<1>8. \A k \in DOMAIN P : Range(parse_port_id(WrittenPort(P[k], V).port_id)) = {k}
  <2> SUFFICES ASSUME NEW k \in DOMAIN P
               PROVE  Range(parse_port_id(WrittenPort(P[k], V).port_id)) = {k}
    OBVIOUS
  <2>1. k \in Nat
    BY <1>3 DEF PortsTyped
  <2>2. WrittenPort(P[k], V).port_id = Segment(k)
    BY <1>6 DEF WrittenPort
  <2>3. parse_port_id(Segment(k)) = <<k>>
    BY <2>1, ParsedSegment
  <2>4. Range(<<k>>) = {k}
    BY DEF Range
  <2> QED
    BY <2>2, <2>3, <2>4
<1>9. \A e \in Range(E) : \E k \in DOMAIN P : e = entry(k)
  <2> SUFFICES ASSUME NEW e \in Range(E) PROVE \E k \in DOMAIN P : e = entry(k)
    OBVIOUS
  <2>1. PICK i \in DOMAIN new.ports : \E k \in Range(parse_port_id(new.ports[i].port_id)) :
                                        e = DeserializedPort(new.ports[i], k)
    BY <1>7
  <2>2. new.ports[i] \in Range(written_ports(row))
    BY <1>2 DEF Range
  <2>3. PICK k \in DOMAIN P : new.ports[i] = WrittenPort(P[k], V)
    BY <1>3, <2>2, Zenon
  <2> QED
    BY <1>8, <2>1, <2>3
<1>10. entry(n) \in Range(E)
  <2>1. WrittenPort(P[n], V) \in Range(new.ports)
    BY <1>2, <1>3, <1>5, Zenon
  <2>2. PICK i \in DOMAIN new.ports : new.ports[i] = WrittenPort(P[n], V)
    BY <2>1 DEF Range
  <2>3. n \in Range(parse_port_id(new.ports[i].port_id))
    <3>1. Range(parse_port_id(WrittenPort(P[n], V).port_id)) = {n}
      BY <1>8, <1>5, Zenon
    <3> QED
      BY <2>2, <3>1
  <2> QED
    BY <1>7, <2>2, <2>3
<1>11. \A k : entry(k).port_id = k
  BY DeserializedIs
<1> HIDE DEF entry
<1>12. DOMAIN E \subseteq Nat
  BY <1>7
<1>13. \E i \in DOMAIN E : E[i]["port_id"] = n
  BY <1>10, <1>11 DEF Range
<1>14. PICK i \in DOMAIN E : FirstWith(E, "port_id", n) = E[i] /\ E[i]["port_id"] = n
  BY <1>12, <1>13, FirstWithIs
<1>15. PICK k \in DOMAIN P : E[i] = entry(k)
  BY <1>9 DEF Range
<1>16. k = n
  BY <1>11, <1>14, <1>15
<1>17. FirstWith(E, "port_id", n) = entry(n)
  BY <1>14, <1>15, <1>16
<1>18. \E e \in Range(E) : e.port_id = n
  BY <1>10, <1>11
<1> QED
  BY <1>17, <1>18, Zenon DEF entry, E, P, V

\* The VLANs that other files declared when a save was checked are merged with it.
LEMMA ExternalAreMerged ==
  ASSUME NEW m, NEW f, IsFile(m), IsFolder(f), NEW name \in Range(FolderFiles),
         NEW file, IsFile(file), NEW id, NEW sec, load_multi(m, Put(f, name, file), sec).ok
  PROVE  ExternalIn(m, f, id, name)
           \subseteq DOMAIN Merged(Sources(m, Put(f, name, file), id), "vlans", "id")
<1> DEFINE F == Put(f, name, file)
           S == Sources(m, F, id)
           configs == load_with_metadata(MainFile, "main", m) \cup UNION scan_config_folder(f)
<1> SUFFICES ASSUME NEW v \in ExternalIn(m, f, id, name)
             PROVE  v \in DOMAIN Merged(S, "vlans", "id")
  OBVIOUS
<1>1. PICK c \in configs : /\ c.source_file # name
                           /\ \E t \in Range(c.switches) : t.id = id /\ \E x \in Range(t.vlans) : x.id = v
  BY DEF ExternalIn
<1>2. PICK t \in Range(c.switches) : t.id = id /\ \E x \in Range(t.vlans) : x.id = v
  BY <1>1
<1>3. IsFolder(F)
  BY FolderPut
<1>4. \E a \in Names(F) : c = ConfigAt(a, FileAt(m, F, a))
  <2>1. CASE c \in load_with_metadata(MainFile, "main", m)
    <3>1. KindOf(MainFile) = "main"
      BY DEF KindOf
    <3>2. c = ConfigAt(MainFile, m)
      BY <2>1, <3>1, LoadGives
    <3> QED
      BY <3>2 DEF Names, FileAt
  <2>2. CASE c \in UNION scan_config_folder(f)
    <3>1. scan_config_folder(f) # {}
      BY <2>2
    <3>2. \E X : scan_config_folder(f) = {X}
      BY <3>1, Zenon DEF scan_config_folder
    <3>3. c \in The(scan_config_folder(f))
      <4>1. PICK X : scan_config_folder(f) = {X}
        BY <3>2
      <4>2. The({X}) = X
        BY DEF The
      <4> QED
        BY <2>2, <4>1, <4>2
    <3>4. PICK a \in DOMAIN f : c = ConfigAt(a, f[a])
      BY <3>1, <3>3, ScanGives
    <3>5. a # name
      BY <1>1, <3>4 DEF ConfigAt
    <3>6. a \in DOMAIN F /\ F[a] = f[a]
      BY <3>5 DEF Put
    <3>7. a # MainFile
      BY FilesAssumption DEF IsFolder
    <3> QED
      BY <3>4, <3>6, <3>7 DEF Names, FileAt
  <2> QED
    BY <1>1, <2>1, <2>2
<1>5. PICK a \in Names(F) : c = ConfigAt(a, FileAt(m, F, a))
  BY <1>4
<1> DEFINE A == FileAt(m, F, a)
<1> HIDE DEF F
<1>6. PICK i \in DOMAIN A.switches : t = expand_port_ranges(A.switches[i])
  BY <1>2, <1>5 DEF ConfigAt, Range
<1>7. IsFile(A)
  BY <1>3, FilesAt
<1>8. A.switches[i].id = id
  BY <1>2, <1>6, <1>7, ExpandedRow DEF IsFile, AreRows
<1> DEFINE s == SourceAt(a, A, i)
<1>9. s \in S
  BY <1>8, SourceOf
<1>10. a \in {MainFile} \cup Range(FolderFiles)
  BY <1>3 DEF Names, IsFolder
<1>11. s.switch = t
  BY <1>6, <1>7, <1>10, SourceIs
<1> HIDE DEF s, A, S
<1>12. v \in Keys(s, "vlans", "id")
  BY <1>2, <1>11 DEF Keys
<1> QED
  BY <1>9, <1>12 DEF Merged

\* No row of a better file has the port n of a switch.
BestFor(files, name, id, n) ==
  \A b \in Names(files.folder) \ {name} :
    Outranks(files, b, name) =>
      \A s \in Range(FileAt(files.main, files.folder, b).switches) : s.id = id =>
        \A p \in Range(s.ports) : n \notin Range(parse_port_id(p.port_id))

\* Then the first row of a file that has the port is the one it is taken from.
LEMMA SavedRowWins ==
  ASSUME NEW files, IsFile(files.main), IsFolder(files.folder),
         FilesListPorts(files.main, files.folder), NEW name \in DOMAIN files.folder,
         NEW file, file = files.folder[name], 1 \in DOMAIN file.switches, NEW n,
         NEW id, id = file.switches[1].id,
         n \in {e.port_id : e \in Range(expand_port_ranges(file.switches[1]).ports)},
         BestFor(files, name, id, n)
  PROVE  /\ Declarer(Sources(files.main, files.folder, id), "ports", "port_id", n)
              = SourceAt(name, file, 1)
         /\ SourceAt(name, file, 1) \in Sources(files.main, files.folder, id)
         /\ SourceAt(name, file, 1).switch = expand_port_ranges(file.switches[1])
         /\ n \in DOMAIN Merged(Sources(files.main, files.folder, id), "ports", "port_id")
<1> DEFINE At(b) == FileAt(files.main, files.folder, b)
           S == Sources(files.main, files.folder, id)
           R == {r \in S : n \in Keys(r, "ports", "port_id")}
           s0 == SourceAt(name, file, 1)
           D == BestOf(R)
<1>1. name \in Names(files.folder) /\ name # MainFile /\ At(name) = file /\ IsFile(file)
  BY FilesAssumption DEF IsFolder, Names, FileAt
<1>2. s0 \in S
  BY <1>1, SourceOf
<1>3. /\ s0.merge_priority = PriorityOf(name, file) /\ s0.source_file = name /\ s0.index = 1
      /\ s0.switch = expand_port_ranges(file.switches[1]) /\ IsSource(s0)
  BY <1>1, SourceIs DEF IsFolder
<1> HIDE DEF s0, S, At
<1>4. s0 \in R
  BY <1>2, <1>3 DEF Keys
<1>5. D \in R /\ \A r \in R \ {D} : Precedes(D, r)
  <2>1. R \subseteq S /\ R # {}
    BY <1>4
  <2> HIDE DEF R
  <2> QED
    BY <2>1, BestSource DEF S
<1>6. PICK b \in Names(files.folder) : \E i \in DOMAIN At(b).switches :
        /\ At(b).switches[i].id = id /\ D.source_file = b /\ D.index = i /\ IsSource(D)
        /\ D.merge_priority = PriorityOf(b, At(b))
        /\ D.switch = expand_port_ranges(At(b).switches[i])
  <2>1. D \in S
    BY <1>5
  <2> HIDE DEF D
  <2>2. ASSUME NEW r \in S
        PROVE  \E c \in Names(files.folder) : \E i \in DOMAIN At(c).switches :
                 /\ At(c).switches[i].id = id /\ r = SourceAt(c, At(c), i)
                 /\ r.source_file = c /\ r.index = i /\ IsSource(r)
                 /\ r.merge_priority = PriorityOf(c, At(c))
    BY SourceComesFrom DEF S, At
  <2>3. PICK c \in Names(files.folder) : \E i \in DOMAIN At(c).switches :
          /\ At(c).switches[i].id = id /\ D = SourceAt(c, At(c), i)
          /\ D.source_file = c /\ D.index = i /\ IsSource(D)
          /\ D.merge_priority = PriorityOf(c, At(c))
    BY <2>1, <2>2, Zenon
  <2>4. PICK i \in DOMAIN At(c).switches :
          /\ At(c).switches[i].id = id /\ D = SourceAt(c, At(c), i)
          /\ D.source_file = c /\ D.index = i /\ IsSource(D)
          /\ D.merge_priority = PriorityOf(c, At(c))
    BY <2>3, Zenon
  <2>5. D.switch = expand_port_ranges(At(c).switches[i])
    BY <2>4 DEF SourceAt
  <2> QED
    BY <2>4, <2>5, Zenon
<1>7. PICK i \in DOMAIN At(b).switches :
        /\ At(b).switches[i].id = id /\ D.source_file = b /\ D.index = i /\ IsSource(D)
        /\ D.merge_priority = PriorityOf(b, At(b))
        /\ D.switch = expand_port_ranges(At(b).switches[i])
  BY <1>6, Zenon
<1>8. IsFile(At(b)) /\ ListPorts(At(b).switches)
  BY FilesAt DEF FilesListPorts, Names, FileAt, At
<1>9. D = s0
  <2> SUFFICES ASSUME D # s0 PROVE FALSE
    OBVIOUS
  <2>1. Precedes(D, s0)
    BY <1>4, <1>5
  <2> HIDE DEF D, R
  <2>2. CASE b = name
    <3>1. At(b).switches \in Seq(Range(At(b).switches))
      BY <1>8 DEF ListPorts, IsList
    <3>2. i \in Nat /\ i >= 1
      BY <3>1
    <3>3. D.merge_priority = s0.merge_priority /\ D.source_file = s0.source_file
      BY <1>1, <1>3, <1>7, <2>2
    <3> QED
      BY <1>3, <1>7, <2>1, <3>2, <3>3, PlaceIsNumber DEF Precedes, ReadBefore, IsSource
  <2>3. CASE b # name
    <3>1. PriorityIn(files, b) = D.merge_priority /\ PriorityIn(files, name) = s0.merge_priority
      BY <1>1, <1>3, <1>7, PrioritiesAgree DEF At
    <3>2. Outranks(files, b, name)
      BY <1>3, <1>7, <2>1, <2>3, <3>1 DEF Precedes, ReadBefore, Outranks
    <3> DEFINE row == At(b).switches[i]
    <3>3. \A p \in Range(row.ports) : n \notin Range(parse_port_id(p.port_id))
      <4>1. row \in Range(At(b).switches) /\ row.id = id
        BY <1>7 DEF Range
      <4> HIDE DEF row
      <4> QED
        BY <2>3, <3>2, <4>1, Zenon DEF BestFor, At
    <3>4. HasListedPorts(row)
      BY <1>8, RowListsPorts DEF IsFile
    <3>5. \E e \in Range(expand_port_ranges(row).ports) : e.port_id = n
      <4>1. D \in R
        BY <1>5 DEF D
      <4>2. n \in Keys(D, "ports", "port_id")
        BY <4>1 DEF R
      <4> HIDE DEF row
      <4> QED
        BY <1>7, <4>2 DEF Keys, row
    <3> HIDE DEF row
    <3>6. PICK e \in Range(expand_port_ranges(row).ports) : e.port_id = n
      BY <3>5
    <3>7. \E j \in DOMAIN row.ports : \E k \in Range(parse_port_id(row.ports[j].port_id)) :
            e = DeserializedPort(row.ports[j], k)
      BY <3>4, <3>6, ExpandedPorts
    <3>8. PICK j \in DOMAIN row.ports : \E k \in Range(parse_port_id(row.ports[j].port_id)) :
            e = DeserializedPort(row.ports[j], k)
      BY <3>7
    <3>9. n \in Range(parse_port_id(row.ports[j].port_id))
      BY <3>6, <3>8, DeserializedIs
    <3>10. row.ports[j] \in Range(row.ports)
      BY DEF Range
    <3> QED
      BY <3>3, <3>9, <3>10
  <2> QED
    BY <2>2, <2>3
<1>10. Declarer(S, "ports", "port_id", n) = s0
  BY <1>9, Zenon DEF Declarer
<1>11. n \in DOMAIN Merged(S, "ports", "port_id")
  <2>1. DOMAIN Merged(S, "ports", "port_id") = UNION {Keys(r, "ports", "port_id") : r \in S}
    BY DEF Merged
  <2> QED
    BY <1>4, <2>1
<1> QED
  BY <1>2, <1>3, <1>10, <1>11, Zenon DEF S, s0

\* A save writes one file, with the row that was checked in the form the file has.
RowIsWritten(m, f, body, g) ==
  /\ body.switches[1] \in Range(body.switches) /\ HasListedPorts(body.switches[1])
  /\ validate_overlay_config(body.switches[1],
                             ExternalIn(m, f, body.switches[1].id, body.filename))
  /\ 1 \in DOMAIN FileFrom(body).switches
  /\ FileFrom(body).switches[1] = prefer_vlan_names_in_yaml(body.switches[1])
  /\ body.filename \in DOMAIN g /\ g[body.filename] = FileFrom(body)

\* So does every save that is accepted.
LEMMA SavedFile ==
  ASSUME NEW a, NEW m, NEW f, NEW body, Saves(a, m, f, body),
         NEW g, g = Put(f, body.filename, FileFrom(body))
  PROVE  RowIsWritten(m, f, body, g)
<1>1. /\ IsBody(body) /\ ListPorts(body.switches) /\ body.switches # <<>> /\ ValidIn(m, f, body)
  BY Zenon DEF Saves
<1>2. 1 \in DOMAIN body.switches /\ body.switches[1] \in Range(body.switches)
  BY <1>1 DEF ListPorts, Range
<1>3. HasListedPorts(body.switches[1])
  BY <1>1, <1>2, RowListsPorts DEF IsBody
<1>4. validate_overlay_config(body.switches[1], ExternalIn(m, f, body.switches[1].id, body.filename))
  BY <1>1, <1>2 DEF ValidIn
<1>5. /\ 1 \in DOMAIN FileFrom(body).switches
      /\ FileFrom(body).switches[1] = prefer_vlan_names_in_yaml(body.switches[1])
  BY <1>2 DEF FileFrom
<1>6. body.filename \in DOMAIN g /\ g[body.filename] = FileFrom(body)
  BY DEF Put
<1> QED
  BY <1>2, <1>3, <1>4, <1>5, <1>6, Zenon DEF RowIsWritten

\* The form a row has in a file keeps its identity and its VLANs.
LEMMA RewrittenIs ==
  ASSUME NEW row, HasListedPorts(row)
  PROVE  /\ prefer_vlan_names_in_yaml(row).id = row.id
         /\ prefer_vlan_names_in_yaml(row).vlans = row.vlans
<1> DEFINE new == prefer_vlan_names_in_yaml(row)
<1>1. new = [row EXCEPT !.ports = written_ports(row), !.port_mirrors = written_mirrors(row),
                        !.snmp = written_snmp(row)]
  BY Zenon DEF prefer_vlan_names_in_yaml
<1> HIDE DEF new
<1>2. new.id = row.id /\ new.vlans = row.vlans
  BY <1>1 DEF HasListedPorts, IsRow, RowFields
<1> QED
  BY <1>2 DEF new

\* Memory was loaded from good files whose ports are lists.
LEMMA LoadedFiles ==
  ASSUME EditorInv
  PROVE  /\ IsFile(loaded.main) /\ IsFolder(loaded.folder)
         /\ FilesListPorts(loaded.main, loaded.folder)
BY Zenon DEF EditorInv, IInv, MemoryIsLoaded, PortsInv

\* A port has the VLANs another has, or these once each.
KeepsVlans(p, q) ==
  p.vlan = q.vlan /\ p.tagged_vlans \in {q.tagged_vlans, Once(q.tagged_vlans)}

\* Memory was loaded from the files a save left, which says sent of the port n of the
\* switch id: no better file has the port, and the VLANs of its row kept their names.
LoadOfSave(m, f, body, id, n, sent) ==
  /\ Saves(accepted, m, f, body)
  /\ loaded.main = m /\ loaded.folder = Put(f, body.filename, FileFrom(body))
  /\ id = body.switches[1].id /\ id \in DOMAIN memory.switches
  /\ \A v \in Range(body.switches[1].vlans) : memory.switches[id].vlans[v.id].name = v.name
  /\ n \in {p.port_id : p \in Range(expand_port_ranges(body.switches[1]).ports)}
  /\ BestFor(loaded, body.filename, id, n)
  /\ sent = FirstWith(expand_port_ranges(body.switches[1]).ports, "port_id", n)
  /\ sent.vlan_name = {} /\ sent.tagged_vlan_refs = <<>>

\* Then the port has in memory the VLANs the save said.
LEMMA SavedPortIsKept ==
  ASSUME EditorInv, NEW m, NEW f, NEW body, NEW id, NEW n, NEW sent,
         LoadOfSave(m, f, body, id, n, sent)
  PROVE  KeepsVlans(memory.switches[id].ports[n], sent)
<1> DEFINE E == expand_port_ranges(body.switches[1]).ports
<1>0. /\ Saves(accepted, m, f, body)
      /\ loaded.main = m /\ loaded.folder = Put(f, body.filename, FileFrom(body))
      /\ id = body.switches[1].id /\ id \in DOMAIN memory.switches
      /\ E = expand_port_ranges(body.switches[1]).ports
      /\ \A v \in Range(body.switches[1].vlans) : memory.switches[id].vlans[v.id].name = v.name
      /\ n \in {p.port_id : p \in Range(E)} /\ BestFor(loaded, body.filename, id, n)
      /\ sent = FirstWith(E, "port_id", n)
      /\ sent.vlan_name = {} /\ sent.tagged_vlan_refs = <<>>
  BY Zenon DEF LoadOfSave
<1> USE <1>0
<1> HIDE DEF E
<1> DEFINE row == body.switches[1]
           name == body.filename
           file == FileFrom(body)
           new == prefer_vlan_names_in_yaml(row)
           V == VlansOf(row)
           K == SentPorts(row)
           P == NamedPorts(row)
           S == Sources(loaded.main, loaded.folder, id)
           M == Merged(S, "vlans", "id")
           Q == Merged(S, "ports", "port_id")
           switch == memory.switches[id]
           written == DeserializedPort(WrittenPort(P[n], V), n)
           read == ResolvedPort(written, M)
<1>1. /\ IsFile(m) /\ IsFolder(f) /\ IsBody(body) /\ ListPorts(body.switches)
      /\ body.switches # <<>> /\ ValidIn(m, f, body)
  BY Zenon DEF Saves
<1>2. /\ body.switches[1] \in Range(body.switches) /\ HasListedPorts(body.switches[1])
      /\ validate_overlay_config(body.switches[1],
                                 ExternalIn(m, f, body.switches[1].id, body.filename))
      /\ 1 \in DOMAIN FileFrom(body).switches
      /\ FileFrom(body).switches[1] = prefer_vlan_names_in_yaml(body.switches[1])
      /\ body.filename \in DOMAIN loaded.folder /\ loaded.folder[body.filename] = FileFrom(body)
  <2>1. RowIsWritten(m, f, body, loaded.folder)
    BY SavedFile, Zenon
  <2> QED
    BY <2>1, Zenon DEF RowIsWritten
<1>3. HasListedPorts(row) /\ row \in Range(body.switches)
  BY <1>2, Zenon
<1>4. 1 \in DOMAIN file.switches /\ file.switches[1] = new
  BY <1>2, Zenon
<1> HIDE DEF row, name, file, V, K, P, S, M, Q, switch, written, read
<1>5. new.id = row.id /\ new.vlans = row.vlans /\ HasListedPorts(new)
  BY <1>3, RewrittenIs, RewrittenListsPorts, Zenon
<1>6. /\ IsFile(loaded.main) /\ IsFolder(loaded.folder) /\ loaded.folder[name] = file
      /\ name \in DOMAIN loaded.folder /\ FilesListPorts(loaded.main, loaded.folder)
  BY <1>2, LoadedFiles, Zenon DEF name, file
<1>7. validate_overlay_config(row, ExternalIn(m, f, id, name)) /\ new.id = id
  <2>1. id = row.id
    BY Zenon DEF row
  <2>2. validate_overlay_config(row, ExternalIn(m, f, row.id, name))
    BY <1>2, Zenon DEF row, name
  <2> HIDE DEF new
  <2> QED
    BY <1>5, <2>1, <2>2, Zenon
<1> HIDE DEF new
<1>8. /\ DOMAIN P = DOMAIN K
      /\ \A k \in DOMAIN K :
           /\ P[k] = ResolvedPort(K[k], V)
           /\ \A v \in {P[k].vlan} \cup Range(P[k].tagged_vlans) :
                v \in ExternalIn(m, f, id, name) \cup {1} \/ \E r \in Range(row.vlans) : v = r.id
  <2> DEFINE X == ExternalIn(m, f, id, name)
  <2>1. HasListedPorts(row) /\ validate_overlay_config(row, X)
    BY <1>3, <1>7, Zenon
  <2> HIDE DEF X
  <2>2. IsValidRow(row, X)
    BY <2>1, ValidRow, Zenon
  <2> QED
    BY <2>2, Zenon DEF IsValidRow, X, V, K, P
<1>9. DOMAIN E \subseteq Nat
  BY <1>3, ExpandedAreTyped DEF row
<1>10. n \in DOMAIN K /\ K[n] = sent
  <2>1. K = Keyed(E, "port_id")
    BY Zenon DEF K, SentPorts, row
  <2>2. n \in DOMAIN K
    BY <2>1 DEF Keyed
  <2>3. K[n] = FirstWith(E, "port_id", n)
    BY <1>9, <2>1, <2>2, KeyedRow
  <2> QED
    BY <2>2, <2>3
<1>11. n \in DOMAIN P /\ P[n].vlan = sent.vlan /\ P[n].tagged_vlans = sent.tagged_vlans
  <2>1. P[n] = ResolvedPort(sent, V) /\ n \in DOMAIN P
    BY <1>8, <1>10, Zenon
  <2>2. ResolvedPort(sent, V).vlan = sent.vlan
    BY DEF ResolvedPort
  <2>3. ResolvedPort(sent, V).tagged_vlans = sent.tagged_vlans
    BY DEF ResolvedPort
  <2> QED
    BY <2>1, <2>2, <2>3, Zenon
<1>12. /\ \E e \in Range(expand_port_ranges(new).ports) : e.port_id = n
       /\ FirstWith(expand_port_ranges(new).ports, "port_id", n) = written
  BY <1>3, <1>7, <1>10, WrittenEntry, Zenon DEF V, K, P, new, written
<1>13. /\ Declarer(S, "ports", "port_id", n) = SourceAt(name, file, 1)
       /\ SourceAt(name, file, 1) \in S /\ n \in DOMAIN Q
       /\ SourceAt(name, file, 1).switch = expand_port_ranges(new)
  <2>1. BestFor(loaded, name, id, n)
    BY Zenon DEF name
  <2>2. id = file.switches[1].id
    BY <1>4, <1>7, Zenon
  <2>3. n \in {e.port_id : e \in Range(expand_port_ranges(file.switches[1]).ports)}
    BY <1>4, <1>12
  <2>4. file = loaded.folder[name]
    BY <1>6
  <2>5. S = Sources(loaded.main, loaded.folder, id) /\ Q = Merged(S, "ports", "port_id")
    BY Zenon DEF S, Q
  <2> DEFINE T == Sources(loaded.main, loaded.folder, id)
  <2>6. /\ Declarer(T, "ports", "port_id", n) = SourceAt(name, file, 1)
        /\ SourceAt(name, file, 1) \in T
        /\ SourceAt(name, file, 1).switch = expand_port_ranges(file.switches[1])
        /\ n \in DOMAIN Merged(T, "ports", "port_id")
    BY <1>4, <1>6, <2>1, <2>2, <2>3, <2>4, SavedRowWins, Zenon
  <2> QED
    BY <1>4, <2>5, <2>6, Zenon
<1>14. Q[n] = written
  <2>1. Q[n] = FirstWith(Declarer(S, "ports", "port_id", n).switch["ports"], "port_id", n)
    BY <1>13 DEF Q, Merged
  <2> QED
    BY <1>12, <1>13, <2>1
<1>15. /\ switch.vlans = M /\ \A v, w \in DOMAIN M : M[v].name = M[w].name => v = w
       /\ switch.ports = OnlyDefined([k \in DOMAIN Q |-> ResolvedPort(Q[k], M)], DOMAIN M \cup {1})
  <2>1. /\ Consistent(switch) /\ switch.vlans = M
        /\ switch.ports = OnlyDefined([k \in DOMAIN Q |-> ResolvedPort(Q[k], M)], DOMAIN M \cup {1})
    BY MemoryIsChecked, Zenon DEF EditorInv, S, M, Q, switch
  <2> QED
    BY <2>1, Zenon DEF Consistent
<1>16. \A v \in Range(row.vlans) : v.id \in DOMAIN M /\ M[v.id].name = v.name
  <2> SUFFICES ASSUME NEW v \in Range(row.vlans) PROVE v.id \in DOMAIN M /\ M[v.id].name = v.name
    OBVIOUS
  <2>1. expand_port_ranges(new).vlans = row.vlans
    BY <1>5, ExpandedRow DEF HasListedPorts
  <2>2. v.id \in Keys(SourceAt(name, file, 1), "vlans", "id")
    BY <1>13, <2>1 DEF Keys
  <2>3. v.id \in DOMAIN M
    BY <1>13, <2>2 DEF M, Merged
  <2>4. switch.vlans[v.id].name = v.name
    BY Zenon DEF row, switch
  <2> QED
    BY <1>15, <2>3, <2>4
<1>17. \A v \in DOMAIN V : v \in DOMAIN M /\ M[v].name = V[v].name
  <2>1. DOMAIN row.vlans \subseteq Nat
    BY <1>3 DEF HasListedPorts, IsRow
  <2>2. \A v \in DOMAIN V : V[v]["id"] = v /\ V[v] \in Range(row.vlans)
    <3>1. \A v \in DOMAIN V : V[v]["id"] = v
      BY <2>1, KeyedRow DEF V, VlansOf
    <3>2. \A v \in DOMAIN V : V[v] \in Range(row.vlans)
      BY <2>1, KeyedRow DEF V, VlansOf
    <3> QED
      BY <3>1, <3>2
  <2> QED
    BY <1>16, <2>2
<1>18. Range(P[n].tagged_vlans) \subseteq DOMAIN M \cup {1}
  <2>1. ExternalIn(m, f, id, name) \subseteq DOMAIN M
    <3>1. load_multi(m, Put(f, name, file), loaded.secrets).ok
      BY DEF EditorInv, IInv, MemoryIsLoaded, name, file
    <3>2. name \in Range(FolderFiles) /\ IsFile(file)
      BY <1>1, WrittenIsFile DEF IsBody, name, file
    <3>3. M = Merged(Sources(m, Put(f, name, file), id), "vlans", "id")
      BY Zenon DEF M, S, name, file
    <3> QED
      BY <1>1, <3>1, <3>2, <3>3, ExternalAreMerged
  <2> QED
    BY <1>8, <1>11, <1>16, <2>1
<1> DEFINE l == P[n].tagged_vlans
<1>19. IsList(l)
  BY <1>3, <1>11, WrittenAreListed DEF PortsTyped, IsPort, P
<1>20. /\ read.vlan = P[n].vlan /\ read.tagged_vlans \in {l, Once(l)}
       /\ DOMAIN read = {"port_id", "vlan", "vlan_name", "tagged_vlans", "tagged_vlan_refs",
                         "speed_duplex"}
  <2>1. read = ResolvedPort(DeserializedPort(WrittenPort(P[n], V), n), M)
    BY Zenon DEF read, written
  <2> QED
    BY <1>15, <1>17, <1>19, <2>1, WrittenReadsBack
<1> HIDE DEF l
<1>21. switch.ports[n] = [read EXCEPT !.tagged_vlans = Among(@, DOMAIN M \cup {1})]
  BY <1>13, <1>14, <1>15 DEF OnlyDefined, read
<1>22. Among(read.tagged_vlans, DOMAIN M \cup {1}) = read.tagged_vlans
  <2>1. IsList(read.tagged_vlans) /\ Range(read.tagged_vlans) \subseteq Range(l)
    BY <1>19, <1>20, OnceIs
  <2>2. Range(l) \subseteq DOMAIN M \cup {1}
    BY <1>18 DEF l
  <2> QED
    BY <2>1, <2>2, AmongIs
<1>23. switch.ports[n].vlan = read.vlan /\ switch.ports[n].tagged_vlans = read.tagged_vlans
  BY <1>20, <1>21, <1>22
<1>24. /\ switch.ports[n].vlan = sent.vlan
       /\ switch.ports[n].tagged_vlans \in {sent.tagged_vlans, Once(sent.tagged_vlans)}
  BY <1>11, <1>20, <1>23, Zenon DEF l
<1> QED
  BY <1>24, Zenon DEF switch, KeepsVlans

\* A port keeps the VLANs a save gave it, through the names the file is written with and
\* the merge of all files: a save that is accepted means what it says.
THEOREM SavedPortsAlwaysKeepTheirVlans == Spec => []SavedPortsKeepTheirVlans
<1>1. EditorInv => SavedPortsKeepTheirVlans
  <2> DEFINE id == accepted.switch
             name == accepted.file
             file == loaded.folder[name]
             sent(n) == FirstWith(accepted.ports, "port_id", n)
             rows == UNION {Range(s.vlans) : s \in {t \in Range(file.switches) : t.id = id}}
             best(n) == \A b \in ({MainFile} \cup DOMAIN loaded.folder) \ {name} :
                          Outranks(loaded, b, name) =>
                            LET g == IF b = MainFile THEN loaded.main ELSE loaded.folder[b]
                            IN  \A s \in Range(g.switches) : s.id = id =>
                                  \A p \in Range(s.ports) : n \notin Range(parse_port_id(p.port_id))
  <2> SUFFICES ASSUME EditorInv, <<loaded.main, loaded.folder>> \in accepted.files,
                      id \in DOMAIN memory.switches,
                      \A v \in rows : memory.switches[id].vlans[v.id].name = v.name,
                      NEW n \in {p.port_id : p \in Range(accepted.ports)}, best(n),
                      sent(n).vlan_name = {}, sent(n).tagged_vlan_refs = <<>>
               PROVE  /\ memory.switches[id].ports[n].vlan = sent(n).vlan
                      /\ memory.switches[id].ports[n].tagged_vlans
                           \in {sent(n).tagged_vlans, Once(sent(n).tagged_vlans)}
    BY Zenon DEF SavedPortsKeepTheirVlans
  <2>1. PICK m, f, body : Saves(accepted, m, f, body)
    BY DEF EditorInv, AcceptedWasValid
  <2> DEFINE row == body.switches[1]
  <2>2. /\ loaded.main = m /\ loaded.folder = Put(f, name, FileFrom(body)) /\ name = body.filename
        /\ id = row.id /\ accepted.ports = expand_port_ranges(row).ports
    BY <2>1 DEF Saves
  <2>3. BestFor(loaded, name, id, n)
    BY Zenon DEF BestFor, Names, FileAt
  <2>4. \A v \in Range(row.vlans) : v \in rows
    <3> DEFINE new == prefer_vlan_names_in_yaml(row)
    <3>1. /\ HasListedPorts(body.switches[1])
          /\ 1 \in DOMAIN FileFrom(body).switches
          /\ FileFrom(body).switches[1] = prefer_vlan_names_in_yaml(body.switches[1])
          /\ loaded.folder[body.filename] = FileFrom(body)
      <4>1. loaded.folder = Put(f, body.filename, FileFrom(body))
        BY <2>2, Zenon
      <4>2. RowIsWritten(m, f, body, loaded.folder)
        BY <2>1, <4>1, SavedFile, Zenon
      <4> QED
        BY <4>2, Zenon DEF RowIsWritten
    <3>2. /\ 1 \in DOMAIN file.switches /\ file.switches[1] = new
      <4>1. name = body.filename
        BY <2>2, Zenon
      <4>2. file = FileFrom(body)
        BY <3>1, <4>1, Zenon
      <4> HIDE DEF file
      <4> QED
        BY <3>1, <4>2, Zenon
    <3>3. new \in Range(file.switches)
      BY <3>2 DEF Range
    <3> HIDE DEF new, row, id, name, file
    <3>4. new.id = row.id /\ new.vlans = row.vlans
      BY <3>1, RewrittenIs, Zenon DEF new, row
    <3> QED
      BY <2>2, <3>3, <3>4
  <2> HIDE DEF id, name, file, sent, rows, best
  <2>5. \A v \in Range(row.vlans) : memory.switches[id].vlans[v.id].name = v.name
    BY <2>4
  <2>6. sent(n) = FirstWith(accepted.ports, "port_id", n)
    BY DEF sent
  <2> DEFINE x == sent(n)
             E == expand_port_ranges(body.switches[1]).ports
  <2>7. /\ Saves(accepted, m, f, body)
        /\ loaded.main = m /\ loaded.folder = Put(f, body.filename, FileFrom(body))
        /\ id = body.switches[1].id /\ BestFor(loaded, body.filename, id, n)
    BY <2>1, <2>2, <2>3, Zenon
  <2>8. n \in {p.port_id : p \in Range(E)} /\ x = FirstWith(E, "port_id", n)
    BY <2>2, <2>6, Zenon
  <2>9. \A v \in Range(body.switches[1].vlans) : memory.switches[id].vlans[v.id].name = v.name
    BY <2>5, Zenon
  <2> HIDE DEF x, row
  <2>10. x.vlan_name = {} /\ x.tagged_vlan_refs = <<>>
    BY Zenon DEF x
  <2>11. LoadOfSave(m, f, body, id, n, x)
    BY <2>7, <2>8, <2>9, <2>10, Zenon DEF LoadOfSave
  <2>12. KeepsVlans(memory.switches[id].ports[n], x)
    BY <2>11, SavedPortIsKept, Zenon
  <2> QED
    BY <2>12, Zenon DEF x, KeepsVlans
<1> QED
  BY <1>1, EditorInvariance, PTL

===============================================================================
