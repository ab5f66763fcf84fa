------------------------------ MODULE ConfigReload ------------------------------
(***************************************************************************)
(* The configuration of one switch on its way from the files to memory and *)
(* on to the switch, and the status row that tells how it went: who reads  *)
(* it when, who stores and applies what he read, and who reports.          *)
(*                                                                         *)
(*   Jobs         POST /switches/{id}/apply: applies what memory held      *)
(*   Reloads      POST /config/reload: all switches, without waiting       *)
(*   OneReloads   POST /switches/{id}/reload: this switch only             *)
(*   Watcher      --watch: one file event after the other                  *)
(*                                                                         *)
(* A configuration is a version; the files and the edits of memory bring   *)
(* new ones.  The turn is that of SwitchGate (Turnstile).                  *)
(***************************************************************************)
EXTENDS Naturals, FiniteSets

CONSTANTS
  Jobs, Reloads, OneReloads, Watcher,
  Kinds,      \* what the files may be: with a valid switch, without, unreadable
  Edits,      \* the in-memory edits that clients make: "put", "patch", "delete"
  MaxVersion, \* bound: how often files or memory change
  MaxLoad,    \* bound: changes so far and requests under way, together
  ChannelSize, \* room for events in the watcher's channel
  NoOp, NoRow,
  Absent,     \* no valid configuration of the switch
  Mixed       \* a configuration that was applied in part

Ops == Jobs \cup Reloads \cup OneReloads \cup {Watcher}
Loaders == Reloads \cup OneReloads \cup {Watcher}
Requests == Reloads \cup OneReloads

Versions == 0..MaxVersion

ASSUME ReloadAssumption ==
  /\ Jobs \cap Loaders = {} /\ Reloads \cap OneReloads = {} /\ Watcher \notin Requests
  /\ Kinds \subseteq {"good", "absent", "broken"}
  /\ Edits \subseteq {"put", "patch", "delete"}
  /\ MaxVersion \in Nat /\ MaxLoad \in Nat /\ ChannelSize \in Nat \ {0}
  /\ NoOp \notin Ops
  /\ Absent \notin Nat /\ Mixed \notin Nat
  /\ NoRow \notin [result : {"none", "success", "failed"}, of : Versions]

VARIABLES
  pc,       \* how far each operation is
  read,     \* the configuration each operation has in its hands
  turn,     \* who has the switch's turn
  pending,  \* pending_config_reload
  files,    \* what the files hold: [kind, version]
  unsent,   \* file events that the notifier's thread has not put into the channel
  unread,   \* file events in the channel, which the watcher has not received
  stored,   \* the switch's configuration in memory, or Absent
  device,   \* the configuration on the switch
  row,      \* the row of switch_status; row.of (history) is the version applied
  clock,    \* history: versions given out
  newest    \* history: the newest version a OneReload has applied

ops == <<pc, read>>
gate == <<turn, pending>>
disk == <<files, unsent, unread>>
vars == <<ops, gate, disk, stored, device, row, clock, newest>>

(* idle      not there                                                     *)
(* loading   is about to read the files                                    *)
(* loaded    has read them                                                 *)
(* swapped   memory holds what was read, the row is not yet reset          *)
(* trying    the row is reset, the turn not asked for                      *)
(* refused   (watcher) the switch is busy, the reload not yet queued       *)
(* waiting   (job) answered 202, in line for the turn                      *)
(* applying  has the turn and works on the switch                          *)
(* applied, failed      the work is over, the row not written              *)
(* expired   (job) the wait is over, the row not written                   *)
(* recorded  the row is written, the turn not given back                   *)
Stages == {"idle", "loading", "loaded", "swapped", "trying", "refused", "waiting",
           "applying", "applied", "failed", "expired", "recorded"}

Rows == [result : {"none", "success", "failed"}, of : Versions]
FreshRow == [result |-> "none", of |-> 0]

TypeOK ==
  /\ pc \in [Ops -> Stages]
  /\ read \in [Ops -> Versions \cup {Absent}]
  /\ turn \in Ops \cup {NoOp}
  /\ pending \in BOOLEAN
  /\ files \in [kind : Kinds, version : Versions]
  /\ unsent \in Nat /\ unread \in 0..ChannelSize
  /\ stored \in Versions \cup {Absent}
  /\ device \in Versions \cup {Mixed}
  /\ row \in Rows \cup {NoRow}
  /\ clock \in Versions
  /\ newest \in Versions

Content == IF files.kind = "good" THEN files.version ELSE Absent

\* The service has loaded readable files and started all its tasks, without
\* --apply-on-startup.
Init ==
  /\ pc = [o \in Ops |-> "idle"]
  /\ read = [o \in Ops |-> Absent]
  /\ turn = NoOp /\ pending = FALSE
  /\ files \in [kind : Kinds \ {"broken"}, version : {0}] /\ unsent = 0 /\ unread = 0
  /\ stored = Content
  /\ device = 0
  /\ row = IF stored = Absent THEN NoRow ELSE FreshRow
  /\ clock = 0 /\ newest = 0

Goto(o, stage) == pc' = [pc EXCEPT ![o] = stage]
Keep(o, c) == read' = [read EXCEPT ![o] = c]

\* The operation is over and its locals are gone.
End(o) == Goto(o, "idle") /\ Keep(o, Absent)

\* Bound: many changes while few requests are under way, or few while many are.
Room == clock + Cardinality({o \in Ops \ {Watcher} : pc[o] # "idle"}) < MaxLoad

--------------------------------------------------------------------------------
(* The turn                                                                *)

\* Mutant of Free: only the pending reloads are looked at.
FreeUnlessPending == ~pending

\* try_acquire_configuring.
Free == turn = NoOp /\ ~pending

\* apply_config takes a copy of the configuration in memory and answers 202.
AcceptApply(j) ==
  /\ Room
  /\ pc[j] = "idle"
  /\ stored # Absent
  /\ Keep(j, stored)
  /\ Goto(j, "waiting")
  /\ UNCHANGED <<gate, disk, stored, device, row, clock, newest>>

TakeTurn(j) ==
  /\ pc[j] = "waiting"
  /\ turn = NoOp
  /\ turn' = j
  /\ Goto(j, "applying")
  /\ UNCHANGED <<read, pending, disk, stored, device, row, clock, newest>>

\* QUEUE_MAX_WAIT_ASYNC is over.
Expire(j) ==
  /\ pc[j] = "waiting"
  /\ Goto(j, "expired")
  /\ UNCHANGED <<read, gate, disk, stored, device, row, clock, newest>>

\* reload_switch_config takes the turn before anything else (409 if it cannot).
BeginOneReload(o) ==
  /\ Room
  /\ pc[o] = "idle"
  /\ Free
  /\ turn' = o
  /\ Goto(o, "loading")
  /\ UNCHANGED <<read, pending, disk, stored, device, row, clock, newest>>

\* reload_config and the watcher ask for it when memory holds the new files.  Only
\* the switches of those files are applied to; a request skips a busy one.
TryTurn(o) ==
  /\ pc[o] = "trying"
  /\ IF read[o] # Absent /\ Free
     THEN turn' = o /\ Goto(o, "applying") /\ UNCHANGED read
     ELSE /\ UNCHANGED turn
          /\ IF o = Watcher /\ read[o] # Absent
             THEN Goto(o, "refused") /\ UNCHANGED read
             ELSE End(o)
  /\ UNCHANGED <<pending, disk, stored, device, row, clock, newest>>

QueuePendingReload ==
  /\ pc[Watcher] = "refused"
  /\ pending' = TRUE
  /\ End(Watcher)
  /\ UNCHANGED <<turn, disk, stored, device, row, clock, newest>>

--------------------------------------------------------------------------------
(* From the files to memory                                                *)

BeginReload(r) ==
  /\ Room
  /\ pc[r] = "idle"
  /\ Goto(r, "loading")
  /\ UNCHANGED <<read, gate, disk, stored, device, row, clock, newest>>

\* blocking_send: with no room in the channel the notifier's thread waits.
SendEvent ==
  /\ unsent > 0
  /\ unread < ChannelSize
  /\ unsent' = unsent - 1
  /\ unread' = unread + 1
  /\ UNCHANGED <<ops, gate, files, stored, device, row, clock, newest>>

ReceiveEvent ==
  /\ pc[Watcher] = "idle"
  /\ unread > 0
  /\ unread' = unread - 1
  /\ Goto(Watcher, "loading")
  /\ UNCHANGED <<read, gate, files, unsent, stored, device, row, clock, newest>>

\* AppConfig::load or load_multi.  Unreadable files end it: memory stays as it is.
\* A single-switch reload also ends when the switch is not among the valid ones;
\* its guard is dropped on the way out.
Load(o) ==
  /\ pc[o] = "loading"
  /\ IF files.kind = "broken" \/ (o \in OneReloads /\ Content = Absent)
     THEN /\ turn' = IF turn = o THEN NoOp ELSE turn
          /\ End(o)
     ELSE /\ Keep(o, Content)
          /\ Goto(o, "loaded")
          /\ UNCHANGED turn
  /\ UNCHANGED <<pending, disk, stored, device, row, clock, newest>>

\* The whole configuration is replaced, or this switch's.
Swap(o) ==
  /\ pc[o] = "loaded"
  /\ stored' = read[o]
  /\ Goto(o, "swapped")
  /\ UNCHANGED <<read, gate, disk, device, row, clock, newest>>

\* initialize_switches: the row of a switch that was loaded starts anew, that of
\* one that is gone stays.
ResetRow(o) ==
  /\ pc[o] = "swapped"
  /\ row' = IF read[o] = Absent THEN row ELSE FreshRow
  /\ Goto(o, IF o \in OneReloads THEN "applying" ELSE "trying")
  /\ UNCHANGED <<read, gate, disk, stored, device, clock, newest>>

\* A handler that can be dropped: it has an await ahead of it.  reload_config asks for
\* the turns of all switches before it spawns the work for the first.
Droppable(o) ==
  \/ pc[o] \in {"loading", "loaded", "swapped", "trying"}
  \/ o \in Reloads /\ pc[o] = "applying"

\* Mutant of Disconnect: the guard is not dropped with the handler.
DisconnectKeepingTurn(o) ==
  /\ Droppable(o)
  /\ End(o)
  /\ UNCHANGED <<gate, disk, stored, device, row, clock, newest>>

\* The client goes away: the handler ends wherever it is, its guard is dropped.
Disconnect(o) ==
  /\ Droppable(o)
  /\ turn' = IF turn = o THEN NoOp ELSE turn
  /\ End(o)
  /\ UNCHANGED <<pending, disk, stored, device, row, clock, newest>>

--------------------------------------------------------------------------------
(* From memory to the switch: apply_config_impl, apply_single_switch       *)

Apply(o) ==
  /\ pc[o] = "applying"
  /\ device' = read[o]
  /\ newest' = IF o \in OneReloads THEN read[o] ELSE newest
  /\ Goto(o, "applied")
  /\ UNCHANGED <<read, gate, disk, stored, row, clock>>

\* The connection fails, or one of the commands.
ApplyFails(o) ==
  /\ pc[o] = "applying"
  /\ device' \in {device, Mixed}
  /\ Goto(o, "failed")
  /\ UNCHANGED <<read, gate, disk, stored, row, clock, newest>>

\* Mutant of Record: the turn is given back with the work, the row is written later.
RecordLate(o) ==
  /\ pc[o] \in {"applied", "failed", "expired"}
  /\ IF turn = o
     THEN turn' = NoOp /\ UNCHANGED <<ops, row>>
     ELSE /\ row' = CASE row = NoRow -> NoRow
                      [] pc[o] = "applied" -> [result |-> "success", of |-> read[o]]
                      [] OTHER -> [result |-> "failed", of |-> 0]
          /\ End(o)
          /\ UNCHANGED turn
  /\ UNCHANGED <<pending, disk, stored, device, clock, newest>>

\* record_apply_success, record_apply_failure: nothing, if there is no row.
Record(o) ==
  /\ pc[o] \in {"applied", "failed", "expired"}
  /\ row' = CASE row = NoRow -> NoRow
              [] pc[o] = "applied" -> [result |-> "success", of |-> read[o]]
              [] OTHER -> [result |-> "failed", of |-> 0]
  /\ IF pc[o] = "expired" THEN End(o) ELSE Goto(o, "recorded") /\ UNCHANGED read
  /\ UNCHANGED <<gate, disk, stored, device, clock, newest>>

\* Mutant of EndTurn: what came in while the watcher was applying is taken to have
\* been covered by it.
EndTurnCatchingUp(o) ==
  /\ pc[o] = "recorded"
  /\ turn' = NoOp /\ End(o)
  /\ unread' = IF o = Watcher THEN 0 ELSE unread
  /\ UNCHANGED <<pending, files, unsent, stored, device, row, clock, newest>>

\* The guard is released; the watcher first takes a pending reload, and if there is
\* one applies what it has once more.
EndTurn(o) ==
  /\ pc[o] = "recorded"
  /\ IF o = Watcher /\ pending
     THEN pending' = FALSE /\ Goto(o, "applying") /\ UNCHANGED <<read, turn>>
     ELSE turn' = NoOp /\ End(o) /\ UNCHANGED pending
  /\ UNCHANGED <<disk, stored, device, row, clock, newest>>

--------------------------------------------------------------------------------
(* Files and edits                                                         *)

\* Somebody writes the files; the notifier hears of it.
WriteFiles ==
  /\ clock < MaxVersion /\ Room
  /\ clock' = clock + 1
  /\ \E k \in Kinds : files' = [kind |-> k, version |-> clock']
  /\ unsent' = unsent + 1
  /\ UNCHANGED <<ops, gate, unread, stored, device, row, newest>>

\* set_switch_config (which creates the switch if need be), patch_switch_config.
Edit ==
  /\ clock < MaxVersion /\ Room
  /\ "put" \in Edits \/ ("patch" \in Edits /\ stored # Absent)
  /\ clock' = clock + 1
  /\ stored' = clock'
  /\ UNCHANGED <<ops, gate, disk, device, row, newest>>

\* delete_switch_config.
Delete ==
  /\ "delete" \in Edits
  /\ stored # Absent
  /\ stored' = Absent
  /\ UNCHANGED <<ops, gate, disk, device, row, clock, newest>>

--------------------------------------------------------------------------------

Next ==
  \/ \E j \in Jobs : AcceptApply(j) \/ TakeTurn(j) \/ Expire(j)
  \/ \E r \in Reloads : BeginReload(r)
  \/ \E o \in OneReloads : BeginOneReload(o)
  \/ \E o \in Requests : Disconnect(o)
  \/ \E o \in Reloads \cup {Watcher} : TryTurn(o)
  \/ SendEvent \/ ReceiveEvent \/ QueuePendingReload
  \/ \E o \in Loaders : Load(o) \/ Swap(o) \/ ResetRow(o)
  \/ \E o \in Ops : Apply(o) \/ ApplyFails(o) \/ Record(o) \/ EndTurn(o)
  \/ WriteFiles \/ Edit \/ Delete

Spec == Init /\ [][Next]_vars

\* What has begun goes on: handlers, spawned tasks, the notifier's thread and the
\* watcher's loop; work on the switch that hangs is SwitchGate's.  Nobody owes the
\* service a request, a write, an edit or a disconnection.
Advance(o) == \/ Load(o) \/ Swap(o) \/ ResetRow(o) \/ TryTurn(o)
              \/ Apply(o) \/ ApplyFails(o) \/ Record(o) \/ EndTurn(o)

FairSpec ==
  /\ Spec
  /\ \A o \in Ops : WF_vars(Advance(o))
  /\ WF_vars(SendEvent) /\ WF_vars(ReceiveEvent \/ QueuePendingReload)

--------------------------------------------------------------------------------
(* Properties                                                              *)

\* last_result never calls success what is not on the switch: the row is written
\* before the turn is given back, so between turns a success names the version the
\* switch has (apply_config_impl, apply_switch_with_pending).
SuccessIsTrue ==
  turn = NoOp /\ row # NoRow /\ row.result = "success" => device = row.of

\* Reloads of one switch read the files with the turn, so a later one never brings
\* back an older version ("Atomically check-and-mark busy FIRST",
\* reload_switch_config).
OneReloadsGoForward ==
  [][\A o \in OneReloads : pc[o] = "applying" /\ pc'[o] = "applied"
       => device' >= newest]_vars

\* What makes the two properties above inductive.
\* Who works on the switch, and a single-switch reload from its first step, has the
\* turn.
HoldsTheTurn ==
  /\ \A o \in Ops : pc[o] \in {"applying", "applied", "failed", "recorded"} => turn = o
  /\ \A o \in OneReloads : pc[o] \in {"loading", "loaded", "swapped"} => turn = o

\* Only a job waits, only a loader loads, and only those who ask late try.
StageFitsKind ==
  \A o \in Ops : /\ pc[o] \in {"waiting", "expired"} => o \in Jobs
                 /\ pc[o] \in {"loading", "loaded", "swapped"} => o \in Loaders
                 /\ pc[o] = "trying" => o \in Reloads \cup {Watcher}
                 /\ pc[o] = "refused" => o = Watcher

\* Who is about to work on the switch has a configuration in its hands, and who
\* has applied it finds it on the switch.
ReadIsApplied ==
  /\ \A o \in Ops : pc[o] \in {"waiting", "applying", "applied", "failed", "recorded"}
                      => read[o] # Absent
  /\ \A o \in Ops : pc[o] = "applied" => device = read[o]
  /\ \A o \in OneReloads : pc[o] \in {"loaded", "swapped"} => read[o] # Absent

\* The row may only lag behind the switch while the result is being recorded.
RowFollowsDevice ==
  row # NoRow /\ row.result = "success" /\ device # row.of
    => \E o \in Ops : pc[o] \in {"applied", "failed"}

\* The versions in the hands of single-switch reloads are between the newest that
\* one has applied and the files'.
ReadsGoForward ==
  /\ newest <= files.version
  /\ files.version <= clock
  /\ \A o \in OneReloads : pc[o] \in {"loaded", "swapped", "applying"}
                             => newest <= read[o] /\ read[o] <= files.version

ReloadInv ==
  /\ TypeOK
  /\ HoldsTheTurn
  /\ StageFitsKind
  /\ ReadIsApplied
  /\ RowFollowsDevice
  /\ ReadsGoForward

\* Whoever has the turn gives it back, on every path: unreadable files, a switch
\* that is not in them, a client that goes away, a failed apply.
TurnComesBack == turn # NoOp ~> turn = NoOp

\* The watcher brings every change of the files to memory, or a later one: no event
\* is lost while it applies an earlier one, has been refused, has met unreadable
\* files or has no room in its channel.
FileChangeIsStored ==
  \A v \in Versions : unsent + unread > 0 /\ files = [kind |-> "good", version |-> v]
                        ~> stored = v \/ files.version # v
================================================================================
