# A verification of switch-configurator

`switch-configurator` is a Rust service that configures Aruba, Cisco and FortiSwitch
switches over SSH or a serial console, and a small web UI in front of it. This
directory holds TLA+ models of it, the TLC runs that check them and the proofs that
TLAPS checks. Paths below are relative to `src/switch-configurator/src/` unless they
start with `ui/`, which stands for `src/switch-configurator-ui/src/`.

Contents: [the system](#the-system) · [modules](#modules) · [runs and bounds](#runs-and-bounds)
· [fairness](#fairness) · [proofs](#proofs) · [what the models leave out](#what-the-models-leave-out)
· [disagreements found](#disagreements-found) · [not modelled, and what could follow](#not-modelled-and-what-could-follow)

## The system

One process serves an HTTP API (TCP and optionally a Unix socket), watches its
configuration files and refreshes its caches in the background. Every request is a tokio
task, and every switch is a *device that takes one session at a time* (a serial console,
or a login whose commands must not interleave). Almost everything that can go wrong
follows from these two facts.

| Component (source) | State | Operations | Interacts with |
|---|---|---|---|
| Per-switch turnstile (`status.rs`) | a one-permit FIFO semaphore and a counter of waiters per switch; the sets `currently_configuring` and `pending_config_reload` | `try_acquire_configuring`, `acquire_configuring_queued`, `ConfiguringGuard::release` and its `Drop`, `WaitingToken`, `queue_config_reload`, `take_pending_config_reload` | every handler that talks to a switch, the watcher, the refresher |
| Session pool (`session_pool.rs`) | at most one idle vendor session per switch, with the fingerprint of its settings and a token; idle timers | `checkout`, `release`, `discard`, `close_idle`, `close_if_token` | lookups and PoE (reuse), apply, reload and `get_config` (close before they connect) |
| Lookup caches and refresher (`api/handlers.rs`, `config.rs`) | two caches in `ConfigStore` (MAC table, port status), each entry with its fetch time and a generation id | `get_mac_table`, `get_port_status`, `refresh_all_lookups_once`, removal on DELETE and on reload | turnstile, pool, SNMP |
| Status records (`status.rs`) | counts, last result, last attempt per switch; a ring of 50 errors; validation issues | `initialize_switches`, `record_apply_success/failure/warnings`, `record_error`, `get_status` | all who apply; the UI polls |
| Reload and in-memory edits (`api/handlers.rs`, `watcher/mod.rs`) | the merged configuration behind a lock | `reload_config`, `reload_switch_config`, PUT/PATCH/DELETE, `start` of the watcher, `apply_all_configurations`, `apply_switch_with_pending` | turnstile, status records, caches, pool |
| Startup and one-off apply (`main.rs`, `validation/mod.rs`) | none of its own; running and saved configuration of the switch | `apply_configuration_once`, `configure_switch_once`, validation tests and rollback | vendors |
| PoE (`api/handlers.rs`) | port power on the switch | `poe_set`, `poe_reset` | turnstile, pool |
| Loading, merging, validating (`config.rs`, `config/errors.rs`, `models.rs`) | none: pure functions on files | `merge_configs`, `validate_switch_identity`, `expand_port_ranges`, `resolve_vlan_names`, `validate_switch_config` | reload, startup |
| Diff and command generation (`diff/mod.rs`, `vendors/*`) | none: pure functions on two states | `compute_diff`, the vendors' command builders | apply, preview |
| SSH and jump chain (`ssh/client.rs`, `jump_*.rs`) | sessions and local port forwards | `connect_with_retry`, `connect_via_jump_chain`, `establish`, `disconnect` | vendors |
| Serial console (`ssh/serial.rs`) | the login dialogue | `connect_with_retry`, `login_inner` | vendors |
| SNMP (`snmp/*`, `snmp_reads.rs`) | none | walks, mapping of interface indices | lookups |
| Secrets, redaction, allowed hosts | none | text substitution, address checks | loading, API |
| HTTP and Unix-socket server, events (`api/server.rs`) | an event broadcast of 64 entries | routing, SSE | all handlers |
| Web UI (`ui/`) | drafts of switch configurations per session | draft edits, save, proxying | the API |

What makes each part hard, and what makes it correct:

* **Turnstile.** Threads meet at a flag, a semaphore and a counter that are *not* changed
  in one step: the permit comes first and the flag later, the flag is cleared first and the
  permit given back later, and any of the steps may be cut off by a client that
  disconnects, a timeout or a panic. Correct: one operation per switch, flag and counter
  exact in every state, the permit never lost, FIFO order, nobody waits for ever, a queued
  reload is taken up.
* **Session pool.** A session changes hands between an operation, the slot and an idle
  timer; every hand-over has an `await` in it at which the holder may be dropped.
  Correct: every connection has exactly one owner, a session is reused only for the
  settings it was made with, only the timer armed for a kept session closes it, and one does.
* **Caches.** Requests check, wait, check again, fetch, give the turn back and write; a
  refresher and deletions run in between. Correct: an ETag names one snapshot, `fresh` is
  live, those who waited behind the refresher are served from the cache.
* **Status records.** Several writers, one reader that combines fields. Correct: counts
  add up, the ring keeps the newest, a reader never sees a result of another apply as this one's.
* **Reload.** Files are read, merged and swapped in while applies work from copies.
  Correct: a reported success is true, reloads of one switch go forward, a change of the
  files reaches memory, the turn comes back.
* **Apply, validation, rollback, PoE reset.** Sequences in which every step may fail, against a
  switch that keeps what was done before the failure. Correct: the next undisturbed apply
  gets to the wanted state and leaves alone what it does not manage; nothing is saved when
  validation failed; a port is not reported done without power.
* **Diff and vendors.** Pure, but what is read, compared and sent must fit together.
  Correct: applying the diff leads to a state whose diff is empty.
* **Loading and merging.** Correct: every row comes from the best file that has it, what is
  loaded is consistent, and one switch's failure changes no other switch.
* **Command line.** Nothing marks the end of an answer. Correct: a command returns its own
  answer, all of it, and returns.
* **Serial login.** The console is wherever the last user left it. Correct: who is connected is
  logged in, no password is tried twice, a factory-reset switch gets its password.
* **SSH and jump chain.** Retries after a partial failure. Correct: the client talks to its
  switch, and what was opened on a jump host is closed.
* **UI drafts.** Read, await, write back. Correct: an accepted save arrives.

The file `PROJECT.json` lists the hazards one by one with the line where each bites and
the properties that cover it.

## Modules

    Turnstile          what the callers of one switch are promised (abstract)
      ^ implemented by
    SwitchGate         the mechanism of status.rs           proofs: SwitchGateProofs
    SessionPool        the pool and those who use it        proofs: SessionPoolProofs
    LookupCache        one lookup cache, readers, refresher proofs: LookupCacheProofs
    ConfigReload       files, memory, switch, status row    proofs: ConfigReloadProofs

    SwitchModels       models.rs: what a model can do, the records of a configuration
      ^ StateDiff      diff/mod.rs
      ^ SwitchDevice   a switch and what each command does to it (external)
          ^ ArubaSwitch, FortiSwitch, CiscoSwitch     what a vendor reads and sends
    ApplyPipeline      = StateDiff + SwitchDevice + the three vendors: one operation from start to outcome
                                                            proofs: ApplyPipelineProofs

    CommandShell       one command and its answer, over SSH or serial
                                                            proofs: ClientProofs
    SshConnect         attempts, jump chain, port forwards  proofs: ClientProofs
    ConsoleLogin       from opening the serial device to a shell
                                                            proofs: ConsoleLoginProofs

    ConfigMerge        SwitchModels + loading and merging of files
      ^ OverlayFiles   files, memory, drafts of the UI, save and delete requests
                                                            proofs: OverlayFilesProofs

Each state machine has an `MC...` module that extends it with the sets of its run.

Everything that concerns one switch is keyed by the switch, and nothing is shared between
two switches but locks that are held for one critical section. The modules of the first,
second and third group therefore describe *one* switch; `OverlayFiles` has two, since
loading is where switches meet.

**SwitchGate.** A step is one critical section of the tracker's `RwLock` or one atomic action
of the semaphore. `pc[o]` says how far an operation is; `queue`, `permit` and `waiting` are
the semaphore with its waiters and `SwitchGate.waiting`; `configuring` and `pending` are the
switch's membership in the two sets. tokio's fair semaphore hands a released permit to the
first waiter before that waiter runs: `PassPermit` gives `permit` to the head, which is
"queued" until it wakes up. `Arrive`, `WakeUp`, `SetFlag`, `LeaveLine` and `DropFuture` are
`acquire_configuring_queued` cut at its awaits; `TryAcquire` is the one write-locked section
of `try_acquire_configuring`; `Release` and `DropPermit` are `release()`, `DropGuard`,
`CleanupClears` and `DropPermit` are `Drop` with its spawned task. The callers are jobs
spawned after a 202 (they cannot be dropped), reads awaited in a handler (they can), callers
that do not wait, and the watcher, which queues a reload instead. The watcher's guard is never
dropped unreleased: a panic of the watcher ends the service (`main.rs:245`). `Hang` is a write to the serial line that does not return (`write_all`, `flush` and
`clear_buffer` have no timeout, and `try_acquire_configuring` tells of an incident): all but the reads, which have a limit of their own, may stay
in it, and keep flag and permit, for ever.

**Turnstile.** A line, the operation being served and the flag. `SwitchGate` maps to it with the
permit's owner standing *at the head of the line until its flag is set*, so that `SetFlag` is
`Serve`, `TryAcquire` is `Enter`, and `Release` or `CleanupClears` is `Finish`.

**SessionPool.** `TakeTurn` and `EndOperation` are the turn as `Turnstile` promises it. An
operation reads its configuration (`Ask`), gets the turn, takes the kept session (`TakeKept`,
`Resume`) or closes it (`CloseKept`), opens one (`Open`, `OpenFails`), works, and keeps
(`KeepSession`), hands over or closes it; `Abandon` is the dropped future or the timeout, at
every stage at which one exists. An idle timer is a sleeping task with a token (`timers`); it
takes the session out of the slot in one step (`TimerFires`) and closes it in a later one
(`TimerCloses`, the session is in `dying` meanwhile). `made[c]` is the settings a connection was
opened with and, for the kept one, what `fingerprint` stored.

**LookupCache.** What the switch would answer is a version number, so that "older" has a
meaning. `Ask`, `Hit`, `LineUp`, `TakeTurn`, `RecheckHit`, `RecheckMiss`, `Fetch`, `Release`,
`Land` are a request in the order of the code (it gives the turn back *before* it writes);
`ReadSnmp` is the read over SNMP without turn or second look; `StartCycle`, `TryTurn`,
`RefresherLand`, `EndCycle` are the refresher (it writes *before* it gives the turn back);
`Delete` with `RemoveEntry` is DELETE or a reload through the API, `WatcherDrops` the reload of the
watcher, which does not touch the caches.

**ConfigReload.** A configuration of the switch is a version number; `files`, `stored`, `read[o]`, `device`
and `row` say where which version is: on disk, in memory, in the hands of an operation, on the
switch, and behind the result in GET /status. `BeginReload`, `Load`, `Swap`, `ResetRow`, `TryTurn` are
`reload_config` and the watcher's loop (they ask for the turn *after* memory was replaced);
`BeginOneReload`, `Load`, `Swap`, `ResetRow` are `reload_switch_config` (it has the turn *before* it reads).
The same action stands for the same step of the three callers, since they are written out
three times in the code; where they differ the action says so. `Apply`, `ApplyFails`, `Record`, `EndTurn`
are `apply_config_impl` and `apply_switch_with_pending` with `apply_single_switch`. `Disconnect` ends a handler at
any of its awaits; `reload_config` collects the turns of all its switches before it
spawns the first task, so it can be dropped with turns in its hands (`Droppable`). `Edit` and `Delete` are PUT, PATCH and DELETE,
each one critical section of the configuration's lock. Files are good, without a valid entry for the
switch (`absent`), or unreadable (`broken`). The notifier's thread puts an event for every change into the
channel of the watcher (`unsent`, `SendEvent`) and waits while there is no room (`ChannelSize`). `clock`, `newest` and `row.of` are history.

**SwitchModels, StateDiff.** The vocabulary and the difference. A keyed list is a function, an `Option` a set
of at most one; the text of a name matters only by being equal or not. `compute_diff` and its parts
keep the names and the conditions of `diff/mod.rs`; a list that the code collects from a `HashMap` is a set,
and whoever walks it picks an order.

**SwitchDevice, ArubaSwitch, FortiSwitch, CiscoSwitch.** A device is a record: VLANs, untagged and tagged
membership, ports, layer 3 interfaces, mirrors, SNMP, the management VLAN. A command is a record, and
`SwitchDevice` says what it does; none of this is code of the repository, it is how the generators and parsers
take the switches to behave. A vendor module has two halves: what `parse_*` finds in a device, and the
sequence of batches the command builders send for a diff, in the order of `apply_configuration`. The regular
expressions are left out. `ParsedStates` and `Answers` are sets where the code walks a `HashMap`.

**ApplyPipeline.** One process, as the turnstile promises. `Start` picks an operation: `once`
(`configure_switch_once`, with validation), `apply` (the API and the watcher, without), `poe_on`, `poe_off`,
`poe_reset`. `Connect`, `ParseAndDiff`, `SendBatch` (one batch; `BatchBreaks` stops between any two of its lines,
with those before it done), `Verify` (the convergence check, which only warns), `Results`, `RunTest`, `Validated`,
`rollback_configuration`, `save_configuration` are the steps; each has its failure, and `PowerLoss` takes
the switch back to what it starts from. `PoeStepFails` is a PoE command that fails, and the switch may have carried it out although its answer was
lost; the enabling of a reset is tried once more. `rejected` (the configurations that failed their tests) and `clean` are history.

**CommandShell.** An answer is a sequence of *pieces*. A read of the clients ends anywhere, within a line too, and what has come by then is searched; so a line is cut into pieces
wherever it makes a difference to what they look for that a read ends there: behind the `>` of a text that goes on (`promptlike`, `rest`), behind `-- MORE --` and before `, next page: ...` (`pager`, `tail`), behind
`password:` in the middle of a text (`ask`, `rest`). `Receive` takes any number of pieces that are there; `Confirm` and `IdleSettle`
end the command when nothing came for the confirmation delay; `TimeOut` ends it anyhow. The switch waits for a key behind the tail of a pager, behind "press any key", and behind `--More--` (`more`), which
neither client looks for. The two clients differ in what they skip in a dry run, in whether the line is cleared before a command and in how a pager is
looked for when the line is idle; the rest is the same in both files and is one definition. `given` (what the switch chose to answer) is history.

**ConsoleLogin.** The console has a place (login, password, user shell, ...), a password, may demand a new one and may
be asleep. `Type` is what a line does there (external); a text is the sequence of the words the client looks
for. `login_inner`, `Decline`, `LeaveConfig`, `Credentials`, `Policy`, `maybe_complete_forced_password_change`,
`Recover`, `Terminated`, `enter_privileged_mode` with `Enable` and `EnableCheck`, `verify_connectivity` and the vendors' set-up are the
client. A read may come before the text it waits for; `early` counts how many did (history).

**SshConnect.** One client, its attempts and what they leave behind. `establish` connects a hop and starts its
forward, a task with a life of its own (`tasks`); `connect_target` goes through the last one with host and port
replaced by the tunnel's, `Restored` puts them back, `open_shell` ends the attempt; `TimesOut` cuts it off at any of these steps
and restores nothing. `TaskEnds` and `ChannelEnds` are a forward that finds its connection gone. Its specification is `ConnectSpec`, with names of its own, so that one proof module can extend both clients.

**ConfigMerge, OverlayFiles.** `load_multi(main, folder, secrets)` is the pure function: reading, merging switch by
switch, ranges, VLAN names, references, validation; a switch that fails is kept with a
preview. The code sorts the files (a stable sort by priority) and the first that says something wins; here the rows of a switch are a set
with an order (`Precedes`: priority, then main file before folder, then the alphabet, then the place in the file), and the row that wins is the
least (`BestOf`). The tagged VLANs of a port are a list in the order of the file, with what is in it twice, as
`ports_equivalent_for_model` later compares them in order; only the resolution of names takes each once (`Firsts`, `config.rs:1473-1505`), and the filter of VLANs that are not there keeps the order (`Among`). `OverlayFiles` adds who changes the files. An edit of the UI is `Take` (copy of the draft, the await on the backend)
and `Store`; a save is `TakeForSave`, `Post`, `CheckSave`, `WriteSave` and `Answer`; `PostBody` is a client that is not the UI. The
form handlers (`add_vlan`, `update_ports`, `add_mirror`, ...) keep their names. `loaded` (the files memory was loaded from) and `accepted` (the last
save that wrote into the files it was checked against) are history; an overlay without a switch promises nothing and is not an `accepted` one.

## Runs and bounds

| Run | Instance | What it shows |
|---|---|---|
| `gate` | 2 jobs, 2 droppable reads, 1 caller that does not wait, the watcher; all but the reads may hang; 6,768 states | one operation at a time, flag and counter exact, the permit never lost, the refinement of `Turnstile`; the flag clears and the line moves unless somebody hangs |
| `gate_pending` | 1 job and the watcher | a queued reload is *not* taken up (disagreement 1) |
| `pool` | a lookup, a PoE operation, an apply, a `get_config`; 2 connections, 2 settings, 2 keeps; 381,264 states | single ownership, reuse only with the same settings, timers hit their own session only, a kept session ends |
| `cache` | a reader over console or SNMP, a `fresh` reader, the refresher, DELETE, the watcher, re-creation; 462,796 states | ETags name snapshots, `fresh` is live, nobody fetches what the refresher has just written |
| `reload` | an apply, a full reload, two reloads of the switch, the watcher, all kinds of files and edits, two changes, room for one event; 418,421 states | a success in the row is true, reloads of one switch go forward, the turn comes back, the last change of the files reaches memory, also if its event comes while the watcher applies, was refused the switch or has just failed to read |
| `apply` | 41 pairs of a configuration and a switch of the three vendors, any sequence of the five operations, one fault; 35,808 states | an undisturbed apply converges whatever the fault left, exactly when the tagged VLANs of every port are listed upwards, "no changes" is true, ports stay in VLANs that exist, unmanaged ports and wanted communities are kept, a configuration that failed its tests is not saved by a one-off run, a done port has power, operations end |
| `forti_management` | the same pairs, no fault | an unchanged FortiSwitch configuration *does* lock out ssh (disagreement 2) |
| `shell` | five scripts, one whose first command may fail, both transports, dry run or not, both pagers, questions, look-alikes, all of them cut anywhere, pauses, two log lines, timeouts; 12,484 states | a command returns its own answer, all of it, and returns |
| `login` | three vendors, eleven places, three passwords, asleep or awake, up to ten reads that come too early; 42,075 states | who is connected is logged in (if at most one read came too early), no password twice, a factory-reset switch gets its password |
| `ssh` | direct, one and two jump hosts, with and without credentials, three attempts; 1,405 states | the client talks to its switch, sessions on one jump host end |
| `overlay` | a main file of two switches, two folder files, secrets, two tabs, one change by hand, three requests; 235,519 states | what is loaded is consistent and comes from the best file, other switches do not change, an accepted save arrives, with the order of its tagged VLANs |
| `overlay_identity` | the same | an overlay that restates an identity *is not* harmless (disagreement 3) |

Why the bounds are enough. *Gate*: two droppable waiters behind two that are not give every
order in which a line of three can lose its head, middle or end; nothing is bounded but the
number of callers, and an operation that is over may come again without limit. *Pool*: with the turn held by
one, at most two connections are of interest (the kept or used one and the one that a timer
is closing, or `get_config`'s), and two keeps let the timer of the first fire after the second
(`MaxKeeps` bounds the history counter, not the operations: `Ask` stops when the number could
be exceeded, so no operation is stuck half-way). `preview_diff` (`Previews`) has no member in the run: with it the pool has more
than 3.4 million states; the invariant is proved for any number of them.
*Cache*: three writes (`MaxGen`) are those of two readers and the refresher in any order, one change of the answer
(`MaxVersion`) tells older from newer. *Reload*: two reloads of one
switch are the fewest whose readings can cross, and one change in between tells older from newer; a second change (`MaxVersion`) is the one whose event meets the watcher at work on
the first, after it was refused the switch or failed to read, or waits for room (`ChannelSize` is 1 here and 100 in the code; the proofs are for any). `MaxLoad = 3` bounds changes and
requests under way together: three requests before the first change, two after it, one after the second; whoever is through may come again without limit.
*Apply*: operations come without limit; `MaxFaults = 1` breaks one of them at any line, and an apply starts from what it
reads and not from what an earlier one remembers, so one broken apply and one after it are the case of interest. The pairs were chosen by the cases of the diff and
of the generators: rows to add, to change and to remove, of each kind, for each vendor that supports it; two tagged VLANs are the fewest whose order can differ, and are there upwards, downwards, and one twice.
*Shell*: two commands are needed for an answer to reach the wrong one, the third follows a failure; two pages are needed for a stale marker to answer the wrong one, and every kind of piece ends a read in some behaviour. *Login*: a connect is a finite dialogue; three
lengths of sleep are none, one that the first key presses of the recovery outlast, and one that outlasts all of them; with `MaxLate = 10` early reads a login can pass every step without having read its text (two pass `verify_connectivity`), up to a set-up whose words go to the password prompt. *SSH*: the third attempt is the first that finds leftovers of two.
*Overlay*: three requests are a draft, an edit and a save, or two of them crossed by another tab's; `Symmetry` permutes the tabs, and the run has no liveness.

Deadlock is checked in every run but the two of `OverlayFiles`, where the bounds on requests and changes end the behaviour.

## Fairness

* `SwitchGate!FairSpec`: woken tasks run, a guard's holder that does not hang finishes, the cleanup task runs. The first and
  third are tokio's. The second is what the code's own limits give: lookups end after
  60 seconds, and apply and PoE read with timeouts. Their writes (`write_all`, `flush`) have none, and whoever hangs in one (`Hang`) owes nothing: the two properties of the
  run are about the time until then, so they cover the exits of a holder and not the incident that `status.rs:244` tells. No request, timeout or
  disconnection is owed: the line moves without them.
* `SwitchGate!EventfulSpec` adds that the watcher keeps getting file events; the queued reload is not taken up even then.
* `SessionPool!FairSpec`: only the timers are fair (they sleep, fire, close). Nothing is owed by the
  operations, as a kept session must not need another request to be closed.
* `ConfigReload!FairSpec`: a reload that has begun goes on, an apply ends (a write that hangs for ever is assumed away here; `SwitchGate` has it), the notifier's thread sends when there is room, and the watcher
  receives what it is told. Waiting jobs, requests, writes, edits and disconnections are not owed.
* `ApplyPipeline!Spec`: an operation that has begun takes its next step; failures are not owed, nor is a next operation.
* `CommandShell!Spec`: the client reads what is there and its delay runs out; the switch answers what it was sent. The timeout is *not*
  owed: `CommandEnds` shows that a command ends without it, as long as no answer has had a `--More--` in it.
* `SshConnect!Spec`: an attempt takes its next step (every await is under the connection timeout), and a forward notices that
  its connection is gone. Nothing makes the client disconnect.
* `LookupCache`, `ConsoleLogin` and `OverlayFiles` have no fairness; their properties are safety.

## Proofs

All are checked by TLAPS for every value of the constants under the named assumptions of the modules (`OpsAssumption`,
`PoolAssumption`, `CacheAssumption`, `ReloadAssumption`, `ConnectAssumption`, `ConsoleAssumption`, `AnswerAssumption`, `ScriptAssumption`, `LimitAssumption`, `ScenariosAreTyped`,
`FilesAssumption`, `FilesAreTyped`, `PortsAreTyped`): the kinds of callers are disjoint where the code makes them so,
the markers for "nobody" are not callers, the callers of the gate are finitely many, bounds are natural numbers; for those that end in `Typed` see `ApplyPipelineProofs` and `OverlayFilesProofs`, for `AnswerAssumption` `ClientProofs`.

* `SwitchGateProofs`: `GateInvariance`, `Spec => []GateInv`, and from it types (`GateTypes`), mutual exclusion, the faithful flag,
  the permit that is never lost and the exact counter. The four properties are not inductive by
  themselves. `GateInv` adds that past the line an operation owns the permit until it gives it back
  (`PermitOwners`: this is what makes two holders impossible) and that the line holds each
  waiting operation once and not the one that was handed the permit (`LineIsClean`: without it a
  timeout in the moment of the hand-over could remove another's place). The lemmas
  `TailOfLine` and `WithoutOne` say what leaving the line from the head or from
  the middle does to a sequence, `CountFollows` how the number of waiters changes when one
  operation moves.
  `GateImplementsTurnstile`, `Spec => T!Spec`: every step of the mechanism is a step of the abstract
  turnstile or a stutter. It uses `GateInv` in every step, above all to know that the one who
  is served is the permit's owner.
* `SessionPoolProofs`: `PoolInvariance`, `Spec => []PoolInv`, and from it types, ownership, settings, timers and "one live
  session". `PoolInv` adds that an operation has the turn from its admission to its end
  (`TurnIsHeld`), that the stage tells whether it has a session in its hands (`HandsMatchStage`), that after
  its look into the slot an operation with the turn has left it empty (`SlotStaysEmpty`: so `release`
  never overwrites a kept session), that a session being probed already fits (`ProbesItsSettings`) and that
  tokens are given out once (`TokensAreOld`: so an old timer never matches).
* `LookupCacheProofs`: `CacheInvariance`, `Spec => []CacheInv`, and from it that an ETag names one snapshot, that nobody fetches again behind
  the refresher and, as an action property, that an answer to `fresh` was read after the request. `CacheInv` adds that who reads or rechecks has
  the turn (`HasTheTurn`), which stages a reader can be in (`StageFitsKind`), that no generation in use is newer than the counter
  (`GenerationsAreOld`: so a new entry never gets an ETag that is out), that an entry owed to a waiting request is in
  the cache (`OwedIsThere`) and that what a `fresh` reader holds was fetched after it asked (`FetchesAreLater`).
* `ConfigReloadProofs`: `ReloadInvariance`, `Spec => []ReloadInv`, and from it that a success in the row is true between turns and
  that reloads of one switch go forward. `ReloadInv` adds that who works on the switch has the turn, and a
  single-switch reload has it from its first step (`HoldsTheTurn`), which stages an operation can be in
  (`StageFitsKind`), that who is about to apply has a configuration and who has applied finds it on the switch
  (`ReadIsApplied`), that the row lags behind the switch only while somebody is recording (`RowFollowsDevice`) and that the versions
  in the hands of single-switch reloads lie between the newest applied and the files' (`ReadsGoForward`).
* `ClientProofs`, for `SshConnect`: `ConnectInvariance`, `[]ConnectInv` for chains of any length, and from it `ReachesTheSwitch`. `ConnectInv` adds that outside the
  steps to the target host and port are the switch's (`AddressIsRestored`), that the last forward of every attempt, earlier ones too, leads to the
  switch (`LastForwardsLeadThere`: a client may meet a forward that an earlier attempt left), and that nothing is connected without credentials.

  For `CommandShell`: `ShellInvariance`, `Spec => []IInv`, for every script, every set of answers, every cut of them into reads and any number of log lines, and from it
  `CommandsReturnTheirAnswers`: a command that succeeds returns its own answer and all of it, if no command before it failed and its answer and those before it are *plain* (`Plain`). The condition is what the clients need of a switch, and not more: no `--More--`, which they do not
  answer; `password:` nowhere but at the end, since a read that ends behind it returns at once (`serial.rs:883`); "press any key", which clears the buffer, only before any text. Where a read ends is not restricted: a pager may be cut in its middle, and an answer with one is plain.
  An answer is at any moment in three places: what the client has accumulated, what it has not read, and what the
  switch has not written. `ShellInv` says, as long as no command has failed and the answers are plain, that together they make up the answer as far as no key takes it away (`AnswerIsKept`), and what must be true for the client to end there and not before:
  the switch has not seen the command (`NotTaken`) or has (`Taken`), and then nothing of another command is in these places (`OfThisCommand`), a "press any key" comes before all that counts (`KeyComesFirst`),
  behind a question there are only log lines (`QuestionComesLast`: otherwise the client would end with lines still to come), what the switch waits at has been answered or is still to be read, and so it is when the marker of a pager is out and its tail is not
  (`HeldPieceIsSeen`: the client may type the key for a pager before the switch waits for it), in what is still to be written every tail follows its marker (`TailsToCome`), and between commands the switch has nothing to say (`Settled`). `LateCommands` is
  about the time after a timeout: a command that is still to be carried out failed or comes after one that did, or after an answer that is not plain, so what the switch answered before is not chosen anew. The pieces that count are picked by a recursive *function* (`Keep`);
  what it does to concatenations, to a part of an answer and to stripped pagers is proved by set-based induction. `AnswerAssumption` is what the model takes an answer to be: it ends with a prompt or a
  question, and a pager is a marker and its tail.

* `ConsoleLoginProofs`: `Invariance`, `Spec => []IInv`, for every vendor, every state a console may be left in and any number of early reads, and from it
  `ConnectedIsAlwaysLoggedIn`, `TriesAreAlwaysFew` and `FactorySwitchIsAlwaysBootstrapped`. Three layers:
  1. *What lines do to a console.* `Leaves(c, L, r)` says what typing lines out of `L` to the console `c` may have led to: what it says is true of where it is then (`Speaks`), nothing leads out of a shell
     (`Moves`), keys alone never give a password unless one is being asked for (`Knocks`). `TypeLeaves` shows it of one line by the places, `ThenLeaves` of one more, `TypeAllLeaves` of any
     number, by the same set-based induction over the recursive function in `TypeAll` as below.
  2. *What an exchange leaves unread.* `Reads`: the text and what stays behind it are together what was unread and what was said, and both still tell the truth of the console (`Tells`). This is what makes an early
     read harmless: a stale prompt is only ever found where the console has got to a shell.
  3. *The steps*, one lemma each, keep `IInv`: `Unread`; `Tried` (which passwords have been given by which step; a login that gave none is in a shell); `Stands` (where the console may be at each step: no step but
     `confirm_password` meets the confirmation prompt, `credentials` never types into a half-answered password); `Bootstrap` (the one way a factory-reset switch takes if nothing is late). TLC checked `IInv` as
     an invariant of the run and, from all states that satisfy it, as inductive.

  The proof attempt corrected the model's claims: checked with three early reads only, "no password is tried twice" seemed to hold always, but it had no inductive invariant, and with ten TLC shows the set-up of a FortiSwitch
  typing its commands as user names and passwords. `TriesAreFew` is now about the login, and about the set-up as far as `ConnectedIsLoggedIn` goes.

* `ApplyPipelineProofs`: `Invariance`, `Spec => []IInv`, for every switch of the three vendors, every configuration, any number of operations
  and of failures, and from it five properties. Its four parts:
  1. *What a command does.* `Follows(x, P, d, e)` says what has become of a switch `d` after commands of the apply of `x` that may change the ports in `P`: the VLANs that stay are there still,
     and a port outside of `P` that is only in such VLANs is as it was (`ExecuteFollows` for one line, `RunFollows` for a list). On an Aruba switch each port stays in VLANs that exist.
  2. *What a plan is made of.* `Fits` says which commands such an apply may send: no VLAN that stays is removed, no port outside of `P` is set. One lemma per command builder of each vendor leads to
     `ArubaPlan`, `FortiPlan`, `CiscoPlan` and `AnswersArePlans`: everything `apply_diff` sends is a `Plan`. On Aruba the VLANs that ports are put into are created by earlier batches or are on the switch already
     (`VlansFirst`).
  3. *The operations keep `IInv`*, which is `Devices` (running and saved configuration are such as a switch can have), `Phases` (which operation takes which step, with which commands),
     `Sending` (what is *still* to be sent is a plan, with the VLANs first, for the switch as it is now: needed of the rest and not only of the first list, since the switch changes between the batches and a
     fault may stop anywhere) and `Validation` (a configuration that failed its tests is not the one a one-off run is about to save). TLC checked `IInv` on the `apply` run before it was proved.
  4. *What nothing to do means.* When a diff is empty, what the parsers of Aruba and FortiOS found is what is wanted (`ArubaIsConfigured`, `FortiIsConfigured`), hence `NothingToDoIsTrue`. Cisco
     is outside the property, as its parser finds no VLAN and no port.

  From these: `PortsAlwaysInKnownVlans`, `UnmanagedPortsAreAlwaysKept`, `FailedValidationIsNeverSaved`, `DonePortAlwaysHasPower`, `NothingToDoIsAlwaysTrue`. The assumption
  `ScenariosAreTyped` says that a configuration is one that serde and a load let in (lists are finite, enumerations have their values, a port is in VLANs of its switch: that is `LoadedIsConsistent`, proved below)
  and that the switch is found in a state a switch can be in; on FortiOS and Cisco its ports may be in VLANs that do not exist. Recursion over batches and lines is a recursive *function* (`Run`), and what it computes is proved by the set-based
  `Induction` lemma, which needs no operator as parameter: the set of the lengths for which the claim holds contains 0 and with every number its successor.
* `OverlayFilesProofs`: `Invariance`, `Spec => []IInv`, and from it `RowsAlwaysComeFromTheBestFile` and `OtherSwitchesAreNeverTouched` (`LoadedIsAlwaysConsistent` needs the stronger invariant below), for any main
  file, folder, number of tabs, edits and requests. `IInv` says that the files on disk, and the bodies that requests under way carry, have the form a load relies on (each row has its
  fields, a priority is a number, if there is one), and that memory is `load_multi` of the files it was loaded from (`MemoryIsLoaded`; `loaded` is history). The first part is what makes the second useful: `write` puts rows of
  a request into a file, and a load of it must have a best row. The properties then are facts about `load_multi`. `SourcesAre` and `SourcesFollow`: what a load
  merges for a switch are the rows of the files that declare it, and no others, so a change elsewhere leaves it as it was (`SameSwitch`). `BestExists`: among them one precedes all others, as priority, place
  of the file and index are a lexicographic order without ties (`PlacesDiffer` needs that file names differ, `FilesAssumption`). `CheckedIsConsistent`: what passes `validate_switch_config` and the resolution of VLAN
  names is consistent, and the filtering of mirrored ports keeps it so. That tagged VLANs are lists (`EditorInv`) is what lets the filter of VLANs that are not there keep exactly the others (`AmongIs`). The assumption `FilesAreTyped` is what serde makes of any file that parses (`AppConfigFile`, `config.rs:17`; `SwitchConfig`,
  `models.rs:1188`): all fields are there, lists are lists, a priority is an unsigned number; a folder holds files of the names it may hold.

  `EditorInvariance`, `Spec => []EditorInv`, and from it `SavedPortsAlwaysKeepTheirVlans`: what an accepted save says of a port is in memory after the load of the files it left. `EditorInv` adds to `IInv` that in files, drafts, pages and request bodies
  ports are what they must be to be written and read back: lists of segments in a file, finite sets of numbers in a draft, their tagged VLANs lists in both (`PortsInv`); and that the last save nothing overtook was valid against the files it was checked against, which are those on disk with its own file added
  (`AcceptedWasValid`). One lemma per form of the editor (`EditedIsConfig`), and the preview is typed because the merge is (`MergedIsConfig`). TLC checked its parts on the `overlay` run before they were proved (of `AcceptedWasValid`, which speaks of any files, the part about requests under way). The argument then has four parts:
  1. *Written.* A save writes the VLANs of its row by name (`WrittenPort`), and each port as one segment (`WrittenAreListed`: the ports are sorted, so it takes that a finite set of numbers can be listed in order, `Ranked`). What is expanded when the file is read has each port once, as it was written
     (`WrittenEntry`, from `ExpandedPorts`, `ParsedSegment` and what `FlattenSeq` does, all by induction over sets).
  2. *Merged.* The row is that of the saved file if no better file has the port, which is the property's condition (`SavedRowWins`, through `BestSource`).
  3. *Resolved.* A written name resolves to the VLAN it stood for, as a loaded switch has no two VLANs of one name (`LoadedIsConsistent`) and the property asks that its VLANs kept theirs (`WrittenReadsBack`).
  4. *Kept.* A load drops tagged VLANs that do not exist. Those of a saved port are the row's own, VLAN 1, or were in other files when it was checked (`ValidRow`), and these are merged too (`ExternalAreMerged`), since a file that hides VLANs from the check refuses the load.

  The assumption `PortsAreTyped` says that a `port_id` in a file or body is a list of segments and one typed into a form a number, that tagged VLANs are lists, and that the edits are those of the editor's forms (`ui/routes/mod.rs:50`).

The three facts (initial, step, implication) of each invariant are lemmas of the module, one per action where the action needs an argument of its own.

Model-checked only:

* all liveness (`BusyFlagClears`, `NobodyWaitsForever`, `KeptSessionEnds`, `TurnComesBack`, `FileChangeIsStored`, `OperationEnds`, `CommandEnds`, `JumpSessionsGo`), which TLAPS cannot do;
* `CleanApplyConverges`: that a whole apply ends in the wanted state is an induction over what *all* commands of a plan leave behind, not only over what they may not touch;
  `CommunitiesKeepTheirEntries`: Aruba numbers the entries of a community, so the proof would have to count them.

## What the models leave out

* SSH servers allow several connections, so no lock on the device is assumed; with a serial line the second
  open fails and is retried.
* Ages in the caches are one flag (`expired`), set at any time; the per-call `max_age` is the default or `fresh`.
  ETag headers are the generation id. A lookup of a MAC table over SNMP is explicit and not cached. One deletion at a time.
* A panic inside an apply: its guard is cleaned up (`SwitchGate`), but it records no result, so the row would keep the last one.
* In `ConfigReload`: an event that the kernel's own queue loses, or that `should_reload_config` filters; counts, warnings, validation issues and the error ring; rejected PUT and PATCH requests, which change nothing; the apply at
  startup, which is done before API, watcher and refresher start (`main.rs:196-220`) and meets nobody.
* A waiter whose first poll finds a free permit is counted and uncounted within that poll; the model does
  not show the counter in between.
* In `ApplyPipeline`: the confirmation on a terminal in debug mode; `verify_hardware_model`, which only warns; the vendors' `validate_configuration`, which
  no production code calls; more than one switch.
* `CleanApplyConverges` and `NothingToDoIsTrue` are about what the generators can express (`Expressible`, with its reasons in the module and in the next section). The first says of
  a configuration that lists the tagged VLANs of a port out of order, or one of them twice, that it never converges.
* In `CommandShell`: a switch that pauses longer than the confirmation delay (200 ms over SSH, 500 ms on a console) right behind a line that looks like a prompt. The code
  would cut the answer there; the delay is the code's own assumption about the switch. Log lines come one or two at a time and behind a prompt:
  three behind a prompt, or one behind a question, hide it until the timeout. A marker that is itself cut (`-- MO`) matches nothing yet and is a piece that has not come; colour codes within a marker, carriage returns that join two lines, and
  what follows a text that looks like a pager on its line (which is stripped with it) are left out. So is a `write` that hangs; in `SwitchGate` it is not.
* In `ConfigMerge` and `OverlayFiles`: `load` and `validate_switch_config` of a single file, hidden files, a failing `std::fs::write`.
* Characters: names, descriptions and outputs are compared, not composed.

## Disagreements found

Each of these is a run that TLC must find violated; `PROJECT.json` quotes the lines.

1. `gate_pending`, `watcher/mod.rs:176`: a reload queued for a busy switch blocks exactly those who could take it up.
   `try_acquire_configuring` refuses while one is pending, and only a watcher that got past it takes it.
2. `forti_management`, `vendors/fortiswitch.rs:434`: the second apply of the same configuration rewrites the management VLAN with
   `allowaccess ping`, and the third puts ssh back.
3. `overlay_identity`, `config.rs:831`: an overlay written by the UI restates the identity of its switch; when the main file changes it, the load of *all* switches is
   refused, where `save.rs:34` calls it redundant but harmless.

The models also have the following: what no statement of the repository forbids clearly enough to be held against a run, what a property says as it is,
and what one has to leave out. They are the places to look at when the code is changed.

* *The order of tagged VLANs.* They are compared as lists (`diff/mod.rs:264`). A switch shows them in ascending order, a port in the configuration has those of its file: `tagged_vlans: [30, 20]`, or a VLAN
  listed twice, is sent again at every apply, and its convergence check warns every time, although `README.md:10` promises "only necessary changes". `CleanApplyConverges` says so in both directions.
* *Pagers.* A read that ends behind `-- MORE --` is answered and stripped, and the rest of the pager's line, which comes with the next read, stays in the answer, where the documentation of
  `strip_pager_prompt` (`ssh/mod.rs:40`) says that the line is removed; `AnswerIsWhole` shows that nothing of the answer itself is lost. A `--More--` is answered by nobody and ends with the timeout (`client.rs:449`).
* *Sessions.* An idle timer disconnects outside the turn, so the next operation finds the slot empty and the console still in use (`session_pool.rs:169`); `get_config` and
  `preview_diff` connect without the turn (`api/handlers.rs:830`, `402`).
* *Caches.* The turn is given back before the cache is written, so an older answer can replace a newer one, with a later time of fetch, and a request that waited fetches again what
  its predecessor had (`api/handlers.rs:2397`); a fetch under way at a deletion writes its entry afterwards (`1570`); the watcher's reload does not prune the caches (`watcher/mod.rs:85`).
* *Reload.* The reload that read the files first can store last (`api/handlers.rs:985`); a switch created with PUT has no status row, so its results are shown nowhere (`1313`);
  an accepted apply is for a moment in neither of the lists a client is told to poll (`status.rs:300`).
* *Apply.* A one-off run after one that failed validation finds no changes and reports success without testing, and an apply over the API saves what failed (`docs/development/validation-design.md:5`, `api/handlers.rs:333`);
  after a failed save the next run finds no changes and does not save; a PoE "off" whose answer is lost is reported failed and the port stays off.
* *Aruba.* `enabled_traps: [all]` changes back and forth; a mirror source is marked only when its port is configured anyway, and two sources are compared in the order of a `HashMap`
  (`tests/manual/README.md:33`); `find_ports_to_migrate` keeps one entry per port (`aruba.rs:1697`); MAC notification set by half is read as set.
* *FortiSwitch.* Trap receivers always start at host 100 of entry 1, and their removal has no effect; traps, descriptions and mirror directions are added and never taken away; `reset_ports` writes the status into the wrong
  block; a changed VLAN loses `snmp` from its access; ports are not moved before their VLAN is removed.
* *Cisco.* The parser finds no VLAN and no port, so an apply that has any never sees its own effect.
* *Command line.* The dry-run filter of SSH lacks `get ` (`client.rs:443`); the pager of FortiOS, `--More--`, is not recognised and hangs the command until the timeout (`client.rs:449` tells of it, and takes care that paging is off); a read that ends behind `password:` in the middle of a text ends the command there (`serial.rs:883`, `client.rs:322`); "press any key" clears what came before; what arrives after a tolerated timeout is read as part of the next command's output, on a console only if it comes after the buffer was cleared (`serial.rs:214`).
* *Login.* `verify_connectivity` only warns of an answer without a prompt (`serial.rs:641`; the comment of `probe_session` calls it tolerant), so after two reads that came too early commands may go to the password dialogue: `ConnectedIsLoggedIn` therefore speaks of at most one, and after ten the vendor's set-up may type its words as passwords; the blank password may be tried after a late text, not only after a refusal (`serial.rs:511`).
* *SSH.* The connection timeout leaves the tunnel's address in the client, so the next attempt connects to it (`client.rs:685`); in a chain of two, the first hop's forward is used by nobody and never ends (`jump_chain.rs:77`), nor does one of an attempt without credentials (`client.rs:693`).
* *Overlays.* A draft of a healthy switch has no sources, so rows of the main file are saved into the overlay too, where the main file (50) outranks them: the edit is without effect. A save checked against the files may still collide with them after the merge, and its switch leaves service.
  One broken file in the folder hides the VLANs of all others from the check (`config.rs:256`) and refuses the whole load. A merge drops `management_vlan` and `vendor_specific`; a save overwrites another switch's file of the same name; an overlay can be deleted while others use its VLANs.
* *Editor.* Two edits at once lose one (`ui/state.rs:65`); a save discards what was edited meanwhile (`ui/routes/save.rs:154`); "Save All Ports" resets fixed speeds and moves ports of a VLAN that is not listed to the first (`ui/routes/edit.rs:888`); editing a VLAN drops its static address (`edit.rs:761`);
  the preview of a failed switch shows VLAN 1 for a name that was not resolved, and the editor saves it (`models.rs:889` says it is never seen).

## Not modelled, and what could follow

* SNMP walks, secrets in texts, allowed hosts, routing, sockets, templates and dashboards are text or I/O without protocol state, and stay out. The broadcast of 64 events is read by no part of the
  program.
* Status counts, warnings and the ring of fifty errors are written and shown, and no operation reads them back.
* Could follow: gate, pool and cache composed for one switch, to check that the turn used by the upper modules is the one the gate implements; two switches in one reload; lemmas on `compute_diff` (what is added and what is removed are disjoint,
  VLAN 1 never goes) for every configuration.
