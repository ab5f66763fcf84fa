------------------------------- MODULE SwitchGate ------------------------------
(***************************************************************************)
(* The per-switch turnstile of status.rs: the FIFO semaphore with one      *)
(* permit, the busy flag, the counter of waiters and the pending reload.   *)
(* Everything is keyed by the switch and nothing but the tracker's lock is *)
(* shared between switches, so the module describes one switch.  A step is *)
(* one critical section of the tracker's RwLock or one atomic action of    *)
(* the semaphore.                                                          *)
(*                                                                         *)
(* The callers are of four kinds:                                          *)
(*   Jobs     work spawned after a 202 answer (apply, PoE): wait in line   *)
(*   Reads    work awaited in an HTTP handler (mac-table, port-status):    *)
(*            wait in line, and are dropped with the client's connection   *)
(*   Tries    callers that do not wait (refresher, reload endpoints)       *)
(*   Watcher  the file watcher: does not wait, queues a reload instead     *)
(***************************************************************************)
EXTENDS Sequences, Naturals, FiniteSets

CONSTANTS Jobs, Reads, Tries, Watcher, NoOp

Ops == Jobs \cup Reads \cup Tries \cup {Watcher}
Waiters == Jobs \cup Reads

ASSUME OpsAssumption ==
  /\ NoOp \notin Ops
  /\ Watcher \notin Waiters \cup Tries
  /\ Waiters \cap Tries = {}
  /\ IsFiniteSet(Ops)

VARIABLES
  pc,           \* how far each operation is
  queue,        \* the semaphore's waiters, in arrival order
  permit,       \* who owns (or was handed) the semaphore's only permit
  waiting,      \* SwitchGate.waiting, the counter behind queued_operations
  configuring,  \* the switch is in currently_configuring
  pending       \* the switch is in pending_config_reload

vars == <<pc, queue, permit, waiting, configuring, pending>>

(* idle      not there                                                     *)
(* accepted  202 sent or handler entered, the gate not yet asked           *)
(* queued    in acquire_owned, counted by a WaitingToken                   *)
(* granted   out of the line with the permit, the flag not yet set         *)
(* holding   has a ConfiguringGuard and works on the switch                *)
(* hung      holding, in a write to the serial line that never returns     *)
(* taken     the watcher has looked for a pending reload                   *)
(* dropped   guard dropped: the cleanup task has not run                   *)
(* cleared   flag cleared, the permit not yet dropped                      *)
(* refused   the watcher was refused and has not yet queued the reload     *)
Stages == {"idle", "accepted", "queued", "granted", "holding", "hung", "taken",
           "dropped", "cleared", "refused"}

\* The stages in which the operation's guard owns the busy flag.
Serving == {"holding", "hung", "taken", "dropped"}

Goto(o, stage) == pc' = [pc EXCEPT ![o] = stage]

\* Mutant of PassPermit: the last to come is served first.
PassPermitToTheLast == IF queue = <<>>
                       THEN permit' = NoOp /\ queue' = queue
                       ELSE /\ permit' = queue[Len(queue)]
                            /\ queue' = SubSeq(queue, 1, Len(queue) - 1)

\* A permit that comes free goes to the first waiter (tokio's batch semaphore).
PassPermit == IF queue = <<>> THEN permit' = NoOp /\ queue' = queue
                              ELSE permit' = Head(queue) /\ queue' = Tail(queue)

TypeOK ==
  /\ pc \in [Ops -> Stages]
  /\ \A o \in Ops : /\ pc[o] \in {"accepted", "queued", "granted"} => o \in Waiters
                    /\ pc[o] \in {"refused", "taken"} => o = Watcher
  /\ queue \in Seq(Waiters)
  /\ permit \in Ops \cup {NoOp}
  /\ waiting \in Nat
  /\ configuring \in BOOLEAN
  /\ pending \in BOOLEAN

Init ==
  /\ pc = [o \in Ops |-> "idle"]
  /\ queue = <<>>
  /\ permit = NoOp
  /\ waiting = 0
  /\ configuring = FALSE
  /\ pending = FALSE

--------------------------------------------------------------------------------
(* acquire_configuring_queued                                              *)

\* The request is accepted; its task has not reached the gate.
Accept(o) ==
  /\ pc[o] = "idle"
  /\ Goto(o, "accepted")
  /\ UNCHANGED <<queue, permit, waiting, configuring, pending>>

\* The first poll of acquire_owned: with a free permit the token lives and
\* dies inside the poll, otherwise the operation is counted and lines up.
Arrive(o) ==
  /\ pc[o] = "accepted"
  /\ IF permit = NoOp
     THEN /\ permit' = o
          /\ Goto(o, "granted")
          /\ UNCHANGED <<queue, waiting>>
     ELSE /\ queue' = Append(queue, o)
          /\ waiting' = waiting + 1
          /\ Goto(o, "queued")
          /\ UNCHANGED permit
  /\ UNCHANGED <<configuring, pending>>

\* The waiter that was handed the permit wakes up; its token is dropped.
WakeUp(o) ==
  /\ pc[o] = "queued"
  /\ permit = o
  /\ waiting' = waiting - 1
  /\ Goto(o, "granted")
  /\ UNCHANGED <<queue, permit, configuring, pending>>

\* Mutant of SetFlag: the token lives until the guard is built, and WakeUp has
\* counted the operation out already.
SetFlagCountsAgain(o) ==
  /\ pc[o] = "granted"
  /\ configuring' = TRUE
  /\ waiting' = waiting - 1
  /\ Goto(o, "holding")
  /\ UNCHANGED <<queue, permit, pending>>

\* The flag is inserted in a later critical section than the permit.
SetFlag(o) ==
  /\ pc[o] = "granted"
  /\ configuring' = TRUE
  /\ Goto(o, "holding")
  /\ UNCHANGED <<queue, permit, waiting, pending>>

\* Mutant of StepOut: a permit that was already handed over is forgotten.
StepOutWithPermit(o) ==
  IF permit = o
  THEN permit' = NoOp /\ UNCHANGED queue
  ELSE /\ \E i \in 1..Len(queue) :
            /\ queue[i] = o
            /\ queue' = SubSeq(queue, 1, i - 1) \o SubSeq(queue, i + 1, Len(queue))
       /\ UNCHANGED permit

\* The Acquire future is dropped; a permit it was already handed goes on to the
\* next in line.
StepOut(o) ==
  IF permit = o
  THEN PassPermit
  ELSE /\ \E i \in 1..Len(queue) :
            /\ queue[i] = o
            /\ queue' = SubSeq(queue, 1, i - 1) \o SubSeq(queue, i + 1, Len(queue))
       /\ UNCHANGED permit

\* Mutant of LeaveLine: no token counts the waiter out.
LeaveLineUncounted(o) ==
  /\ pc[o] = "queued"
  /\ StepOut(o)
  /\ Goto(o, "idle")
  /\ UNCHANGED <<waiting, configuring, pending>>

\* Leaving the line without a turn: max_wait is over, or the handler's future
\* is dropped.
LeaveLine(o) ==
  /\ pc[o] = "queued"
  /\ waiting' = waiting - 1
  /\ StepOut(o)
  /\ Goto(o, "idle")
  /\ UNCHANGED <<configuring, pending>>

\* The handler's future is dropped before or between the two steps of the
\* acquisition: no guard exists, so nothing but the permit has to go back.
DropFuture(o) ==
  /\ o \in Reads
  /\ \/ pc[o] = "accepted" /\ UNCHANGED <<permit, queue>>
     \/ pc[o] = "granted" /\ PassPermit
  /\ Goto(o, "idle")
  /\ UNCHANGED <<waiting, configuring, pending>>

--------------------------------------------------------------------------------
(* try_acquire_configuring                                                 *)

\* Mutant of Free: the flag alone decides, as before the turnstile.
FreeByFlag == ~configuring /\ ~pending

Free == ~configuring /\ ~pending /\ permit = NoOp

\* One write-locked section: check, take the permit, set the flag.
TryAcquire(o) ==
  /\ pc[o] = "idle"
  /\ Free
  /\ permit' = o
  /\ configuring' = TRUE
  /\ Goto(o, "holding")
  /\ UNCHANGED <<queue, waiting, pending>>

\* apply_all_configurations: a busy switch is remembered for later.
WatcherRefused ==
  /\ pc[Watcher] = "idle"
  /\ ~Free
  /\ Goto(Watcher, "refused")
  /\ UNCHANGED <<queue, permit, waiting, configuring, pending>>

QueuePendingReload ==
  /\ pc[Watcher] = "refused"
  /\ pending' = TRUE
  /\ Goto(Watcher, "idle")
  /\ UNCHANGED <<queue, permit, waiting, configuring>>

\* apply_switch_with_pending, after the apply: a reload queued meanwhile is
\* taken (and applied) before the switch is released.
TakePendingReload ==
  /\ pc[Watcher] = "holding"
  /\ pending' = FALSE
  /\ Goto(Watcher, "taken")
  /\ UNCHANGED <<queue, permit, waiting, configuring>>

--------------------------------------------------------------------------------
(* ConfiguringGuard                                                        *)

\* write_all, flush and clear_buffer of the serial client have no timeout: the
\* work may never come back.  Lookups are bounded as a whole (LOOKUPS_TIMEOUT,
\* MAC_TABLE_TIMEOUT), so a read cannot hang.
Hang(o) ==
  /\ pc[o] = "holding"
  /\ Goto(o, "hung")
  /\ UNCHANGED <<queue, permit, waiting, configuring, pending>>

\* release() is called when the work is done; the watcher calls it after it
\* has looked for a pending reload.
Release(o) ==
  /\ pc[o] = IF o = Watcher THEN "taken" ELSE "holding"
  /\ configuring' = FALSE
  /\ Goto(o, "cleared")
  /\ UNCHANGED <<queue, permit, waiting, pending>>

\* Mutants of DropGuard: the permit goes first and the flag after it; the flag is
\* forgotten, as with a set and clear by hand.
DropGuardPermitFirst(o) ==
  /\ pc[o] = "holding"
  /\ PassPermit
  /\ Goto(o, "dropped")
  /\ UNCHANGED <<waiting, configuring, pending>>

DropGuardKeepsFlag(o) ==
  /\ pc[o] = "holding"
  /\ PassPermit
  /\ Goto(o, "idle")
  /\ UNCHANGED <<waiting, configuring, pending>>

\* The guard is dropped with its holder (early return, panic, client gone):
\* flag and permit pass to the cleanup task.
DropGuard(o) ==
  /\ pc[o] = "holding"
  /\ Goto(o, "dropped")
  /\ UNCHANGED <<queue, permit, waiting, configuring, pending>>

CleanupClears(o) ==
  /\ pc[o] = "dropped"
  /\ configuring' = FALSE
  /\ Goto(o, "cleared")
  /\ UNCHANGED <<queue, permit, waiting, pending>>

\* Mutant of DropPermit: the permit goes back and nobody is woken.
DropPermitSilently(o) ==
  /\ pc[o] = "cleared"
  /\ permit' = NoOp
  /\ Goto(o, "idle")
  /\ UNCHANGED <<queue, waiting, configuring, pending>>

\* Only now does the permit go back.
DropPermit(o) ==
  /\ pc[o] = "cleared"
  /\ PassPermit
  /\ Goto(o, "idle")
  /\ UNCHANGED <<waiting, configuring, pending>>

--------------------------------------------------------------------------------

Next ==
  \/ \E o \in Waiters : Accept(o) \/ Arrive(o) \/ WakeUp(o) \/ SetFlag(o)
                          \/ LeaveLine(o) \/ DropFuture(o)
  \/ \E o \in Tries \cup {Watcher} : TryAcquire(o)
  \/ WatcherRefused \/ QueuePendingReload \/ TakePendingReload
  \/ \E o \in Ops : Release(o) \/ CleanupClears(o) \/ DropPermit(o)
  \/ \E o \in Ops \ {Watcher} : DropGuard(o)
  \/ \E o \in Ops \ Reads : Hang(o)

Spec == Init /\ [][Next]_vars

\* What the runtime owes each operation: woken tasks run, a guard's holder that
\* does not hang eventually finishes (what it waits for has a timeout, or it
\* hangs), the cleanup task runs.  Who hangs owes nothing.  Nobody owes the switch
\* a request, a timeout of a waiter or a dropped connection.
Advance(o) == Arrive(o) \/ WakeUp(o) \/ SetFlag(o) \/ Release(o)
                \/ CleanupClears(o) \/ DropPermit(o)

Fairness ==
  /\ \A o \in Ops : WF_vars(Advance(o))
  /\ WF_vars(QueuePendingReload \/ TakePendingReload)

FairSpec == Spec /\ Fairness

\* File events keep coming: the watcher tries, or is refused, again and again.
EventfulSpec == FairSpec /\ SF_vars(TryAcquire(Watcher)) /\ WF_vars(WatcherRefused)

--------------------------------------------------------------------------------
(* Properties                                                              *)

\* ConfiguringGuard is exclusive (status.rs, struct ConfiguringGuard): at no time
\* do two operations work on the same switch.
OneOperationPerSwitch ==
  \A o1, o2 \in Ops : pc[o1] \in Serving /\ pc[o2] \in Serving => o1 = o2

\* The flag GET /status shows is set exactly while some guard lives or its
\* cleanup is under way: a predecessor's cleanup never wipes the flag of the
\* next holder, and no exit path leaves it stuck.
BusyFlagIsFaithful ==
  configuring <=> \E o \in Ops : pc[o] \in Serving

\* The permit is never lost: its owner is an operation that will give it
\* back, and nobody is left standing in line while it is free.
PermitIsNeverLost ==
  /\ permit # NoOp => pc[permit] \in {"queued", "granted", "cleared"} \cup Serving
  /\ queue # <<>> => permit # NoOp

\* queued_operations counts exactly the operations standing in line, whatever
\* way they leave it (WaitingToken's Drop).
StandingInLine == {o \in Ops : pc[o] = "queued"}

QueuedCountIsExact == waiting = Cardinality(StandingInLine)

\* What makes the invariants above inductive.
\* Past the line, an operation owns the permit until it gives it back.
PermitOwners ==
  \A o \in Ops : pc[o] \in {"granted", "cleared"} \cup Serving => permit = o

\* The line holds each waiting operation once, and not the one that was
\* already handed the permit.
LineIsClean ==
  /\ \A i \in 1..Len(queue) : pc[queue[i]] = "queued" /\ queue[i] # permit
  /\ \A i, j \in 1..Len(queue) : queue[i] = queue[j] => i = j

GateInv ==
  /\ TypeOK
  /\ PermitOwners
  /\ LineIsClean
  /\ PermitIsNeverLost
  /\ BusyFlagIsFaithful
  /\ QueuedCountIsExact

\* Somebody who has the switch never comes back.
Hung == \E o \in Ops : pc[o] = "hung"

\* A busy flag never stays set for ever, on whatever path the guard goes, unless
\* its holder hangs.  (Of the incident told at try_acquire_configuring this covers
\* that no exit path keeps the flag; a write that never returns still does, until
\* the service is restarted.)
BusyFlagClears == configuring ~> ~configuring \/ Hung

\* Whoever stands in line gets its turn or leaves the line, even if no wait
\* ever times out: the line moves, unless the one who is served hangs.
NobodyWaitsForever ==
  \A o \in Waiters : pc[o] = "queued" ~> pc[o] # "queued" \/ Hung

\* watcher/mod.rs:168, "Queue for later instead of skipping if already busy": a
\* reload queued for a busy switch is taken up.  The code does not do it: the
\* only taker is a watcher apply, which the queued reload itself keeps away.  (If
\* somebody hangs it is not owed.)
QueuedReloadIsTaken == pending ~> ~pending \/ Hung

\* The gate implements the promise of Turnstile.  The permit's owner stands at
\* the head of the abstract line until its flag is set.
Line == IF permit # NoOp /\ pc[permit] \in {"queued", "granted"}
        THEN <<permit>> \o queue
        ELSE queue

Server == IF \E o \in Ops : pc[o] \in Serving
          THEN CHOOSE o \in Ops : pc[o] \in Serving
          ELSE NoOp

T == INSTANCE Turnstile WITH line <- Line, serving <- Server, busy <- configuring

ImplementsTurnstile == T!Spec
================================================================================
