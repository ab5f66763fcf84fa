------------------------------- MODULE SessionPool -----------------------------
(***************************************************************************)
(* The pool of kept vendor sessions (session_pool.rs) with the operations  *)
(* that use it, for one switch.  The turn is the one SwitchGate implements *)
(* (Turnstile): a TakeTurn is the Serve or Enter of that specification, an *)
(* EndOperation its Finish.                                                *)
(*                                                                         *)
(* The operations are of five kinds:                                       *)
(*   Lookups   mac-table and port-status reads, the refresher: a pooled    *)
(*             session, bounded by a timeout or dropped with the client    *)
(*   Controls  PoE on, off and reset: a pooled session, never interrupted  *)
(*   Applies   POST apply, reload, the watcher: a connection of their own  *)
(*   Peeks     GET config: a connection of its own, no turn, a busy check  *)
(*   Previews  POST preview-diff: the same without the check               *)
(* A step ends at an await, a lock or a spawn.                             *)
(***************************************************************************)
EXTENDS Naturals, FiniteSets

CONSTANTS
  Lookups, Controls, Applies, Peeks, Previews,
  Conns,       \* identities of connections; a closed one may be used again
  Settings,    \* what fingerprint() tells apart
  Reusable,    \* the vendor's supports_session_reuse()
  MaxKeeps,    \* bound: how often a session is kept
  NoOp, NoConn, NoSlot

Pooled == Lookups \cup Controls
Turned == Pooled \cup Applies
Ops == Turned \cup Peeks \cup Previews

ASSUME PoolAssumption ==
  /\ Reusable \in BOOLEAN
  /\ Settings # {}
  /\ MaxKeeps \in Nat
  /\ Turned \cap (Peeks \cup Previews) = {}
  /\ NoOp \notin Ops
  /\ NoConn \notin Conns
  /\ NoSlot \notin [conn : Conns, token : Nat, keep : Nat]

VARIABLES
  pc,         \* how far each operation is
  want,       \* the connection settings each operation was asked with
  held,       \* the session in an operation's hands
  turn,       \* the operation that has the switch's turn
  settings,   \* the switch's connection settings in the store
  open,       \* the connections that exist
  made,       \* the settings each connection was opened with
  slot,       \* PoolState.slots of this switch
  nextToken,  \* PoolState.next_token
  timers,     \* the idle timers that sleep
  dying,      \* the sessions that idle timers are closing
  keeps       \* history: how often a session has been kept

ops == <<pc, want, held>>
conns == <<open, made>>
pool == <<slot, nextToken, timers, dying, keeps>>
vars == <<ops, turn, settings, conns, pool>>

(* idle      not there                                                     *)
(* asked     the handler has read the configuration                        *)
(* admitted  has the turn (or passed, or skipped, the busy check)          *)
(* resuming  has the kept session and probes it                            *)
(* dropping  closes the kept session                                       *)
(* opening   opens a fresh one                                             *)
(* working   uses its session                                              *)
(* closing   closes its session                                            *)
(* done      the session is dealt with, the turn not yet given back        *)
Stages == {"idle", "asked", "admitted", "resuming", "dropping", "opening",
           "working", "closing", "done"}

TypeOK ==
  /\ pc \in [Ops -> Stages]
  /\ want \in [Ops -> Settings]
  /\ held \in [Ops -> Conns \cup {NoConn}]
  /\ turn \in Turned \cup {NoOp}
  /\ settings \in Settings
  /\ open \subseteq Conns
  /\ made \in [Conns -> Settings]
  /\ slot \in [conn : Conns, token : Nat, keep : Nat] \cup {NoSlot}
  /\ nextToken \in Nat
  /\ timers \subseteq [token : Nat, keep : Nat]
  /\ dying \subseteq Conns
  /\ keeps \in Nat

Init ==
  /\ pc = [o \in Ops |-> "idle"]
  /\ \E s \in Settings :
       /\ settings = s
       /\ want = [o \in Ops |-> s]
       /\ made = [c \in Conns |-> s]
  /\ held = [o \in Ops |-> NoConn]
  /\ turn = NoOp
  /\ open = {}
  /\ slot = NoSlot
  /\ nextToken = 0
  /\ timers = {}
  /\ dying = {}
  /\ keeps = 0

Goto(o, stage) == pc' = [pc EXCEPT ![o] = stage]
Hold(o, c) == held' = [held EXCEPT ![o] = c]

--------------------------------------------------------------------------------
(* Asking, and the turn                                                    *)

Active == {o \in Pooled : pc[o] # "idle"}

\* The handler clones the switch's configuration and lets go of the store.
Ask(o) ==
  /\ pc[o] = "idle"
  /\ o \in Pooled => keeps + Cardinality(Active) < MaxKeeps
  /\ want' = [want EXCEPT ![o] = settings]
  /\ Goto(o, "asked")
  /\ UNCHANGED <<held, turn, settings, conns, pool>>

\* Mutant of TakeTurn: the operation goes on when its wait has timed out.
TakeTurnAnyway(o) ==
  /\ o \in Turned
  /\ pc[o] = "asked"
  /\ turn' = o
  /\ Goto(o, "admitted")
  /\ UNCHANGED <<want, held, settings, conns, pool>>

TakeTurn(o) ==
  /\ o \in Turned
  /\ pc[o] = "asked"
  /\ turn = NoOp
  /\ turn' = o
  /\ Goto(o, "admitted")
  /\ UNCHANGED <<want, held, settings, conns, pool>>

\* Refused, timed out in the line, or the client left it.
GiveUp(o) ==
  /\ pc[o] = "asked"
  /\ Goto(o, "idle")
  /\ UNCHANGED <<want, held, turn, settings, conns, pool>>

\* Mutant of PassBusyCheck: get_config marks the switch busy by hand.
PassBusyCheckMarking(o) ==
  /\ pc[o] = "asked"
  /\ o \in Peeks /\ turn = NoOp
  /\ turn' = o
  /\ Goto(o, "admitted")
  /\ UNCHANGED <<want, held, settings, conns, pool>>

\* get_config looks at the busy flag and goes on without a turn; preview_diff
\* goes on without looking.
PassBusyCheck(o) ==
  /\ pc[o] = "asked"
  /\ \/ o \in Peeks /\ turn = NoOp
     \/ o \in Previews
  /\ Goto(o, "admitted")
  /\ UNCHANGED <<want, held, turn, settings, conns, pool>>

EndOperation(o) ==
  /\ pc[o] = "done"
  /\ turn' = IF turn = o THEN NoOp ELSE turn
  /\ Goto(o, "idle")
  /\ UNCHANGED <<want, held, settings, conns, pool>>

--------------------------------------------------------------------------------
(* checkout and close_idle                                                 *)

\* Mutant of Resumable: the fingerprints are not compared.
ResumableAnyway(o) == o \in Pooled

\* checkout resumes a kept session of the same settings, close_idle none.
Resumable(o) == o \in Pooled /\ made[slot.conn] = want[o]

LookIntoSlot(o) ==
  IF slot = NoSlot
  THEN /\ Goto(o, "opening")
       /\ UNCHANGED held
  ELSE /\ Hold(o, slot.conn)
       /\ Goto(o, IF Resumable(o) THEN "resuming" ELSE "dropping")

\* Mutant of TakeKept: the session stays in the slot while it is used.
TakeKeptLeavingIt(o) ==
  /\ pc[o] = "admitted"
  /\ LookIntoSlot(o)
  /\ UNCHANGED <<want, turn, settings, conns, pool>>

\* The slot is emptied under the pool's lock; what was in it is then probed
\* or closed.
TakeKept(o) ==
  /\ pc[o] = "admitted"
  /\ LookIntoSlot(o)
  /\ slot' = NoSlot
  /\ UNCHANGED <<want, turn, settings, conns, nextToken, timers, dying, keeps>>

\* The probe answers, or the session has died meanwhile.
Resume(o) ==
  /\ pc[o] = "resuming"
  /\ \E stage \in {"working", "dropping"} : Goto(o, stage)
  /\ UNCHANGED <<want, held, turn, settings, conns, pool>>

CloseKept(o) ==
  /\ pc[o] = "dropping"
  /\ open' = open \ {held[o]}
  /\ Hold(o, NoConn)
  /\ Goto(o, "opening")
  /\ UNCHANGED <<want, turn, settings, made, pool>>

\* A fresh connection with the settings the operation was asked with.
Open(o) ==
  /\ pc[o] = "opening"
  /\ \E c \in Conns \ open :
       /\ open' = open \cup {c}
       /\ made' = [made EXCEPT ![c] = want[o]]
       /\ Hold(o, c)
  /\ Goto(o, "working")
  /\ UNCHANGED <<want, turn, settings, pool>>

OpenFails(o) ==
  /\ pc[o] = "opening"
  /\ Goto(o, "done")
  /\ UNCHANGED <<want, held, turn, settings, conns, pool>>

--------------------------------------------------------------------------------
(* release, discard, disconnect                                            *)

\* Mutants of KeepSession: the token is not fresh; no timer is armed.
KeepSessionOldToken(o) ==
  /\ o \in Pooled
  /\ Reusable
  /\ pc[o] = "working"
  /\ slot' = [conn |-> held[o], token |-> nextToken, keep |-> keeps]
  /\ timers' = timers \cup {[token |-> nextToken, keep |-> keeps]}
  /\ keeps' = keeps + 1
  /\ Hold(o, NoConn)
  /\ Goto(o, "done")
  /\ UNCHANGED <<want, turn, settings, conns, nextToken, dying>>

KeepSessionUntimed(o) ==
  /\ o \in Pooled
  /\ Reusable
  /\ pc[o] = "working"
  /\ slot' = [conn |-> held[o], token |-> nextToken, keep |-> keeps]
  /\ nextToken' = nextToken + 1
  /\ keeps' = keeps + 1
  /\ Hold(o, NoConn)
  /\ Goto(o, "done")
  /\ UNCHANGED <<want, turn, settings, conns, timers, dying>>

\* Session::release: into the slot with a fresh token, and an idle timer for
\* that token.  A session found there would be closed.
KeepSession(o) ==
  /\ o \in Pooled
  /\ Reusable
  /\ pc[o] = "working"
  /\ slot' = [conn |-> held[o], token |-> nextToken, keep |-> keeps]
  /\ nextToken' = nextToken + 1
  /\ timers' = timers \cup {[token |-> nextToken, keep |-> keeps]}
  /\ keeps' = keeps + 1
  /\ open' = IF slot = NoSlot THEN open ELSE open \ {slot.conn}
  /\ Hold(o, NoConn)
  /\ Goto(o, "done")
  /\ UNCHANGED <<want, turn, settings, made, dying>>

\* Session::discard after an error, release of a session that cannot be
\* reused, disconnect of a connection of one's own.
StopUsing(o) ==
  /\ pc[o] = "working"
  /\ Goto(o, "closing")
  /\ UNCHANGED <<want, held, turn, settings, conns, pool>>

CloseSession(o) ==
  /\ pc[o] = "closing"
  /\ open' = open \ {held[o]}
  /\ Hold(o, NoConn)
  /\ Goto(o, "done")
  /\ UNCHANGED <<want, turn, settings, made, pool>>

\* The future is dropped at an await, by LOOKUPS_TIMEOUT or because the client
\* is gone: dropping the session closes its connection.
Abandon(o) ==
  /\ o \in Ops \ (Controls \cup Applies)
  /\ pc[o] \notin {"idle", "asked", "done"}
  /\ open' = open \ {held[o]}
  /\ Hold(o, NoConn)
  /\ Goto(o, "done")
  /\ UNCHANGED <<want, turn, settings, made, pool>>

--------------------------------------------------------------------------------
(* The idle timers and the configuration                                   *)

\* close_if_token, the part under the lock.
TimerFires(t) ==
  /\ timers' = timers \ {t}
  /\ IF slot # NoSlot /\ slot.token = t.token
     THEN slot' = NoSlot /\ dying' = dying \cup {slot.conn}
     ELSE UNCHANGED <<slot, dying>>
  /\ UNCHANGED <<ops, turn, settings, conns, nextToken, keeps>>

\* close_if_token, the disconnect after it.
TimerCloses(c) ==
  /\ c \in dying
  /\ dying' = dying \ {c}
  /\ open' = open \ {c}
  /\ UNCHANGED <<ops, turn, settings, made, slot, nextToken, timers, keeps>>

\* A reload or an edit of the switch's configuration.
ChangeSettings ==
  /\ settings' \in Settings \ {settings}
  /\ UNCHANGED <<ops, turn, conns, pool>>

--------------------------------------------------------------------------------

Use(o) == \/ TakeKept(o) \/ Resume(o) \/ CloseKept(o) \/ Open(o) \/ OpenFails(o)
          \/ KeepSession(o) \/ StopUsing(o) \/ CloseSession(o)

Next ==
  \/ \E o \in Ops : \/ Ask(o) \/ TakeTurn(o) \/ GiveUp(o) \/ PassBusyCheck(o)
                    \/ Use(o) \/ Abandon(o) \/ EndOperation(o)
  \/ \E t \in timers : TimerFires(t)
  \/ \E c \in dying : TimerCloses(c)
  \/ ChangeSettings

Spec == Init /\ [][Next]_vars

\* Timers fire (tokio's clock runs) and their closes end.  Nothing is assumed of
\* the operations: a session must not depend on the next request to be closed.
FairSpec ==
  /\ Spec
  /\ WF_vars(\E t \in timers : TimerFires(t))
  /\ WF_vars(\E c \in dying : TimerCloses(c))

--------------------------------------------------------------------------------
(* Properties                                                              *)

KeptConns == IF slot = NoSlot THEN {} ELSE {slot.conn}

HeldConns(S) == {held[o] : o \in S} \ {NoConn}

\* Reuse never crosses a change of the connection settings (session_pool.rs:82-87,
\* fingerprint): whatever session an operation works with, kept or fresh, was
\* opened with the settings the operation was asked with.
WorksWithItsSettings ==
  \A o \in Ops : pc[o] = "working" => made[held[o]] = want[o]

\* Every connection that exists has exactly one owner who will keep or close it:
\* an operation, the slot or an idle timer.  So no exit path of checkout, release
\* or a dropped future leaks one, none is used by two, and nobody's session is
\* closed under its hands ("never touched", close_idle).
OneOwner ==
  /\ open = HeldConns(Ops) \cup KeptConns \cup dying
  /\ \A o1, o2 \in Ops : held[o1] = held[o2] /\ held[o1] # NoConn => o1 = o2
  /\ HeldConns(Ops) \cap (KeptConns \cup dying) = {}
  /\ KeptConns \cap dying = {}

\* Under the turn discipline, at most one session is in use or kept for reuse,
\* so release never finds a session in the slot (session_pool.rs:8-10).
OneLiveSession == Cardinality(HeldConns(Turned) \cup KeptConns) <= 1

\* The timer armed by this very release is the one that can close the session it
\* kept: timers of earlier releases cannot (the token, session_pool.rs:56-60), and
\* there is always one that can.
KeptSessionHasItsOwnTimer ==
  slot # NoSlot => {t \in timers : t.token = slot.token}
                     = {[token |-> slot.token, keep |-> slot.keep]}

\* What makes the invariants above inductive.
\* A turned operation has the turn from its admission until it ends.
TurnIsHeld == \A o \in Turned : turn = o <=> pc[o] \notin {"idle", "asked"}

\* Whoever is at a stage that needs a session in its hands has one, others not.
HandsMatchStage ==
  \A o \in Ops : held[o] # NoConn
                   <=> pc[o] \in {"resuming", "dropping", "working", "closing"}

\* Past its look into the slot an operation with the turn has left it empty.
SlotStaysEmpty ==
  \A o \in Turned : pc[o] \notin {"idle", "asked", "admitted", "done"} => slot = NoSlot

\* The session an operation probes already fits its settings.
ProbesItsSettings == \A o \in Ops : pc[o] = "resuming" => made[held[o]] = want[o]

\* Tokens are given out once.
TokensAreOld ==
  /\ slot # NoSlot => slot.token < nextToken
  /\ \A t \in timers : t.token < nextToken

PoolInv ==
  /\ TypeOK
  /\ TurnIsHeld
  /\ HandsMatchStage
  /\ SlotStaysEmpty
  /\ OneOwner
  /\ ProbesItsSettings
  /\ WorksWithItsSettings
  /\ TokensAreOld
  /\ KeptSessionHasItsOwnTimer

\* A kept session does not block the console for ever: it is reused or closed,
\* even if no request comes any more (close_if_token).
KeptSessionEnds == slot # NoSlot ~> slot = NoSlot
================================================================================
