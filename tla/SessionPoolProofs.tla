---------------------------- MODULE SessionPoolProofs --------------------------
(***************************************************************************)
(* PoolInv is an inductive invariant of SessionPool, for any operations,   *)
(* connections and settings.  The safety theorems follow from it.          *)
(***************************************************************************)
EXTENDS SessionPool, FiniteSetTheorems, TLAPS

(***************************************************************************)
(* Hands: who holds what after one operation lets go or takes up.          *)
(***************************************************************************)

\* An operation lets go of its session, which nobody else holds.
LEMMA LettingGo ==
  ASSUME TypeOK, OneOwner, NEW o \in Ops, Hold(o, NoConn)
  PROVE  /\ held' \in [Ops -> Conns \cup {NoConn}]
         /\ HeldConns(Ops)' = HeldConns(Ops) \ {held[o]}
         /\ \A o1, o2 \in Ops : held'[o1] = held'[o2] /\ held'[o1] # NoConn => o1 = o2
<1>1. held' = [held EXCEPT ![o] = NoConn] /\ held \in [Ops -> Conns \cup {NoConn}]
  BY DEF Hold, TypeOK
<1>2. \A o1, o2 \in Ops : held[o1] = held[o2] /\ held[o1] # NoConn => o1 = o2
  BY DEF OneOwner
<1>3. \A x \in Ops : held'[x] = IF x = o THEN NoConn ELSE held[x]
  BY <1>1
<1>4. HeldConns(Ops)' = HeldConns(Ops) \ {held[o]}
  <2>1. ASSUME NEW c \in HeldConns(Ops)' PROVE c \in HeldConns(Ops) \ {held[o]}
    <3>1. PICK x \in Ops : held'[x] = c /\ c # NoConn
      BY <2>1 DEF HeldConns
    <3> QED
      BY <3>1, <1>2, <1>3 DEF HeldConns
  <2>2. ASSUME NEW c \in HeldConns(Ops) \ {held[o]} PROVE c \in HeldConns(Ops)'
    <3>1. PICK x \in Ops : held[x] = c /\ c # NoConn
      BY <2>2 DEF HeldConns
    <3> QED
      BY <3>1, <2>2, <1>3 DEF HeldConns
  <2> QED
    BY <2>1, <2>2
<1> QED
  BY <1>1, <1>2, <1>3, <1>4

\* An operation with empty hands takes up a session that nobody holds.
LEMMA TakingUp ==
  ASSUME TypeOK, OneOwner, NEW o \in Ops, NEW c \in Conns, held[o] = NoConn,
         c \notin HeldConns(Ops), Hold(o, c)
  PROVE  /\ held' \in [Ops -> Conns \cup {NoConn}]
         /\ HeldConns(Ops)' = HeldConns(Ops) \cup {c}
         /\ \A o1, o2 \in Ops : held'[o1] = held'[o2] /\ held'[o1] # NoConn => o1 = o2
<1>1. held' = [held EXCEPT ![o] = c] /\ held \in [Ops -> Conns \cup {NoConn}]
  BY DEF Hold, TypeOK
<1>2. \A o1, o2 \in Ops : held[o1] = held[o2] /\ held[o1] # NoConn => o1 = o2
  BY DEF OneOwner
<1>3. \A x \in Ops : held'[x] = IF x = o THEN c ELSE held[x]
  BY <1>1
<1>4. c # NoConn
  BY PoolAssumption
<1>5. \A x \in Ops : held[x] # c
  BY <1>4 DEF HeldConns
<1>6. HeldConns(Ops)' = HeldConns(Ops) \cup {c}
  <2>1. ASSUME NEW d \in HeldConns(Ops)' PROVE d \in HeldConns(Ops) \cup {c}
    <3>1. PICK x \in Ops : held'[x] = d /\ d # NoConn
      BY <2>1 DEF HeldConns
    <3> QED
      BY <3>1, <1>3 DEF HeldConns
  <2>2. ASSUME NEW d \in HeldConns(Ops) PROVE d \in HeldConns(Ops)'
    <3>1. PICK x \in Ops : held[x] = d /\ d # NoConn
      BY <2>2 DEF HeldConns
    <3>2. x # o
      BY <3>1
    <3> QED
      BY <3>1, <3>2, <1>3 DEF HeldConns
  <2>3. c \in HeldConns(Ops)'
    BY <1>3, <1>4 DEF HeldConns
  <2> QED
    BY <2>1, <2>2, <2>3
<1> QED
  BY <1>1, <1>2, <1>3, <1>5, <1>6

\* What an operation holds is in somebody's hands and exists.
LEMMA HeldIsOwned ==
  ASSUME PoolInv, NEW o \in Ops,
         pc[o] \in {"resuming", "dropping", "working", "closing"}
  PROVE  /\ held[o] \in Conns
         /\ held[o] \in HeldConns(Ops)
         /\ held[o] \in open
         /\ held[o] \notin KeptConns \cup dying
<1>1. held[o] # NoConn
  BY DEF PoolInv, HandsMatchStage
<1>2. held[o] \in Conns /\ held[o] \in HeldConns(Ops)
  BY <1>1 DEF PoolInv, TypeOK, HeldConns
<1> QED
  BY <1>2 DEF PoolInv, OneOwner

\* While an operation with the turn is past its look into the slot, no other
\* one is, and the slot is empty.
LEMMA OneAtTheConsole ==
  ASSUME PoolInv, NEW o \in Turned, pc[o] \notin {"idle", "asked"}
  PROVE  \A x \in Turned : pc[x] \notin {"idle", "asked"} => x = o
  BY DEF PoolInv, TurnIsHeld

--------------------------------------------------------------------------------
(***************************************************************************)
(* The invariant.                                                          *)
(***************************************************************************)

\* Nothing is owned, and no token given out, by a step that touches neither
\* hands nor connections nor the pool.
LEMMA Undisturbed ==
  ASSUME PoolInv, UNCHANGED <<held, conns, pool>>
  PROVE  OneOwner' /\ TokensAreOld' /\ KeptSessionHasItsOwnTimer'
<1>1. HeldConns(Ops)' = HeldConns(Ops) /\ KeptConns' = KeptConns
  BY DEF HeldConns, KeptConns, pool
<1>2. OneOwner'
  BY <1>1 DEF PoolInv, OneOwner, conns, pool
<1> QED
  BY <1>2 DEF PoolInv, TokensAreOld, KeptSessionHasItsOwnTimer, pool

LEMMA InitEstablishes == Init => PoolInv
<1> SUFFICES ASSUME Init PROVE PoolInv
  OBVIOUS
<1>1. PICK s \in Settings : /\ settings = s
                            /\ want = [o \in Ops |-> s]
                            /\ made = [c \in Conns |-> s]
  BY DEF Init
<1>2. TypeOK
  BY <1>1 DEF Init, TypeOK, Stages
<1>3. HeldConns(Ops) = {}
  BY DEF Init, HeldConns
<1>4. OneOwner
  BY <1>3 DEF Init, OneOwner, KeptConns
<1>5. TurnIsHeld
  BY PoolAssumption DEF Init, TurnIsHeld, Turned, Ops, Pooled
<1> QED
  BY <1>2, <1>4, <1>5
  DEF Init, PoolInv, HandsMatchStage, SlotStaysEmpty, ProbesItsSettings,
      WorksWithItsSettings, TokensAreOld, KeptSessionHasItsOwnTimer, Turned, Ops, Pooled

(* Steps that move an operation on and touch neither hands nor pool. *)

LEMMA AskPreserves == ASSUME PoolInv, NEW o \in Ops, Ask(o) PROVE PoolInv'
<1>1. /\ pc' = [pc EXCEPT ![o] = "asked"] /\ want' = [want EXCEPT ![o] = settings]
      /\ pc[o] = "idle" /\ UNCHANGED <<held, turn, settings, conns, pool>>
  BY DEF Ask, Goto
<1>2. TypeOK'
  BY <1>1 DEF PoolInv, TypeOK, Stages, conns, pool
<1>3. TurnIsHeld'
  BY <1>1 DEF PoolInv, TypeOK, TurnIsHeld, Turned, Ops
<1>4. HandsMatchStage'
  BY <1>1 DEF PoolInv, TypeOK, HandsMatchStage
<1>5. SlotStaysEmpty'
  BY <1>1 DEF PoolInv, TypeOK, SlotStaysEmpty, Turned, Ops, pool
<1>6. ProbesItsSettings' /\ WorksWithItsSettings'
  BY <1>1 DEF PoolInv, TypeOK, ProbesItsSettings, WorksWithItsSettings, conns
<1> QED
  BY <1>1, <1>2, <1>3, <1>4, <1>5, <1>6, Undisturbed DEF PoolInv

LEMMA TakeTurnPreserves == ASSUME PoolInv, NEW o \in Ops, TakeTurn(o) PROVE PoolInv'
<1>1. /\ o \in Turned /\ pc' = [pc EXCEPT ![o] = "admitted"] /\ turn' = o
      /\ pc[o] = "asked" /\ turn = NoOp /\ UNCHANGED <<want, held, settings, conns, pool>>
  BY DEF TakeTurn, Goto
<1>2. TypeOK'
  BY <1>1 DEF PoolInv, TypeOK, Stages, conns, pool
<1>3. TurnIsHeld'
  BY <1>1, PoolAssumption DEF PoolInv, TypeOK, TurnIsHeld, Turned, Ops
<1>4. HandsMatchStage'
  BY <1>1 DEF PoolInv, TypeOK, HandsMatchStage
<1>5. SlotStaysEmpty'
  BY <1>1 DEF PoolInv, TypeOK, SlotStaysEmpty, Turned, Ops, pool
<1>6. ProbesItsSettings' /\ WorksWithItsSettings'
  BY <1>1 DEF PoolInv, TypeOK, ProbesItsSettings, WorksWithItsSettings, conns
<1> QED
  BY <1>1, <1>2, <1>3, <1>4, <1>5, <1>6, Undisturbed DEF PoolInv

LEMMA GiveUpPreserves == ASSUME PoolInv, NEW o \in Ops, GiveUp(o) PROVE PoolInv'
<1>1. /\ pc' = [pc EXCEPT ![o] = "idle"] /\ pc[o] = "asked"
      /\ UNCHANGED <<want, held, turn, settings, conns, pool>>
  BY DEF GiveUp, Goto
<1>2. TypeOK'
  BY <1>1 DEF PoolInv, TypeOK, Stages, conns, pool
<1>3. TurnIsHeld'
  BY <1>1 DEF PoolInv, TypeOK, TurnIsHeld, Turned, Ops
<1>4. HandsMatchStage'
  BY <1>1 DEF PoolInv, TypeOK, HandsMatchStage
<1>5. SlotStaysEmpty'
  BY <1>1 DEF PoolInv, TypeOK, SlotStaysEmpty, Turned, Ops, pool
<1>6. ProbesItsSettings' /\ WorksWithItsSettings'
  BY <1>1 DEF PoolInv, TypeOK, ProbesItsSettings, WorksWithItsSettings, conns
<1> QED
  BY <1>1, <1>2, <1>3, <1>4, <1>5, <1>6, Undisturbed DEF PoolInv

LEMMA PassBusyCheckPreserves ==
  ASSUME PoolInv, NEW o \in Ops, PassBusyCheck(o) PROVE PoolInv'
<1>1. /\ o \in Peeks \cup Previews /\ pc' = [pc EXCEPT ![o] = "admitted"] /\ pc[o] = "asked"
      /\ UNCHANGED <<want, held, turn, settings, conns, pool>>
  BY DEF PassBusyCheck, Goto
<1>2. o \notin Turned
  BY <1>1, PoolAssumption
<1>3. TypeOK'
  BY <1>1 DEF PoolInv, TypeOK, Stages, conns, pool
<1>4. TurnIsHeld'
  BY <1>1, <1>2 DEF PoolInv, TypeOK, TurnIsHeld, Ops
<1>5. HandsMatchStage'
  BY <1>1 DEF PoolInv, TypeOK, HandsMatchStage
<1>6. SlotStaysEmpty'
  BY <1>1, <1>2 DEF PoolInv, TypeOK, SlotStaysEmpty, Ops, pool
<1>7. ProbesItsSettings' /\ WorksWithItsSettings'
  BY <1>1 DEF PoolInv, TypeOK, ProbesItsSettings, WorksWithItsSettings, conns
<1> QED
  BY <1>1, <1>3, <1>4, <1>5, <1>6, <1>7, Undisturbed DEF PoolInv

LEMMA EndOperationPreserves ==
  ASSUME PoolInv, NEW o \in Ops, EndOperation(o) PROVE PoolInv'
<1>1. /\ pc' = [pc EXCEPT ![o] = "idle"] /\ pc[o] = "done"
      /\ turn' = IF turn = o THEN NoOp ELSE turn
      /\ UNCHANGED <<want, held, settings, conns, pool>>
  BY DEF EndOperation, Goto
<1>2. TypeOK'
  BY <1>1 DEF PoolInv, TypeOK, Stages, conns, pool
<1>3. TurnIsHeld'
  BY <1>1, PoolAssumption DEF PoolInv, TypeOK, TurnIsHeld, Turned, Ops
<1>4. HandsMatchStage'
  BY <1>1 DEF PoolInv, TypeOK, HandsMatchStage
<1>5. SlotStaysEmpty'
  BY <1>1 DEF PoolInv, TypeOK, SlotStaysEmpty, Turned, Ops, pool
<1>6. ProbesItsSettings' /\ WorksWithItsSettings'
  BY <1>1 DEF PoolInv, TypeOK, ProbesItsSettings, WorksWithItsSettings, conns
<1> QED
  BY <1>1, <1>2, <1>3, <1>4, <1>5, <1>6, Undisturbed DEF PoolInv

LEMMA ResumePreserves == ASSUME PoolInv, NEW o \in Ops, Resume(o) PROVE PoolInv'
<1>1. PICK stage \in {"working", "dropping"} : pc' = [pc EXCEPT ![o] = stage]
  BY DEF Resume, Goto
<1>2. pc[o] = "resuming" /\ UNCHANGED <<want, held, turn, settings, conns, pool>>
  BY DEF Resume
<1>3. TypeOK'
  BY <1>1, <1>2 DEF PoolInv, TypeOK, Stages, conns, pool
<1>4. TurnIsHeld'
  BY <1>1, <1>2 DEF PoolInv, TypeOK, TurnIsHeld, Turned, Ops
<1>5. HandsMatchStage'
  BY <1>1, <1>2 DEF PoolInv, TypeOK, HandsMatchStage
<1>6. SlotStaysEmpty'
  BY <1>1, <1>2 DEF PoolInv, TypeOK, SlotStaysEmpty, Turned, Ops, pool
<1>7. ProbesItsSettings' /\ WorksWithItsSettings'
  BY <1>1, <1>2 DEF PoolInv, TypeOK, ProbesItsSettings, WorksWithItsSettings, conns
<1> QED
  BY <1>2, <1>3, <1>4, <1>5, <1>6, <1>7, Undisturbed DEF PoolInv

LEMMA OpenFailsPreserves == ASSUME PoolInv, NEW o \in Ops, OpenFails(o) PROVE PoolInv'
<1>1. /\ pc' = [pc EXCEPT ![o] = "done"] /\ pc[o] = "opening"
      /\ UNCHANGED <<want, held, turn, settings, conns, pool>>
  BY DEF OpenFails, Goto
<1>2. TypeOK'
  BY <1>1 DEF PoolInv, TypeOK, Stages, conns, pool
<1>3. TurnIsHeld'
  BY <1>1 DEF PoolInv, TypeOK, TurnIsHeld, Turned, Ops
<1>4. HandsMatchStage'
  BY <1>1 DEF PoolInv, TypeOK, HandsMatchStage
<1>5. SlotStaysEmpty'
  BY <1>1 DEF PoolInv, TypeOK, SlotStaysEmpty, Turned, Ops, pool
<1>6. ProbesItsSettings' /\ WorksWithItsSettings'
  BY <1>1 DEF PoolInv, TypeOK, ProbesItsSettings, WorksWithItsSettings, conns
<1> QED
  BY <1>1, <1>2, <1>3, <1>4, <1>5, <1>6, Undisturbed DEF PoolInv

LEMMA StopUsingPreserves == ASSUME PoolInv, NEW o \in Ops, StopUsing(o) PROVE PoolInv'
<1>1. /\ pc' = [pc EXCEPT ![o] = "closing"] /\ pc[o] = "working"
      /\ UNCHANGED <<want, held, turn, settings, conns, pool>>
  BY DEF StopUsing, Goto
<1>2. TypeOK'
  BY <1>1 DEF PoolInv, TypeOK, Stages, conns, pool
<1>3. TurnIsHeld'
  BY <1>1 DEF PoolInv, TypeOK, TurnIsHeld, Turned, Ops
<1>4. HandsMatchStage'
  BY <1>1 DEF PoolInv, TypeOK, HandsMatchStage
<1>5. SlotStaysEmpty'
  BY <1>1 DEF PoolInv, TypeOK, SlotStaysEmpty, Turned, Ops, pool
<1>6. ProbesItsSettings' /\ WorksWithItsSettings'
  BY <1>1 DEF PoolInv, TypeOK, ProbesItsSettings, WorksWithItsSettings, conns
<1> QED
  BY <1>1, <1>2, <1>3, <1>4, <1>5, <1>6, Undisturbed DEF PoolInv

(* Steps that take a session from, or put one into, the slot. *)

LEMMA TakeKeptPreserves == ASSUME PoolInv, NEW o \in Ops, TakeKept(o) PROVE PoolInv'
<1>1. /\ pc[o] = "admitted" /\ LookIntoSlot(o) /\ slot' = NoSlot
      /\ UNCHANGED <<want, turn, settings, conns, nextToken, timers, dying, keeps>>
  BY DEF TakeKept
<1>2. held[o] = NoConn
  BY <1>1 DEF PoolInv, HandsMatchStage
<1>3. TokensAreOld' /\ KeptSessionHasItsOwnTimer' /\ SlotStaysEmpty'
  BY <1>1 DEF PoolInv, TokensAreOld, KeptSessionHasItsOwnTimer, SlotStaysEmpty
<1>4. CASE slot = NoSlot
  <2>1. pc' = [pc EXCEPT ![o] = "opening"] /\ held' = held /\ slot' = slot
    BY <1>1, <1>4 DEF LookIntoSlot, Goto
  <2>2. TypeOK'
    BY <1>1, <2>1 DEF PoolInv, TypeOK, Stages, conns
  <2>3. TurnIsHeld' /\ HandsMatchStage'
    BY <1>1, <1>2, <2>1 DEF PoolInv, TypeOK, TurnIsHeld, HandsMatchStage, Turned, Ops
  <2>4. ProbesItsSettings' /\ WorksWithItsSettings'
    BY <1>1, <2>1 DEF PoolInv, TypeOK, ProbesItsSettings, WorksWithItsSettings, conns
  <2>5. OneOwner'
    BY <1>1, <2>1, Undisturbed DEF pool
  <2> QED
    BY <1>3, <2>2, <2>3, <2>4, <2>5 DEF PoolInv
<1>5. CASE slot # NoSlot
  <2> DEFINE c == slot.conn
  <2>1. c \in Conns /\ KeptConns = {c}
    BY <1>5 DEF PoolInv, TypeOK, KeptConns
  <2>2. c \notin HeldConns(Ops) /\ c \notin dying /\ c # NoConn
    BY <2>1, PoolAssumption DEF PoolInv, OneOwner
  <2>3. PICK stage \in {"resuming", "dropping"} :
          /\ pc' = [pc EXCEPT ![o] = stage]
          /\ Hold(o, c)
          /\ stage = "resuming" => Resumable(o)
    BY <1>1, <1>5 DEF LookIntoSlot, Goto
  <2>4. held' = [held EXCEPT ![o] = c]
    BY <2>3 DEF Hold
  <2>5. /\ held' \in [Ops -> Conns \cup {NoConn}]
        /\ HeldConns(Ops)' = HeldConns(Ops) \cup {c}
        /\ \A o1, o2 \in Ops : held'[o1] = held'[o2] /\ held'[o1] # NoConn => o1 = o2
    BY <1>2, <2>1, <2>2, <2>3, TakingUp DEF PoolInv
  <2>6. TypeOK'
    BY <1>1, <2>3, <2>5 DEF PoolInv, TypeOK, Stages, conns
  <2>7. TurnIsHeld'
    BY <1>1, <2>3 DEF PoolInv, TypeOK, TurnIsHeld, Turned, Ops
  <2>8. HandsMatchStage'
    BY <1>1, <2>2, <2>3, <2>4 DEF PoolInv, TypeOK, HandsMatchStage
  <2>9. ProbesItsSettings' /\ WorksWithItsSettings'
    BY <1>1, <2>3, <2>4
    DEF PoolInv, TypeOK, ProbesItsSettings, WorksWithItsSettings, Resumable, conns
  <2>10. OneOwner'
    <3>1. KeptConns' = {} /\ open' = open /\ dying' = dying
      BY <1>1 DEF KeptConns, conns
    <3> HIDE DEF c
    <3> QED
      BY <2>1, <2>2, <2>5, <3>1 DEF PoolInv, OneOwner
  <2> QED
    BY <1>3, <2>6, <2>7, <2>8, <2>9, <2>10 DEF PoolInv
<1> QED
  BY <1>4, <1>5

LEMMA KeepSessionPreserves ==
  ASSUME PoolInv, NEW o \in Ops, KeepSession(o) PROVE PoolInv'
<1> DEFINE c == held[o]
<1>1. /\ o \in Pooled /\ pc[o] = "working" /\ pc' = [pc EXCEPT ![o] = "done"]
      /\ slot' = [conn |-> c, token |-> nextToken, keep |-> keeps]
      /\ nextToken' = nextToken + 1
      /\ timers' = timers \cup {[token |-> nextToken, keep |-> keeps]}
      /\ keeps' = keeps + 1
      /\ open' = IF slot = NoSlot THEN open ELSE open \ {slot.conn}
      /\ Hold(o, NoConn) /\ held' = [held EXCEPT ![o] = NoConn]
      /\ UNCHANGED <<want, turn, settings, made, dying>>
  BY DEF KeepSession, Goto, Hold
<1>2. o \in Turned /\ slot = NoSlot
  BY <1>1 DEF PoolInv, SlotStaysEmpty, Turned
<1>3. open' = open
  BY <1>1, <1>2
<1>4. c \in Conns /\ c \in HeldConns(Ops) /\ c \notin dying /\ c \in open
  BY <1>1, HeldIsOwned
<1>5. /\ held' \in [Ops -> Conns \cup {NoConn}]
      /\ HeldConns(Ops)' = HeldConns(Ops) \ {c}
      /\ \A o1, o2 \in Ops : held'[o1] = held'[o2] /\ held'[o1] # NoConn => o1 = o2
  BY <1>1, LettingGo DEF PoolInv
<1>6. slot' # NoSlot /\ slot'.conn = c /\ slot'.token = nextToken /\ slot'.keep = keeps
  BY <1>1, <1>4, PoolAssumption DEF PoolInv, TypeOK
<1> HIDE DEF c
<1>7. TypeOK'
  BY <1>1, <1>3, <1>4, <1>5 DEF PoolInv, TypeOK, Stages
<1>8. TurnIsHeld'
  BY <1>1 DEF PoolInv, TypeOK, TurnIsHeld, Turned, Ops
<1>9. HandsMatchStage'
  BY <1>1 DEF PoolInv, TypeOK, HandsMatchStage
<1>10. SlotStaysEmpty'
  <2>1. \A x \in Turned : pc[x] \notin {"idle", "asked"} => x = o
    BY <1>1, <1>2, OneAtTheConsole
  <2> QED
    BY <1>1, <2>1 DEF PoolInv, TypeOK, SlotStaysEmpty, Ops
<1>11. ProbesItsSettings' /\ WorksWithItsSettings'
  BY <1>1 DEF PoolInv, TypeOK, ProbesItsSettings, WorksWithItsSettings
<1>12. OneOwner'
  <2>1. KeptConns' = {c} /\ KeptConns = {} /\ dying' = dying
    BY <1>1, <1>2, <1>6 DEF KeptConns
  <2> QED
    BY <1>3, <1>4, <1>5, <2>1 DEF PoolInv, OneOwner
<1>13. TokensAreOld'
  BY <1>1, <1>6 DEF PoolInv, TypeOK, TokensAreOld
<1>14. KeptSessionHasItsOwnTimer'
  <2>1. \A t \in timers : t.token # nextToken
    BY DEF PoolInv, TypeOK, TokensAreOld
  <2> QED
    BY <1>1, <1>6, <2>1 DEF KeptSessionHasItsOwnTimer
<1> QED
  BY <1>7, <1>8, <1>9, <1>10, <1>11, <1>12, <1>13, <1>14 DEF PoolInv

(* Steps that open or close a connection. *)

LEMMA CloseKeptPreserves ==
  ASSUME PoolInv, NEW o \in Ops, CloseKept(o) PROVE PoolInv'
<1> DEFINE c == held[o]
<1>1. /\ pc[o] = "dropping" /\ pc' = [pc EXCEPT ![o] = "opening"] /\ open' = open \ {c}
      /\ Hold(o, NoConn) /\ held' = [held EXCEPT ![o] = NoConn]
      /\ UNCHANGED <<want, turn, settings, made, pool>>
  BY DEF CloseKept, Goto, Hold
<1>2. c \in HeldConns(Ops) /\ c \notin KeptConns \cup dying
  BY <1>1, HeldIsOwned
<1>3. /\ held' \in [Ops -> Conns \cup {NoConn}]
      /\ HeldConns(Ops)' = HeldConns(Ops) \ {c}
      /\ \A o1, o2 \in Ops : held'[o1] = held'[o2] /\ held'[o1] # NoConn => o1 = o2
  BY <1>1, LettingGo DEF PoolInv
<1> HIDE DEF c
<1>4. OneOwner'
  <2>1. KeptConns' = KeptConns /\ dying' = dying
    BY <1>1 DEF KeptConns, pool
  <2> QED
    BY <1>1, <1>2, <1>3, <2>1 DEF PoolInv, OneOwner
<1>5. TypeOK'
  BY <1>1, <1>3 DEF PoolInv, TypeOK, Stages, pool
<1>6. TurnIsHeld'
  BY <1>1 DEF PoolInv, TypeOK, TurnIsHeld, Turned, Ops
<1>7. HandsMatchStage'
  BY <1>1 DEF PoolInv, TypeOK, HandsMatchStage
<1>8. SlotStaysEmpty'
  BY <1>1 DEF PoolInv, TypeOK, SlotStaysEmpty, Turned, Ops, pool
<1>9. ProbesItsSettings' /\ WorksWithItsSettings'
  BY <1>1 DEF PoolInv, TypeOK, ProbesItsSettings, WorksWithItsSettings
<1>10. TokensAreOld' /\ KeptSessionHasItsOwnTimer'
  BY <1>1 DEF PoolInv, TokensAreOld, KeptSessionHasItsOwnTimer, pool
<1> QED
  BY <1>4, <1>5, <1>6, <1>7, <1>8, <1>9, <1>10 DEF PoolInv

LEMMA CloseSessionPreserves ==
  ASSUME PoolInv, NEW o \in Ops, CloseSession(o) PROVE PoolInv'
<1> DEFINE c == held[o]
<1>1. /\ pc[o] = "closing" /\ pc' = [pc EXCEPT ![o] = "done"] /\ open' = open \ {c}
      /\ Hold(o, NoConn) /\ held' = [held EXCEPT ![o] = NoConn]
      /\ UNCHANGED <<want, turn, settings, made, pool>>
  BY DEF CloseSession, Goto, Hold
<1>2. c \in HeldConns(Ops) /\ c \notin KeptConns \cup dying
  BY <1>1, HeldIsOwned
<1>3. /\ held' \in [Ops -> Conns \cup {NoConn}]
      /\ HeldConns(Ops)' = HeldConns(Ops) \ {c}
      /\ \A o1, o2 \in Ops : held'[o1] = held'[o2] /\ held'[o1] # NoConn => o1 = o2
  BY <1>1, LettingGo DEF PoolInv
<1> HIDE DEF c
<1>4. OneOwner'
  <2>1. KeptConns' = KeptConns /\ dying' = dying
    BY <1>1 DEF KeptConns, pool
  <2> QED
    BY <1>1, <1>2, <1>3, <2>1 DEF PoolInv, OneOwner
<1>5. TypeOK'
  BY <1>1, <1>3 DEF PoolInv, TypeOK, Stages, pool
<1>6. TurnIsHeld'
  BY <1>1 DEF PoolInv, TypeOK, TurnIsHeld, Turned, Ops
<1>7. HandsMatchStage'
  BY <1>1 DEF PoolInv, TypeOK, HandsMatchStage
<1>8. SlotStaysEmpty'
  BY <1>1 DEF PoolInv, TypeOK, SlotStaysEmpty, Turned, Ops, pool
<1>9. ProbesItsSettings' /\ WorksWithItsSettings'
  BY <1>1 DEF PoolInv, TypeOK, ProbesItsSettings, WorksWithItsSettings
<1>10. TokensAreOld' /\ KeptSessionHasItsOwnTimer'
  BY <1>1 DEF PoolInv, TokensAreOld, KeptSessionHasItsOwnTimer, pool
<1> QED
  BY <1>4, <1>5, <1>6, <1>7, <1>8, <1>9, <1>10 DEF PoolInv

LEMMA AbandonPreserves == ASSUME PoolInv, NEW o \in Ops, Abandon(o) PROVE PoolInv'
<1> DEFINE c == held[o]
<1>1. /\ pc[o] \notin {"idle", "asked", "done"} /\ pc' = [pc EXCEPT ![o] = "done"]
      /\ open' = open \ {c}
      /\ Hold(o, NoConn) /\ held' = [held EXCEPT ![o] = NoConn]
      /\ UNCHANGED <<want, turn, settings, made, pool>>
  BY DEF Abandon, Goto, Hold
<1>2. c \notin KeptConns \cup dying
  <2>1. CASE c = NoConn
    BY <2>1, PoolAssumption DEF PoolInv, TypeOK, KeptConns
  <2>2. CASE c # NoConn
    BY <2>2, HeldIsOwned DEF PoolInv, HandsMatchStage
  <2> QED
    BY <2>1, <2>2
<1>3. /\ held' \in [Ops -> Conns \cup {NoConn}]
      /\ HeldConns(Ops)' = HeldConns(Ops) \ {c}
      /\ \A o1, o2 \in Ops : held'[o1] = held'[o2] /\ held'[o1] # NoConn => o1 = o2
  BY <1>1, LettingGo DEF PoolInv
<1> HIDE DEF c
<1>4. OneOwner'
  <2>1. KeptConns' = KeptConns /\ dying' = dying
    BY <1>1 DEF KeptConns, pool
  <2> QED
    BY <1>1, <1>2, <1>3, <2>1 DEF PoolInv, OneOwner
<1>5. TypeOK'
  BY <1>1, <1>3 DEF PoolInv, TypeOK, Stages, pool
<1>6. TurnIsHeld'
  BY <1>1 DEF PoolInv, TypeOK, TurnIsHeld, Turned, Ops
<1>7. HandsMatchStage'
  BY <1>1 DEF PoolInv, TypeOK, HandsMatchStage
<1>8. SlotStaysEmpty'
  BY <1>1 DEF PoolInv, TypeOK, SlotStaysEmpty, Turned, Ops, pool
<1>9. ProbesItsSettings' /\ WorksWithItsSettings'
  BY <1>1 DEF PoolInv, TypeOK, ProbesItsSettings, WorksWithItsSettings
<1>10. TokensAreOld' /\ KeptSessionHasItsOwnTimer'
  BY <1>1 DEF PoolInv, TokensAreOld, KeptSessionHasItsOwnTimer, pool
<1> QED
  BY <1>4, <1>5, <1>6, <1>7, <1>8, <1>9, <1>10 DEF PoolInv

LEMMA OpenPreserves == ASSUME PoolInv, NEW o \in Ops, Open(o) PROVE PoolInv'
<1>1. PICK c \in Conns \ open :
        /\ open' = open \cup {c} /\ made' = [made EXCEPT ![c] = want[o]] /\ Hold(o, c)
  BY DEF Open
<1>2. /\ pc[o] = "opening" /\ pc' = [pc EXCEPT ![o] = "working"]
      /\ held' = [held EXCEPT ![o] = c]
      /\ UNCHANGED <<want, turn, settings, pool>>
  BY <1>1 DEF Open, Goto, Hold
<1>3. held[o] = NoConn
  BY <1>2 DEF PoolInv, HandsMatchStage
<1>4. c \notin HeldConns(Ops) \cup KeptConns \cup dying /\ c # NoConn
  BY <1>1, PoolAssumption DEF PoolInv, OneOwner
<1>5. /\ held' \in [Ops -> Conns \cup {NoConn}]
      /\ HeldConns(Ops)' = HeldConns(Ops) \cup {c}
      /\ \A o1, o2 \in Ops : held'[o1] = held'[o2] /\ held'[o1] # NoConn => o1 = o2
  BY <1>1, <1>3, <1>4, TakingUp DEF PoolInv
<1>6. OneOwner'
  <2>1. KeptConns' = KeptConns /\ dying' = dying
    BY <1>2 DEF KeptConns, pool
  <2> QED
    BY <1>1, <1>4, <1>5, <2>1 DEF PoolInv, OneOwner
<1>7. TypeOK'
  BY <1>1, <1>2, <1>5 DEF PoolInv, TypeOK, Stages, pool
<1>8. TurnIsHeld'
  BY <1>2 DEF PoolInv, TypeOK, TurnIsHeld, Turned, Ops
<1>9. HandsMatchStage'
  BY <1>2, <1>4 DEF PoolInv, TypeOK, HandsMatchStage
<1>10. SlotStaysEmpty'
  BY <1>2 DEF PoolInv, TypeOK, SlotStaysEmpty, Turned, Ops, pool
<1>11. ASSUME NEW x \in Ops, pc'[x] \in {"resuming", "working"}
       PROVE  made'[held'[x]] = want'[x]
  <2>1. CASE x = o
    BY <1>1, <1>2, <2>1 DEF PoolInv, TypeOK
  <2>2. CASE x # o
    <3>1. pc[x] \in {"resuming", "working"} /\ held'[x] = held[x] /\ want'[x] = want[x]
      BY <1>2, <1>11, <2>2 DEF PoolInv, TypeOK
    <3>2. held[x] \in open /\ held[x] \in Conns
      BY <3>1, HeldIsOwned
    <3> QED
      BY <1>1, <3>1, <3>2 DEF PoolInv, TypeOK, ProbesItsSettings, WorksWithItsSettings
  <2> QED
    BY <2>1, <2>2
<1>12. ProbesItsSettings' /\ WorksWithItsSettings'
  BY <1>11 DEF ProbesItsSettings, WorksWithItsSettings
<1>13. TokensAreOld' /\ KeptSessionHasItsOwnTimer'
  BY <1>2 DEF PoolInv, TokensAreOld, KeptSessionHasItsOwnTimer, pool
<1> QED
  BY <1>6, <1>7, <1>8, <1>9, <1>10, <1>12, <1>13 DEF PoolInv

(* The idle timers and the configuration. *)

LEMMA TimerFiresPreserves ==
  ASSUME PoolInv, NEW t \in timers, TimerFires(t) PROVE PoolInv'
<1>1. timers' = timers \ {t} /\ UNCHANGED <<ops, turn, settings, conns, nextToken, keeps>>
  BY DEF TimerFires
<1>2. pc' = pc /\ held' = held /\ want' = want /\ open' = open /\ made' = made
  BY <1>1 DEF ops, conns
<1>3. HeldConns(Ops)' = HeldConns(Ops)
  BY <1>2 DEF HeldConns
<1>4. CASE slot # NoSlot /\ slot.token = t.token
  <2>1. slot' = NoSlot /\ dying' = dying \cup {slot.conn} /\ slot.conn \in Conns
    BY <1>4 DEF TimerFires, PoolInv, TypeOK
  <2>2. KeptConns = {slot.conn} /\ KeptConns' = {}
    BY <1>4, <2>1 DEF KeptConns
  <2>3. OneOwner'
    BY <1>2, <1>3, <2>1, <2>2 DEF PoolInv, OneOwner
  <2>4. TypeOK'
    BY <1>1, <1>2, <2>1 DEF PoolInv, TypeOK
  <2>5. /\ TurnIsHeld' /\ HandsMatchStage' /\ SlotStaysEmpty'
        /\ ProbesItsSettings' /\ WorksWithItsSettings'
    BY <1>1, <1>2, <2>1
    DEF PoolInv, TurnIsHeld, HandsMatchStage, SlotStaysEmpty, ProbesItsSettings,
        WorksWithItsSettings
  <2>6. TokensAreOld' /\ KeptSessionHasItsOwnTimer'
    BY <1>1, <2>1 DEF PoolInv, TokensAreOld, KeptSessionHasItsOwnTimer
  <2> QED
    BY <2>3, <2>4, <2>5, <2>6 DEF PoolInv
<1>5. CASE ~(slot # NoSlot /\ slot.token = t.token)
  <2>1. slot' = slot /\ dying' = dying
    BY <1>5 DEF TimerFires
  <2>2. OneOwner'
    BY <1>2, <1>3, <2>1 DEF PoolInv, OneOwner, KeptConns
  <2>3. TypeOK'
    BY <1>1, <1>2, <2>1 DEF PoolInv, TypeOK
  <2>4. /\ TurnIsHeld' /\ HandsMatchStage' /\ SlotStaysEmpty'
        /\ ProbesItsSettings' /\ WorksWithItsSettings'
    BY <1>1, <1>2, <2>1
    DEF PoolInv, TurnIsHeld, HandsMatchStage, SlotStaysEmpty, ProbesItsSettings,
        WorksWithItsSettings
  <2>5. TokensAreOld' /\ KeptSessionHasItsOwnTimer'
    BY <1>1, <1>5, <2>1 DEF PoolInv, TokensAreOld, KeptSessionHasItsOwnTimer
  <2> QED
    BY <2>2, <2>3, <2>4, <2>5 DEF PoolInv
<1> QED
  BY <1>4, <1>5

LEMMA TimerClosesPreserves ==
  ASSUME PoolInv, NEW c \in dying, TimerCloses(c) PROVE PoolInv'
<1>1. /\ dying' = dying \ {c} /\ open' = open \ {c}
      /\ UNCHANGED <<ops, turn, settings, made, slot, nextToken, timers, keeps>>
  BY DEF TimerCloses
<1>2. pc' = pc /\ held' = held /\ want' = want
  BY <1>1 DEF ops
<1>3. HeldConns(Ops)' = HeldConns(Ops) /\ KeptConns' = KeptConns
  BY <1>1, <1>2 DEF HeldConns, KeptConns
<1>4. OneOwner'
  BY <1>1, <1>2, <1>3 DEF PoolInv, OneOwner
<1>5. TypeOK'
  BY <1>1, <1>2 DEF PoolInv, TypeOK
<1>6. /\ TurnIsHeld' /\ HandsMatchStage' /\ SlotStaysEmpty'
      /\ ProbesItsSettings' /\ WorksWithItsSettings'
  BY <1>1, <1>2
  DEF PoolInv, TurnIsHeld, HandsMatchStage, SlotStaysEmpty, ProbesItsSettings,
      WorksWithItsSettings
<1>7. TokensAreOld' /\ KeptSessionHasItsOwnTimer'
  BY <1>1 DEF PoolInv, TokensAreOld, KeptSessionHasItsOwnTimer
<1> QED
  BY <1>4, <1>5, <1>6, <1>7 DEF PoolInv

LEMMA ChangeSettingsPreserves == ASSUME PoolInv, ChangeSettings PROVE PoolInv'
<1>1. settings' \in Settings /\ UNCHANGED <<ops, turn, conns, pool>>
  BY DEF ChangeSettings
<1>2. OneOwner' /\ TokensAreOld' /\ KeptSessionHasItsOwnTimer'
  BY <1>1, Undisturbed DEF ops
<1>3. TypeOK'
  BY <1>1 DEF PoolInv, TypeOK, ops, conns, pool
<1>4. /\ TurnIsHeld' /\ HandsMatchStage' /\ SlotStaysEmpty'
      /\ ProbesItsSettings' /\ WorksWithItsSettings'
  BY <1>1
  DEF PoolInv, TurnIsHeld, HandsMatchStage, SlotStaysEmpty, ProbesItsSettings,
      WorksWithItsSettings, ops, conns, pool
<1> QED
  BY <1>2, <1>3, <1>4 DEF PoolInv

LEMMA StutterPreserves == ASSUME PoolInv, UNCHANGED vars PROVE PoolInv'
<1>1. UNCHANGED <<pc, want, held, turn, settings, conns, pool>>
  BY DEF vars, ops
<1>2. OneOwner' /\ TokensAreOld' /\ KeptSessionHasItsOwnTimer'
  BY <1>1, Undisturbed
<1>3. TypeOK'
  BY <1>1 DEF PoolInv, TypeOK, conns, pool
<1>4. /\ TurnIsHeld' /\ HandsMatchStage' /\ SlotStaysEmpty'
      /\ ProbesItsSettings' /\ WorksWithItsSettings'
  BY <1>1
  DEF PoolInv, TurnIsHeld, HandsMatchStage, SlotStaysEmpty, ProbesItsSettings,
      WorksWithItsSettings, conns, pool
<1> QED
  BY <1>2, <1>3, <1>4 DEF PoolInv

--------------------------------------------------------------------------------
(***************************************************************************)
(* The theorems.                                                           *)
(***************************************************************************)

\* Every step of the pool and of its users keeps the invariant.
LEMMA NextPreserves == PoolInv /\ [Next]_vars => PoolInv'
<1> SUFFICES ASSUME PoolInv, [Next]_vars PROVE PoolInv'
  OBVIOUS
<1>1. ASSUME NEW o \in Ops, Ask(o) \/ TakeTurn(o) \/ GiveUp(o) \/ PassBusyCheck(o)
      PROVE  PoolInv'
  BY <1>1, AskPreserves, TakeTurnPreserves, GiveUpPreserves, PassBusyCheckPreserves
<1>2. ASSUME NEW o \in Ops, Use(o) PROVE PoolInv'
  BY <1>2, TakeKeptPreserves, ResumePreserves, CloseKeptPreserves, OpenPreserves,
     OpenFailsPreserves, KeepSessionPreserves, StopUsingPreserves, CloseSessionPreserves
  DEF Use
<1>3. ASSUME NEW o \in Ops, Abandon(o) \/ EndOperation(o) PROVE PoolInv'
  BY <1>3, AbandonPreserves, EndOperationPreserves
<1>4. ASSUME NEW t \in timers, TimerFires(t) PROVE PoolInv'
  BY <1>4, TimerFiresPreserves
<1>5. ASSUME NEW c \in dying, TimerCloses(c) PROVE PoolInv'
  BY <1>5, TimerClosesPreserves
<1>6. CASE ChangeSettings
  BY <1>6, ChangeSettingsPreserves
<1>7. CASE UNCHANGED vars
  BY <1>7, StutterPreserves
<1> QED
  BY <1>1, <1>2, <1>3, <1>4, <1>5, <1>6, <1>7 DEF Next

\* The inductive invariant of session_pool.rs and of the operations around it
\* holds in every reachable state, whatever fails, times out or is dropped.
THEOREM PoolInvariance == Spec => []PoolInv
<1>1. Init => PoolInv
  BY InitEstablishes
<1>2. PoolInv /\ [Next]_vars => PoolInv'
  BY NextPreserves
<1> QED
  BY <1>1, <1>2, PTL DEF Spec

\* Every variable keeps its type (the pool's slot and timers included).
THEOREM PoolTypes == Spec => []TypeOK
<1>1. PoolInv => TypeOK
  BY DEF PoolInv
<1> QED
  BY <1>1, PoolInvariance, PTL

\* No connection leaks, none is used by two, and nobody's session is closed under
\* its hands: checkout, release, close_idle, close_if_token and dropped futures
\* hand every connection from one owner to the next.
THEOREM EveryConnectionHasOneOwner == Spec => []OneOwner
<1>1. PoolInv => OneOwner
  BY DEF PoolInv
<1> QED
  BY <1>1, PoolInvariance, PTL

\* checkout's comparison of fingerprints suffices: no operation works over a
\* connection made with other settings than it was asked with.
THEOREM ReuseKeepsSettings == Spec => []WorksWithItsSettings
<1>1. PoolInv => WorksWithItsSettings
  BY DEF PoolInv
<1> QED
  BY <1>1, PoolInvariance, PTL

\* A token is enough for close_if_token: the timer of an earlier release never
\* closes a session kept later, and the one that was armed for it is there.
THEOREM TimersAreTold == Spec => []KeptSessionHasItsOwnTimer
<1>1. PoolInv => KeptSessionHasItsOwnTimer
  BY DEF PoolInv
<1> QED
  BY <1>1, PoolInvariance, PTL

\* At most one session is kept or in the hands of operations with the turn, so
\* release never overwrites a kept one.
THEOREM OneSessionAtATime == Spec => []OneLiveSession
<1>1. PoolInv => OneLiveSession
  <2> SUFFICES ASSUME PoolInv
               PROVE  Cardinality(HeldConns(Turned) \cup KeptConns) <= 1
    BY DEF OneLiveSession
  <2>1. \A o \in Turned : held[o] # NoConn => turn = o /\ slot = NoSlot
    BY DEF PoolInv, TurnIsHeld, HandsMatchStage, SlotStaysEmpty, Ops
  <2>2. PICK d : HeldConns(Turned) \cup KeptConns \subseteq {d}
    <3>1. CASE slot = NoSlot
      <4>1. HeldConns(Turned) \subseteq {held[turn]}
        BY <2>1 DEF HeldConns
      <4> QED
        BY <3>1, <4>1 DEF KeptConns
    <3>2. CASE slot # NoSlot
      <4>1. HeldConns(Turned) = {}
        BY <2>1, <3>2 DEF HeldConns
      <4> QED
        BY <3>2, <4>1 DEF KeptConns
    <3> QED
      BY <3>1, <3>2
  <2>3. IsFiniteSet({d}) /\ Cardinality({d}) = 1
    BY FS_Singleton
  <2>4. Cardinality(HeldConns(Turned) \cup KeptConns) <= Cardinality({d})
    BY <2>2, <2>3, FS_Subset
  <2> QED
    BY <2>3, <2>4
<1> QED
  BY <1>1, PoolInvariance, PTL

================================================================================
