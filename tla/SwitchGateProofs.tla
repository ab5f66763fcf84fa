---------------------------- MODULE SwitchGateProofs ---------------------------
(***************************************************************************)
(* GateInv is an inductive invariant of SwitchGate, for any numbers of     *)
(* jobs, reads and trying callers.  The safety theorems follow from it,    *)
(* and so does the refinement of Turnstile.                                *)
(***************************************************************************)
EXTENDS SwitchGate, SequenceTheorems, FiniteSetTheorems, TLAPS

(***************************************************************************)
(* Sequences: what the two ways out of the line do to it.                  *)
(***************************************************************************)

\* The head leaves: the others keep their order.
LEMMA TailOfLine ==
  ASSUME NEW S, NEW q \in Seq(S), q # <<>>
  PROVE  /\ Head(q) \in S
         /\ Head(q) = q[1]
         /\ 1 \in 1..Len(q)
         /\ Tail(q) \in Seq(S)
         /\ Len(Tail(q)) = Len(q) - 1
         /\ Len(q) \in Nat
         /\ \A i \in 1..Len(Tail(q)) : i + 1 \in 1..Len(q) /\ Tail(q)[i] = q[i + 1]
  OBVIOUS

\* The i-th leaves: the others keep their order.
LEMMA WithoutOne ==
  ASSUME NEW S, NEW q \in Seq(S), NEW i \in 1..Len(q)
  PROVE  LET r == SubSeq(q, 1, i - 1) \o SubSeq(q, i + 1, Len(q))
         IN  /\ r \in Seq(S)
             /\ Len(r) = Len(q) - 1
             /\ \A k \in 1..(Len(q) - 1) : r[k] = IF k < i THEN q[k] ELSE q[k + 1]
<1> DEFINE a == SubSeq(q, 1, i - 1)
           b == SubSeq(q, i + 1, Len(q))
<1>1. a \in Seq(S) /\ Len(a) = i - 1 /\ \A k \in 1..(i - 1) : a[k] = q[k]
  <2>1. \A k \in 1..(i - 1) : q[k] \in S
    OBVIOUS
  <2>2. CASE i = 1
    BY <2>2
  <2>3. CASE i > 1
    BY <2>1, <2>3, SubSeqProperties
  <2> QED
    BY <2>2, <2>3
<1>2. b \in Seq(S) /\ Len(b) = Len(q) - i /\ \A k \in 1..(Len(q) - i) : b[k] = q[k + i]
  <2>1. CASE i = Len(q)
    BY <2>1
  <2>2. CASE i < Len(q)
    BY <2>2, SubSeqProperties
  <2> QED
    BY <2>1, <2>2
<1> HIDE DEF a, b
<1>3. PICK n \in Nat : n = Len(q)
  OBVIOUS
<1>4. i \in 1..n
  BY <1>3
<1>5. a \o b \in Seq(S) /\ Len(a \o b) = n - 1
  <2>1. a \o b \in Seq(S) /\ Len(a \o b) = Len(a) + Len(b)
    BY <1>1, <1>2, ConcatProperties
  <2> QED
    BY <1>1, <1>2, <1>3, <1>4, <2>1
<1>6. ASSUME NEW k \in 1..(n - 1)
      PROVE  (a \o b)[k] = IF k < i THEN q[k] ELSE q[k + 1]
  <2>1. k \in 1..(Len(a) + Len(b))
    BY <1>1, <1>2, <1>3, <1>4
  <2>2. (a \o b)[k] = IF k <= Len(a) THEN a[k] ELSE b[k - Len(a)]
    BY <1>1, <1>2, <2>1, ConcatProperties
  <2>3. CASE k < i
    BY <1>1, <1>4, <2>2, <2>3
  <2>4. CASE ~(k < i)
    <3>1. k - (i - 1) \in 1..(n - i) /\ (k - (i - 1)) + i = k + 1
      BY <1>4, <2>4
    <3> QED
      BY <1>1, <1>2, <1>3, <1>4, <2>2, <2>4, <3>1
  <2> QED
    BY <2>3, <2>4
<1> QED
  BY <1>3, <1>5, <1>6 DEF a, b

--------------------------------------------------------------------------------
(***************************************************************************)
(* The invariant.                                                          *)
(***************************************************************************)

\* The permit goes to the first in line, who then stands in line no more.
LEMMA PermitGoesToTheHead ==
  ASSUME TypeOK, LineIsClean, PassPermit
  PROVE  /\ queue' \in Seq(Waiters)
         /\ permit' \in Waiters \cup {NoOp}
         /\ permit' # NoOp => pc[permit'] = "queued"
         /\ queue' # <<>> => permit' # NoOp
         /\ \A i \in 1..Len(queue') : pc[queue'[i]] = "queued" /\ queue'[i] # permit'
         /\ \A i, j \in 1..Len(queue') : queue'[i] = queue'[j] => i = j
<1>1. CASE queue = <<>>
  BY <1>1 DEF PassPermit, TypeOK
<1>2. CASE queue # <<>>
  <2>1. queue' = Tail(queue) /\ permit' = Head(queue)
    BY <1>2 DEF PassPermit
  <2>2. /\ Head(queue) \in Waiters /\ Head(queue) = queue[1] /\ 1 \in 1..Len(queue)
        /\ Tail(queue) \in Seq(Waiters) /\ Len(Tail(queue)) = Len(queue) - 1
        /\ \A i \in 1..Len(Tail(queue)) :
             i + 1 \in 1..Len(queue) /\ Tail(queue)[i] = queue[i + 1]
    BY <1>2, TailOfLine DEF TypeOK
  <2>3. Head(queue) # NoOp
    BY <2>2, OpsAssumption DEF Ops, Waiters
  <2>4. ASSUME NEW i \in 1..Len(queue')
        PROVE  pc[queue'[i]] = "queued" /\ queue'[i] # permit'
    <3>1. i + 1 \in 1..Len(queue) /\ queue'[i] = queue[i + 1] /\ i + 1 # 1
      BY <2>1, <2>2, <2>4
    <3> QED
      BY <3>1, <2>1, <2>2 DEF LineIsClean
  <2>5. ASSUME NEW i \in 1..Len(queue'), NEW j \in 1..Len(queue'), queue'[i] = queue'[j]
        PROVE  i = j
    <3>1. /\ i + 1 \in 1..Len(queue) /\ queue'[i] = queue[i + 1]
          /\ j + 1 \in 1..Len(queue) /\ queue'[j] = queue[j + 1]
      BY <2>1, <2>2, <2>5
    <3>2. i + 1 = j + 1
      BY <3>1, <2>5 DEF LineIsClean
    <3> QED
      BY <3>2, <2>5
  <2>6. pc[permit'] = "queued"
    BY <2>1, <2>2 DEF LineIsClean
  <2> QED
    BY <2>1, <2>2, <2>3, <2>4, <2>5, <2>6
<1> QED
  BY <1>1, <1>2

LEMMA GateInit == Init => GateInv
<1> SUFFICES ASSUME Init PROVE GateInv
  OBVIOUS
<1>1. TypeOK
  <2>1. <<>> \in Seq(Waiters)
    OBVIOUS
  <2>2. pc \in [Ops -> Stages] /\ \A o \in Ops : pc[o] = "idle"
    BY DEF Init, Stages
  <2> QED
    BY <2>1, <2>2 DEF Init, TypeOK
<1>2. PermitOwners /\ LineIsClean /\ PermitIsNeverLost /\ BusyFlagIsFaithful
  BY DEF Init, PermitOwners, LineIsClean, PermitIsNeverLost, BusyFlagIsFaithful, Serving
<1>3. QueuedCountIsExact
  <2>1. StandingInLine = {}
    BY DEF Init, StandingInLine
  <2> QED
    BY <2>1, FS_EmptySet DEF Init, QueuedCountIsExact
<1> QED
  BY <1>1, <1>2, <1>3 DEF GateInv

--------------------------------------------------------------------------------
\* Facts every step needs.

\* What going to a stage does to pc.
LEMMA GotoMovesOne ==
  ASSUME TypeOK, NEW o \in Ops, NEW stage \in Stages, Goto(o, stage)
  PROVE  /\ pc' \in [Ops -> Stages]
         /\ pc'[o] = stage
         /\ \A x \in Ops : x # o => pc'[x] = pc[x]
BY DEF TypeOK, Goto

LEMMA WaitersAreOps ==
  Waiters \subseteq Ops /\ Watcher \in Ops /\ Watcher \notin Waiters /\ NoOp \notin Ops
BY OpsAssumption DEF Ops, Waiters

LEMMA LineMembers ==
  ASSUME TypeOK
  PROVE  \A i \in 1..Len(queue) : queue[i] \in Waiters /\ queue[i] \in Ops
BY WaitersAreOps DEF TypeOK

\* One operation moves: the set of those standing in line changes with it.
LEMMA CountFollows ==
  ASSUME NEW o \in Ops, \A x \in Ops : x # o => pc'[x] = pc[x], QueuedCountIsExact
  PROVE  /\ Cardinality(StandingInLine)' \in Nat
         /\ (pc[o] = "queued") = (pc'[o] = "queued")
              => Cardinality(StandingInLine)' = waiting
         /\ pc[o] # "queued" /\ pc'[o] = "queued"
              => Cardinality(StandingInLine)' = waiting + 1
         /\ pc[o] = "queued" /\ pc'[o] # "queued"
              => Cardinality(StandingInLine)' = waiting - 1
<1>1. IsFiniteSet(StandingInLine) /\ IsFiniteSet(StandingInLine')
  BY OpsAssumption, FS_Subset DEF StandingInLine
<1>2. Cardinality(StandingInLine)' \in Nat
  BY <1>1, FS_CardinalityType
<1>3. CASE (pc[o] = "queued") = (pc'[o] = "queued")
  <2>1. StandingInLine' = StandingInLine
    BY <1>3 DEF StandingInLine
  <2> QED
    BY <1>2, <1>3, <2>1 DEF QueuedCountIsExact
<1>4. CASE pc[o] # "queued" /\ pc'[o] = "queued"
  <2>1. StandingInLine' = StandingInLine \cup {o} /\ o \notin StandingInLine
    BY <1>4 DEF StandingInLine
  <2> QED
    BY <1>1, <1>2, <1>4, <2>1, FS_AddElement DEF QueuedCountIsExact
<1>5. CASE pc[o] = "queued" /\ pc'[o] # "queued"
  <2>1. StandingInLine' = StandingInLine \ {o} /\ o \in StandingInLine
    BY <1>5 DEF StandingInLine
  <2> QED
    BY <1>1, <1>2, <1>5, <2>1, FS_RemoveElement DEF QueuedCountIsExact
<1> QED
  BY <1>2, <1>3, <1>4, <1>5

LEMMA GateStep == GateInv /\ [Next]_vars => GateInv'
<1> SUFFICES ASSUME GateInv, [Next]_vars PROVE GateInv'
  OBVIOUS
<1>a. /\ TypeOK /\ PermitOwners /\ LineIsClean /\ PermitIsNeverLost
      /\ BusyFlagIsFaithful /\ QueuedCountIsExact
  BY DEF GateInv
<1>1. ASSUME NEW o \in Waiters, Accept(o) PROVE GateInv'
  <2>1. /\ pc' \in [Ops -> Stages] /\ pc'[o] = "accepted" /\ pc[o] = "idle" /\ o \in Ops
        /\ \A x \in Ops : x # o => pc'[x] = pc[x]
        /\ UNCHANGED <<queue, permit, waiting, configuring, pending>>
    BY <1>a, <1>1, GotoMovesOne, WaitersAreOps DEF Accept, Ops, Stages
  <2>2. TypeOK'
    BY <1>a, <1>1, <2>1 DEF TypeOK
  <2>3. PermitOwners'
    BY <1>a, <2>1 DEF PermitOwners, Serving
  <2>4. LineIsClean'
    BY <1>a, <2>1, LineMembers DEF LineIsClean
  <2>5. PermitIsNeverLost'
    BY <1>a, <2>1 DEF PermitIsNeverLost, Serving, TypeOK
  <2>6. BusyFlagIsFaithful'
    BY <1>a, <2>1 DEF BusyFlagIsFaithful, Serving
  <2>7. QueuedCountIsExact'
    BY <1>a, <2>1, CountFollows DEF QueuedCountIsExact
  <2> QED
    BY <2>2, <2>3, <2>4, <2>5, <2>6, <2>7 DEF GateInv
<1>2. ASSUME NEW o \in Waiters, Arrive(o) PROVE GateInv'
  <2>1. CASE permit = NoOp
    <3>1. /\ pc' \in [Ops -> Stages] /\ pc'[o] = "granted" /\ pc[o] = "accepted" /\ o \in Ops
          /\ \A x \in Ops : x # o => pc'[x] = pc[x]
          /\ permit' = o /\ UNCHANGED <<queue, waiting, configuring, pending>>
      BY <1>a, <1>2, <2>1, GotoMovesOne, WaitersAreOps DEF Arrive, Stages
    <3>2. queue = <<>>
      BY <1>a, <2>1 DEF PermitIsNeverLost
    <3>3. TypeOK'
      BY <1>a, <1>2, <3>1 DEF TypeOK
    <3>4. PermitOwners'
      BY <1>a, <2>1, <3>1, WaitersAreOps DEF PermitOwners, Serving
    <3>5. LineIsClean'
      BY <3>1, <3>2 DEF LineIsClean
    <3>6. PermitIsNeverLost'
      BY <3>1, <3>2 DEF PermitIsNeverLost
    <3>7. BusyFlagIsFaithful'
      BY <1>a, <3>1 DEF BusyFlagIsFaithful, Serving
    <3>8. QueuedCountIsExact'
      BY <1>a, <3>1, CountFollows DEF QueuedCountIsExact
    <3> QED
      BY <3>3, <3>4, <3>5, <3>6, <3>7, <3>8 DEF GateInv
  <2>2. CASE permit # NoOp
    <3>1. /\ pc' \in [Ops -> Stages] /\ pc'[o] = "queued" /\ pc[o] = "accepted" /\ o \in Ops
          /\ \A x \in Ops : x # o => pc'[x] = pc[x]
          /\ queue' = Append(queue, o) /\ waiting' = waiting + 1
          /\ UNCHANGED <<permit, configuring, pending>>
      BY <1>a, <1>2, <2>2, GotoMovesOne, WaitersAreOps DEF Arrive, Stages
    <3>2. /\ queue' \in Seq(Waiters) /\ Len(queue') = Len(queue) + 1 /\ Len(queue) \in Nat
          /\ queue'[Len(queue) + 1] = o
          /\ \A i \in 1..Len(queue) : queue'[i] = queue[i]
      BY <1>a, <1>2, <3>1 DEF TypeOK
    <3>3. permit # o /\ \A i \in 1..Len(queue) : queue[i] # o
      BY <1>a, <2>2, <3>1 DEF PermitIsNeverLost, LineIsClean, Serving
    <3>4. TypeOK'
      BY <1>a, <1>2, <3>1, <3>2 DEF TypeOK
    <3>5. PermitOwners'
      BY <1>a, <3>1 DEF PermitOwners, Serving
    <3>6. LineIsClean'
      <4>1. \A i \in 1..Len(queue') : i \in 1..Len(queue) \/ i = Len(queue) + 1
        BY <3>2
      <4> QED
        BY <1>a, <3>1, <3>2, <3>3, <4>1, LineMembers DEF LineIsClean
    <3>7. PermitIsNeverLost'
      BY <1>a, <2>2, <3>1 DEF PermitIsNeverLost, Serving, TypeOK
    <3>8. BusyFlagIsFaithful'
      BY <1>a, <3>1 DEF BusyFlagIsFaithful, Serving
    <3>9. QueuedCountIsExact'
      BY <1>a, <3>1, CountFollows DEF QueuedCountIsExact
    <3> QED
      BY <3>4, <3>5, <3>6, <3>7, <3>8, <3>9 DEF GateInv
  <2> QED
    BY <2>1, <2>2
<1>3. ASSUME NEW o \in Waiters, WakeUp(o) PROVE GateInv'
  <2>1. /\ pc' \in [Ops -> Stages] /\ pc'[o] = "granted" /\ pc[o] = "queued" /\ o \in Ops
        /\ \A x \in Ops : x # o => pc'[x] = pc[x]
        /\ permit = o /\ waiting' = waiting - 1
        /\ UNCHANGED <<queue, permit, configuring, pending>>
    BY <1>a, <1>3, GotoMovesOne, WaitersAreOps DEF WakeUp, Ops, Stages
  <2>2. TypeOK'
    BY <1>a, <1>3, <2>1, CountFollows DEF TypeOK
  <2>3. PermitOwners'
    BY <1>a, <2>1 DEF PermitOwners, Serving
  <2>4. LineIsClean'
    BY <1>a, <2>1, LineMembers DEF LineIsClean
  <2>5. PermitIsNeverLost'
    BY <1>a, <2>1 DEF PermitIsNeverLost, Serving, TypeOK
  <2>6. BusyFlagIsFaithful'
    BY <1>a, <2>1 DEF BusyFlagIsFaithful, Serving
  <2>7. QueuedCountIsExact'
    BY <1>a, <2>1, CountFollows DEF QueuedCountIsExact
  <2> QED
    BY <2>2, <2>3, <2>4, <2>5, <2>6, <2>7 DEF GateInv
<1>4. ASSUME NEW o \in Waiters, SetFlag(o) PROVE GateInv'
  <2>1. /\ pc' \in [Ops -> Stages] /\ pc'[o] = "holding" /\ pc[o] = "granted" /\ o \in Ops
        /\ \A x \in Ops : x # o => pc'[x] = pc[x]
        /\ configuring' = TRUE
        /\ UNCHANGED <<queue, permit, waiting, pending>>
    BY <1>a, <1>4, GotoMovesOne, WaitersAreOps DEF SetFlag, Ops, Stages
  <2>2. TypeOK'
    BY <1>a, <1>4, <2>1 DEF TypeOK
  <2>3. PermitOwners'
    BY <1>a, <2>1 DEF PermitOwners, Serving
  <2>4. LineIsClean'
    BY <1>a, <2>1, LineMembers DEF LineIsClean
  <2>5. PermitIsNeverLost'
    BY <1>a, <2>1 DEF PermitIsNeverLost, Serving, TypeOK
  <2>6. BusyFlagIsFaithful'
    BY <1>a, <2>1 DEF BusyFlagIsFaithful, Serving
  <2>7. QueuedCountIsExact'
    BY <1>a, <2>1, CountFollows DEF QueuedCountIsExact
  <2> QED
    BY <2>2, <2>3, <2>4, <2>5, <2>6, <2>7 DEF GateInv
<1>5. ASSUME NEW o \in Waiters, LeaveLine(o) PROVE GateInv'
  <2>1. /\ pc' \in [Ops -> Stages] /\ pc'[o] = "idle" /\ pc[o] = "queued" /\ o \in Ops
        /\ \A x \in Ops : x # o => pc'[x] = pc[x]
        /\ waiting' = waiting - 1 /\ UNCHANGED <<configuring, pending>>
    BY <1>a, <1>5, GotoMovesOne, WaitersAreOps DEF LeaveLine, Stages
  <2>2. waiting' \in Nat /\ QueuedCountIsExact'
    BY <1>a, <2>1, CountFollows DEF QueuedCountIsExact
  <2>3. BusyFlagIsFaithful'
    BY <1>a, <2>1 DEF BusyFlagIsFaithful, Serving
  <2>4. CASE permit = o
    <3>1. PassPermit
      BY <1>5, <2>4 DEF LeaveLine, StepOut
    <3>2. \A x \in Ops : pc[x] \notin {"granted", "cleared"} \cup Serving
      BY <1>a, <2>1, <2>4 DEF PermitOwners, Serving
    <3>3. \A i \in 1..Len(queue') : queue'[i] # o /\ queue'[i] \in Ops
      <4>1. CASE queue = <<>>
        BY <3>1, <4>1 DEF PassPermit
      <4>2. CASE queue # <<>>
        <5>1. /\ queue' = Tail(queue)
              /\ \A i \in 1..Len(Tail(queue)) :
                   i + 1 \in 1..Len(queue) /\ Tail(queue)[i] = queue[i + 1]
          BY <1>a, <3>1, <4>2, TailOfLine DEF PassPermit, TypeOK
        <5>2. \A i \in 1..Len(queue) : queue[i] # o /\ queue[i] \in Ops
          BY <1>a, <2>4, LineMembers DEF LineIsClean
        <5> QED
          BY <5>1, <5>2
      <4> QED
        BY <4>1, <4>2
    <3>4. permit' # o
      <4>1. CASE queue = <<>>
        BY <2>1, <3>1, <4>1, WaitersAreOps DEF PassPermit
      <4>2. CASE queue # <<>>
        BY <1>a, <2>4, <3>1, <4>2, TailOfLine DEF PassPermit, LineIsClean, TypeOK
      <4> QED
        BY <4>1, <4>2
    <3>5. TypeOK'
      BY <1>a, <2>1, <2>2, <3>1, PermitGoesToTheHead, WaitersAreOps DEF TypeOK
    <3>6. PermitOwners'
      BY <2>1, <3>2 DEF PermitOwners, Serving
    <3>7. LineIsClean'
      BY <1>a, <2>1, <3>1, <3>3, PermitGoesToTheHead DEF LineIsClean
    <3>8. PermitIsNeverLost'
      BY <1>a, <2>1, <3>1, <3>4, PermitGoesToTheHead, WaitersAreOps DEF PermitIsNeverLost
    <3> QED
      BY <2>2, <2>3, <3>5, <3>6, <3>7, <3>8 DEF GateInv
  <2>5. CASE permit # o
    <3>1. PICK i \in 1..Len(queue) :
            /\ queue[i] = o
            /\ queue' = SubSeq(queue, 1, i - 1) \o SubSeq(queue, i + 1, Len(queue))
            /\ permit' = permit
      BY <1>5, <2>5 DEF LeaveLine, StepOut
    <3>2. queue \in Seq(Waiters) /\ Len(queue) \in Nat /\ i \in 1..Len(queue)
      BY <1>a, <3>1 DEF TypeOK
    <3>3. /\ queue' \in Seq(Waiters)
          /\ Len(queue') = Len(queue) - 1
          /\ \A k \in 1..(Len(queue) - 1) :
               queue'[k] = IF k < i THEN queue[k] ELSE queue[k + 1]
      BY <3>1, <3>2, WithoutOne
    <3>4. \A k \in 1..Len(queue') : \E m \in 1..Len(queue) :
            m # i /\ queue'[k] = queue[m] /\ m = IF k < i THEN k ELSE k + 1
      <4> SUFFICES ASSUME NEW k \in 1..Len(queue')
                   PROVE  \E m \in 1..Len(queue) :
                            m # i /\ queue'[k] = queue[m] /\ m = IF k < i THEN k ELSE k + 1
        OBVIOUS
      <4>1. CASE k < i
        <5>1. k \in 1..Len(queue) /\ k # i
          BY <3>2, <3>3, <4>1
        <5> QED
          BY <3>3, <4>1, <5>1
      <4>2. CASE ~(k < i)
        <5>1. k + 1 \in 1..Len(queue) /\ k + 1 # i
          BY <3>2, <3>3, <4>2
        <5> QED
          BY <3>3, <4>2, <5>1
      <4> QED
        BY <4>1, <4>2
    <3>5. TypeOK'
      BY <1>a, <2>1, <2>2, <3>1, <3>3 DEF TypeOK
    <3>6. PermitOwners'
      BY <1>a, <2>1, <3>1 DEF PermitOwners, Serving
    <3>7. LineIsClean'
      <4>1. ASSUME NEW k \in 1..Len(queue')
            PROVE  pc'[queue'[k]] = "queued" /\ queue'[k] # permit'
        <5>1. PICK m \in 1..Len(queue) : m # i /\ queue'[k] = queue[m]
          BY <3>4, <4>1
        <5>2. queue[m] # o
          BY <1>a, <3>1, <5>1 DEF LineIsClean
        <5> QED
          BY <1>a, <2>1, <3>1, <5>1, <5>2, LineMembers DEF LineIsClean
      <4>2. ASSUME NEW k \in 1..Len(queue'), NEW l \in 1..Len(queue'), queue'[k] = queue'[l]
            PROVE  k = l
        <5>1. PICK m \in 1..Len(queue) :
                queue'[k] = queue[m] /\ m # i /\ m = IF k < i THEN k ELSE k + 1
          BY <3>4, <4>2
        <5>2. PICK n \in 1..Len(queue) :
                queue'[l] = queue[n] /\ n # i /\ n = IF l < i THEN l ELSE l + 1
          BY <3>4, <4>2
        <5>3. m = n
          BY <1>a, <4>2, <5>1, <5>2 DEF LineIsClean
        <5> QED
          BY <3>1, <4>2, <5>1, <5>2, <5>3
      <4> QED
        BY <4>1, <4>2 DEF LineIsClean
    <3>8. PermitIsNeverLost'
      <4>1. queue # <<>>
        BY <3>1, <3>2
      <4> QED
        BY <1>a, <2>1, <2>5, <3>1, <4>1 DEF PermitIsNeverLost, TypeOK
    <3> QED
      BY <2>2, <2>3, <3>5, <3>6, <3>7, <3>8 DEF GateInv
  <2> QED
    BY <2>4, <2>5
<1>6. ASSUME NEW o \in Waiters, DropFuture(o) PROVE GateInv'
  <2>1. CASE pc[o] = "accepted"
    <3>1. /\ pc' \in [Ops -> Stages] /\ pc'[o] = "idle" /\ o \in Ops
          /\ \A x \in Ops : x # o => pc'[x] = pc[x]
          /\ UNCHANGED <<queue, permit, waiting, configuring, pending>>
      BY <1>a, <1>6, <2>1, GotoMovesOne, WaitersAreOps DEF DropFuture, Stages
    <3>2. TypeOK'
      BY <1>a, <1>6, <3>1 DEF TypeOK
    <3>3. PermitOwners'
      BY <1>a, <3>1 DEF PermitOwners, Serving
    <3>4. LineIsClean'
      BY <1>a, <2>1, <3>1, LineMembers DEF LineIsClean
    <3>5. PermitIsNeverLost'
      BY <1>a, <2>1, <3>1 DEF PermitIsNeverLost, Serving, TypeOK
    <3>6. BusyFlagIsFaithful'
      BY <1>a, <2>1, <3>1 DEF BusyFlagIsFaithful, Serving
    <3>7. QueuedCountIsExact'
      BY <1>a, <2>1, <3>1, CountFollows DEF QueuedCountIsExact
    <3> QED
      BY <3>2, <3>3, <3>4, <3>5, <3>6, <3>7 DEF GateInv
  <2>2. CASE pc[o] = "granted"
    <3>1. /\ pc' \in [Ops -> Stages] /\ pc'[o] = "idle" /\ pc[o] = "granted" /\ o \in Ops
          /\ \A x \in Ops : x # o => pc'[x] = pc[x]
          /\ PassPermit /\ UNCHANGED <<waiting, configuring, pending>>
      BY <1>a, <1>6, <2>2, GotoMovesOne, WaitersAreOps DEF DropFuture, Stages
    <3>2. \A x \in Ops : x # o => pc[x] \notin {"granted", "cleared"} \cup Serving
      BY <1>a, <3>1 DEF PermitOwners, Serving
    <3>3. \A i \in 1..Len(queue') : queue'[i] \in Ops
      BY <1>a, <3>1, PermitGoesToTheHead, WaitersAreOps
    <3>4. TypeOK'
      BY <1>a, <3>1, PermitGoesToTheHead, WaitersAreOps DEF TypeOK
    <3>5. PermitOwners'
      BY <3>1, <3>2 DEF PermitOwners, Serving
    <3>6. LineIsClean'
      BY <1>a, <3>1, <3>3, PermitGoesToTheHead DEF LineIsClean
    <3>7. PermitIsNeverLost'
      BY <1>a, <3>1, PermitGoesToTheHead, WaitersAreOps DEF PermitIsNeverLost
    <3>8. BusyFlagIsFaithful'
      BY <1>a, <3>1 DEF BusyFlagIsFaithful, Serving
    <3>9. QueuedCountIsExact'
      BY <1>a, <3>1, CountFollows DEF QueuedCountIsExact
    <3> QED
      BY <3>4, <3>5, <3>6, <3>7, <3>8, <3>9 DEF GateInv
  <2> QED
    BY <1>6, <2>1, <2>2 DEF DropFuture
<1>7. ASSUME NEW o \in Tries \cup {Watcher}, TryAcquire(o) PROVE GateInv'
  <2>1. /\ pc' \in [Ops -> Stages] /\ pc'[o] = "holding" /\ pc[o] = "idle" /\ o \in Ops
        /\ \A x \in Ops : x # o => pc'[x] = pc[x]
        /\ permit = NoOp /\ permit' = o /\ configuring' = TRUE
        /\ UNCHANGED <<queue, waiting, pending>>
    BY <1>a, <1>7, GotoMovesOne, WaitersAreOps DEF TryAcquire, Ops, Stages, Free
  <2>2. TypeOK'
    BY <1>a, <1>7, <2>1 DEF TypeOK
  <2>3. PermitOwners'
    BY <1>a, <2>1, WaitersAreOps DEF PermitOwners, Serving
  <2>4. LineIsClean'
    BY <1>a, <2>1, LineMembers DEF LineIsClean
  <2>5. PermitIsNeverLost'
    BY <1>a, <2>1 DEF PermitIsNeverLost, Serving, TypeOK
  <2>6. BusyFlagIsFaithful'
    BY <1>a, <2>1 DEF BusyFlagIsFaithful, Serving
  <2>7. QueuedCountIsExact'
    BY <1>a, <2>1, CountFollows DEF QueuedCountIsExact
  <2> QED
    BY <2>2, <2>3, <2>4, <2>5, <2>6, <2>7 DEF GateInv
<1>8. ASSUME WatcherRefused \/ QueuePendingReload \/ TakePendingReload PROVE GateInv'
  <2>1. /\ pc' \in [Ops -> Stages] /\ Watcher \in Ops
        /\ \A x \in Ops : x # Watcher => pc'[x] = pc[x]
        /\ \/ pc[Watcher] \in {"idle", "refused"} /\ pc'[Watcher] \in {"idle", "refused"}
           \/ pc[Watcher] = "holding" /\ pc'[Watcher] = "taken"
        /\ pending' \in BOOLEAN /\ UNCHANGED <<queue, permit, waiting, configuring>>
    BY <1>a, <1>8, GotoMovesOne, WaitersAreOps
    DEF WatcherRefused, QueuePendingReload, TakePendingReload, Stages, TypeOK
  <2>2. TypeOK'
    BY <1>a, <2>1 DEF TypeOK
  <2>3. PermitOwners'
    BY <1>a, <2>1 DEF PermitOwners, Serving
  <2>4. LineIsClean'
    BY <1>a, <2>1, LineMembers DEF LineIsClean
  <2>5. PermitIsNeverLost'
    BY <1>a, <2>1 DEF PermitIsNeverLost, Serving, TypeOK
  <2>6. BusyFlagIsFaithful'
    BY <1>a, <2>1 DEF BusyFlagIsFaithful, Serving
  <2>7. QueuedCountIsExact'
    BY <1>a, <2>1, CountFollows DEF QueuedCountIsExact
  <2> QED
    BY <2>2, <2>3, <2>4, <2>5, <2>6, <2>7 DEF GateInv
<1>9. ASSUME NEW o \in Ops, Release(o) PROVE GateInv'
  <2>1. /\ pc' \in [Ops -> Stages] /\ pc'[o] = "cleared" /\ pc[o] \in {"holding", "taken"} /\ o \in Ops
        /\ \A x \in Ops : x # o => pc'[x] = pc[x]
        /\ configuring' = FALSE
        /\ UNCHANGED <<queue, permit, waiting, pending>>
    BY <1>a, <1>9, GotoMovesOne, WaitersAreOps DEF Release, Ops, Stages
  <2>2. TypeOK'
    BY <1>a, <1>9, <2>1 DEF TypeOK
  <2>3. PermitOwners'
    BY <1>a, <2>1 DEF PermitOwners, Serving
  <2>4. LineIsClean'
    BY <1>a, <2>1, LineMembers DEF LineIsClean
  <2>5. PermitIsNeverLost'
    BY <1>a, <2>1 DEF PermitIsNeverLost, Serving, TypeOK
  <2>6. BusyFlagIsFaithful'
    BY <1>a, <2>1 DEF BusyFlagIsFaithful, Serving, PermitOwners
  <2>7. QueuedCountIsExact'
    BY <1>a, <2>1, CountFollows DEF QueuedCountIsExact
  <2> QED
    BY <2>2, <2>3, <2>4, <2>5, <2>6, <2>7 DEF GateInv
<1>10. ASSUME NEW o \in Ops, CleanupClears(o) PROVE GateInv'
  <2>1. /\ pc' \in [Ops -> Stages] /\ pc'[o] = "cleared" /\ pc[o] = "dropped" /\ o \in Ops
        /\ \A x \in Ops : x # o => pc'[x] = pc[x]
        /\ configuring' = FALSE
        /\ UNCHANGED <<queue, permit, waiting, pending>>
    BY <1>a, <1>10, GotoMovesOne, WaitersAreOps DEF CleanupClears, Ops, Stages
  <2>2. TypeOK'
    BY <1>a, <1>10, <2>1 DEF TypeOK
  <2>3. PermitOwners'
    BY <1>a, <2>1 DEF PermitOwners, Serving
  <2>4. LineIsClean'
    BY <1>a, <2>1, LineMembers DEF LineIsClean
  <2>5. PermitIsNeverLost'
    BY <1>a, <2>1 DEF PermitIsNeverLost, Serving, TypeOK
  <2>6. BusyFlagIsFaithful'
    BY <1>a, <2>1 DEF BusyFlagIsFaithful, Serving, PermitOwners
  <2>7. QueuedCountIsExact'
    BY <1>a, <2>1, CountFollows DEF QueuedCountIsExact
  <2> QED
    BY <2>2, <2>3, <2>4, <2>5, <2>6, <2>7 DEF GateInv
<1>11. ASSUME NEW o \in Ops, DropPermit(o) PROVE GateInv'
  <2>1. /\ pc' \in [Ops -> Stages] /\ pc'[o] = "idle" /\ pc[o] = "cleared" /\ o \in Ops
        /\ \A x \in Ops : x # o => pc'[x] = pc[x]
        /\ PassPermit /\ UNCHANGED <<waiting, configuring, pending>>
    BY <1>a, <1>11, GotoMovesOne, WaitersAreOps DEF DropPermit, Stages
  <2>2. \A x \in Ops : x # o => pc[x] \notin {"granted", "cleared"} \cup Serving
    BY <1>a, <2>1 DEF PermitOwners, Serving
  <2>3. \A i \in 1..Len(queue') : queue'[i] \in Ops
    BY <1>a, <2>1, PermitGoesToTheHead, WaitersAreOps
  <2>4. TypeOK'
    BY <1>a, <2>1, PermitGoesToTheHead, WaitersAreOps DEF TypeOK
  <2>5. PermitOwners'
    BY <2>1, <2>2 DEF PermitOwners, Serving
  <2>6. LineIsClean'
    BY <1>a, <2>1, <2>3, PermitGoesToTheHead DEF LineIsClean
  <2>7. PermitIsNeverLost'
    BY <1>a, <2>1, PermitGoesToTheHead, WaitersAreOps DEF PermitIsNeverLost
  <2>8. BusyFlagIsFaithful'
    BY <1>a, <2>1 DEF BusyFlagIsFaithful, Serving
  <2>9. QueuedCountIsExact'
    BY <1>a, <2>1, CountFollows DEF QueuedCountIsExact
  <2> QED
    BY <2>4, <2>5, <2>6, <2>7, <2>8, <2>9 DEF GateInv
<1>12. ASSUME NEW o \in Ops \ {Watcher}, DropGuard(o) PROVE GateInv'
  <2>1. /\ pc' \in [Ops -> Stages] /\ pc'[o] = "dropped" /\ pc[o] = "holding" /\ o \in Ops
        /\ \A x \in Ops : x # o => pc'[x] = pc[x]
        /\ UNCHANGED <<queue, permit, waiting, configuring, pending>>
    BY <1>a, <1>12, GotoMovesOne, WaitersAreOps DEF DropGuard, Ops, Stages
  <2>2. TypeOK'
    BY <1>a, <1>12, <2>1 DEF TypeOK
  <2>3. PermitOwners'
    BY <1>a, <2>1 DEF PermitOwners, Serving
  <2>4. LineIsClean'
    BY <1>a, <2>1, LineMembers DEF LineIsClean
  <2>5. PermitIsNeverLost'
    BY <1>a, <2>1 DEF PermitIsNeverLost, Serving, TypeOK
  <2>6. BusyFlagIsFaithful'
    BY <1>a, <2>1 DEF BusyFlagIsFaithful, Serving
  <2>7. QueuedCountIsExact'
    BY <1>a, <2>1, CountFollows DEF QueuedCountIsExact
  <2> QED
    BY <2>2, <2>3, <2>4, <2>5, <2>6, <2>7 DEF GateInv
<1>13. ASSUME NEW o \in Ops \ Reads, Hang(o) PROVE GateInv'
  <2>1. /\ pc' \in [Ops -> Stages] /\ pc'[o] = "hung" /\ pc[o] = "holding" /\ o \in Ops
        /\ \A x \in Ops : x # o => pc'[x] = pc[x]
        /\ UNCHANGED <<queue, permit, waiting, configuring, pending>>
    BY <1>a, <1>13, GotoMovesOne, WaitersAreOps DEF Hang, Ops, Stages
  <2>2. TypeOK'
    BY <1>a, <1>13, <2>1 DEF TypeOK
  <2>3. PermitOwners'
    BY <1>a, <2>1 DEF PermitOwners, Serving
  <2>4. LineIsClean'
    BY <1>a, <2>1, LineMembers DEF LineIsClean
  <2>5. PermitIsNeverLost'
    BY <1>a, <2>1 DEF PermitIsNeverLost, Serving, TypeOK
  <2>6. BusyFlagIsFaithful'
    BY <1>a, <2>1 DEF BusyFlagIsFaithful, Serving
  <2>7. QueuedCountIsExact'
    BY <1>a, <2>1, CountFollows DEF QueuedCountIsExact
  <2> QED
    BY <2>2, <2>3, <2>4, <2>5, <2>6, <2>7 DEF GateInv
<1>14. CASE UNCHANGED vars
  BY <1>a, <1>14 DEF vars, GateInv, TypeOK, PermitOwners, LineIsClean, PermitIsNeverLost,
                     BusyFlagIsFaithful, QueuedCountIsExact, StandingInLine
<1> QED
  BY <1>1, <1>2, <1>3, <1>4, <1>5, <1>6, <1>7, <1>8, <1>9, <1>10, <1>11, <1>12, <1>13,
     <1>14 DEF Next

--------------------------------------------------------------------------------
(***************************************************************************)
(* The theorems.                                                           *)
(***************************************************************************)

\* The state of a gate is always the one status.rs believes it is: the permit
\* has one owner, the line holds each waiter once, flag and counter are exact.
THEOREM GateInvariance == Spec => []GateInv
BY GateInit, GateStep, PTL DEF Spec

\* ConfiguringGuard is exclusive: try_acquire_configuring and
\* acquire_configuring_queued never let two operations work on one switch.
THEOREM MutualExclusion == Spec => []OneOperationPerSwitch
<1>1. GateInv => OneOperationPerSwitch
  BY DEF GateInv, PermitOwners, OneOperationPerSwitch
<1> QED
  BY <1>1, GateInvariance, PTL

\* The busy flag is set exactly while a guard lives or is being cleaned up:
\* no cleanup wipes the flag of the next holder (status.rs:30-32).
THEOREM FlagFollowsGuard == Spec => []BusyFlagIsFaithful
<1>1. GateInv => BusyFlagIsFaithful
  BY DEF GateInv
<1> QED
  BY <1>1, GateInvariance, PTL

\* The turn is never lost: whoever drops a permit, a future or a guard, a free
\* permit and a non-empty line never meet.
THEOREM TurnIsNeverLost == Spec => []PermitIsNeverLost
<1>1. GateInv => PermitIsNeverLost
  BY DEF GateInv
<1> QED
  BY <1>1, GateInvariance, PTL

\* queued_operations is exact, and its counter never wraps below zero.
THEOREM CountIsExact == Spec => [](QueuedCountIsExact /\ waiting \in Nat)
<1>1. GateInv => QueuedCountIsExact /\ waiting \in Nat
  BY DEF GateInv, TypeOK
<1> QED
  BY <1>1, GateInvariance, PTL

\* Types, and which stages belong to which callers: only those who wait are ever
\* in line, and only the watcher is refused or takes a pending reload.
THEOREM GateTypes == Spec => []TypeOK
<1>1. GateInv => TypeOK
  BY DEF GateInv
<1> QED
  BY <1>1, GateInvariance, PTL

(***************************************************************************)
(* SwitchGate implements Turnstile: every step of the mechanism is a step  *)
(* of the promise or changes nothing of it.                                *)
(***************************************************************************)

(***************************************************************************)
(* Sequences: a line with one more at its head.                            *)
(***************************************************************************)

LEMMA OneBefore ==
  ASSUME NEW S, NEW p \in S, NEW q \in Seq(S)
  PROVE  /\ <<p>> \o q \in Seq(S)
         /\ <<p>> \o q # <<>>
         /\ Len(q) \in Nat
         /\ Len(<<p>> \o q) = Len(q) + 1
         /\ (<<p>> \o q)[1] = p
         /\ \A i \in 2..(Len(q) + 1) : (<<p>> \o q)[i] = q[i - 1]
<1>1. <<p>> \in Seq(S) /\ Len(<<p>>) = 1 /\ <<p>>[1] = p /\ Len(q) \in Nat
  OBVIOUS
<1>2. /\ <<p>> \o q \in Seq(S)
      /\ Len(<<p>> \o q) = 1 + Len(q)
      /\ \A i \in 1..(1 + Len(q)) : (<<p>> \o q)[i] = IF i <= 1 THEN <<p>>[i] ELSE q[i - 1]
  BY <1>1, ConcatProperties
<1>3. <<p>> \o q # <<>>
  BY <1>1, <1>2, EmptySeq
<1> QED
  BY <1>1, <1>2, <1>3

LEMMA HeadOfOneBefore ==
  ASSUME NEW S, NEW p \in S, NEW q \in Seq(S)
  PROVE  Head(<<p>> \o q) = p /\ Tail(<<p>> \o q) = q
<1> DEFINE l == <<p>> \o q
<1>1. /\ l \in Seq(S) /\ l # <<>> /\ Len(q) \in Nat /\ Len(l) = Len(q) + 1 /\ l[1] = p
      /\ \A i \in 2..(Len(q) + 1) : l[i] = q[i - 1]
  BY OneBefore
<1> HIDE DEF l
<1>2. /\ Head(l) = l[1] /\ Tail(l) \in Seq(S) /\ Len(Tail(l)) = Len(l) - 1
      /\ \A i \in 1..Len(Tail(l)) : Tail(l)[i] = l[i + 1]
  BY <1>1, TailOfLine
<1>3. Len(Tail(l)) = Len(q) /\ \A i \in 1..Len(Tail(l)) : Tail(l)[i] = q[i]
  <2>1. ASSUME NEW i \in 1..Len(q) PROVE l[i + 1] = q[i]
    <3>1. i + 1 \in 2..(Len(q) + 1) /\ (i + 1) - 1 = i
      BY <1>1
    <3> QED
      BY <1>1, <3>1
  <2> QED
    BY <1>1, <1>2, <2>1
<1>4. Tail(l) = q
  BY <1>2, <1>3, SeqEqual
<1> QED
  BY <1>1, <1>2, <1>4 DEF l

LEMMA HeadAndTailAgain ==
  ASSUME NEW S, NEW q \in Seq(S), q # <<>>
  PROVE  <<Head(q)>> \o Tail(q) = q
<1> DEFINE l == <<Head(q)>> \o Tail(q)
<1>1. /\ Head(q) \in S /\ Head(q) = q[1] /\ Tail(q) \in Seq(S) /\ Len(q) \in Nat
      /\ Len(Tail(q)) = Len(q) - 1 /\ 1 \in 1..Len(q)
      /\ \A i \in 1..Len(Tail(q)) : Tail(q)[i] = q[i + 1]
  BY TailOfLine
<1>2. /\ l \in Seq(S) /\ Len(l) = Len(Tail(q)) + 1 /\ l[1] = q[1]
      /\ \A i \in 2..(Len(Tail(q)) + 1) : l[i] = Tail(q)[i - 1]
  BY <1>1, OneBefore
<1> HIDE DEF l
<1>3. Len(l) = Len(q)
  BY <1>1, <1>2
<1>4. ASSUME NEW i \in 1..Len(l) PROVE l[i] = q[i]
  <2>1. CASE i = 1
    BY <1>2, <2>1
  <2>2. CASE i # 1
    <3>1. i \in 2..(Len(Tail(q)) + 1) /\ i - 1 \in 1..Len(Tail(q)) /\ (i - 1) + 1 = i
      BY <1>1, <1>2, <2>2
    <3> QED
      BY <1>1, <1>2, <3>1
  <2> QED
    BY <2>1, <2>2
<1>5. l = q
  BY <1>2, <1>3, <1>4, SeqEqual
<1> QED
  BY <1>5 DEF l

LEMMA AppendBehindOne ==
  ASSUME NEW S, NEW p \in S, NEW q \in Seq(S), NEW o \in S
  PROVE  <<p>> \o Append(q, o) = Append(<<p>> \o q, o)
<1> DEFINE l == <<p>> \o q
           a == Append(q, o)
           r == <<p>> \o a
           t == Append(l, o)
<1>1. /\ l \in Seq(S) /\ Len(q) \in Nat /\ Len(l) = Len(q) + 1 /\ l[1] = p
      /\ \A i \in 2..(Len(q) + 1) : l[i] = q[i - 1]
  BY OneBefore
<1>2. /\ a \in Seq(S) /\ Len(a) = Len(q) + 1 /\ a[Len(q) + 1] = o
      /\ \A i \in 1..Len(q) : a[i] = q[i]
  BY AppendProperties
<1> HIDE DEF l, a
<1>3. /\ r \in Seq(S) /\ Len(r) = Len(a) + 1 /\ r[1] = p
      /\ \A i \in 2..(Len(a) + 1) : r[i] = a[i - 1]
  BY <1>2, OneBefore
<1>4. /\ t \in Seq(S) /\ Len(t) = Len(l) + 1 /\ t[Len(l) + 1] = o
      /\ \A i \in 1..Len(l) : t[i] = l[i]
  BY <1>1, AppendProperties
<1> HIDE DEF r, t
<1>5. Len(r) = Len(t)
  BY <1>1, <1>2, <1>3, <1>4
<1>6. ASSUME NEW i \in 1..Len(r) PROVE r[i] = t[i]
  <2>1. CASE i = 1
    BY <1>1, <1>3, <1>4, <2>1
  <2>2. CASE i \in 2..(Len(q) + 1)
    <3>1. i \in 2..(Len(a) + 1) /\ i - 1 \in 1..Len(q) /\ i \in 1..Len(l)
      BY <1>1, <1>2, <2>2
    <3> QED
      BY <1>1, <1>2, <1>3, <1>4, <2>2, <3>1
  <2>3. CASE i = Len(q) + 2
    <3>1. i \in 2..(Len(a) + 1) /\ i - 1 = Len(q) + 1 /\ i = Len(l) + 1
      BY <1>1, <1>2, <2>3
    <3> QED
      BY <1>2, <1>3, <1>4, <3>1
  <2> QED
    BY <1>1, <1>2, <1>3, <2>1, <2>2, <2>3
<1>7. r = t
  BY <1>3, <1>4, <1>5, <1>6, SeqEqual
<1> QED
  BY <1>7 DEF r, t, l, a

\* One who stands behind the head leaves.
LEMMA WithoutBehindOne ==
  ASSUME NEW S, NEW p \in S, NEW q \in Seq(S), NEW i \in 1..Len(q)
  PROVE  LET l == <<p>> \o q
         IN  /\ i + 1 \in 1..Len(l)
             /\ l[i + 1] = q[i]
             /\ T!Without(l, i + 1) = <<p>> \o T!Without(q, i)
<1> DEFINE l == <<p>> \o q
           n == Len(q)
           w == SubSeq(q, 1, i - 1) \o SubSeq(q, i + 1, Len(q))
           v == SubSeq(l, 1, (i + 1) - 1) \o SubSeq(l, (i + 1) + 1, Len(l))
           r == <<p>> \o w
<1>1. /\ l \in Seq(S) /\ n \in Nat /\ Len(l) = n + 1 /\ l[1] = p
      /\ \A k \in 2..(n + 1) : l[k] = q[k - 1]
  BY OneBefore
<1>2. w \in Seq(S) /\ Len(w) = n - 1 /\ \A k \in 1..(n - 1) : w[k] = IF k < i THEN q[k] ELSE q[k + 1]
  BY WithoutOne
<1> HIDE DEF l, w
<1>3. i \in 1..n /\ i + 1 \in 1..Len(l) /\ i + 1 \in 2..(n + 1) /\ (i + 1) - 1 = i
  BY <1>1
<1>4. v \in Seq(S) /\ Len(v) = Len(l) - 1
      /\ \A k \in 1..(Len(l) - 1) : v[k] = IF k < i + 1 THEN l[k] ELSE l[k + 1]
  BY <1>1, <1>3, WithoutOne
<1>5. /\ r \in Seq(S) /\ Len(r) = Len(w) + 1 /\ r[1] = p
      /\ \A k \in 2..(Len(w) + 1) : r[k] = w[k - 1]
  BY <1>2, OneBefore
<1>6. T!Without(l, i + 1) = v /\ T!Without(q, i) = w
  BY DEF T!Without, w
<1> HIDE DEF r, v, n
<1>7. Len(v) = n /\ Len(r) = n
  BY <1>1, <1>2, <1>3, <1>4, <1>5
<1>8. ASSUME NEW k \in 1..n PROVE v[k] = r[k]
  <2>1. CASE k = 1
    BY <1>1, <1>3, <1>4, <1>5, <2>1
  <2>2. CASE k # 1 /\ k < i + 1
    <3>1. k \in 2..(n + 1) /\ k \in 1..(Len(l) - 1) /\ k \in 2..(Len(w) + 1) /\ k - 1 \in 1..(n - 1)
          /\ k - 1 < i
      BY <1>1, <1>2, <1>3, <2>2
    <3> QED
      BY <1>1, <1>2, <1>4, <1>5, <2>2, <3>1
  <2>3. CASE k # 1 /\ ~(k < i + 1)
    <3>1. /\ k + 1 \in 2..(n + 1) /\ k \in 1..(Len(l) - 1) /\ k \in 2..(Len(w) + 1)
          /\ k - 1 \in 1..(n - 1) /\ ~(k - 1 < i) /\ (k - 1) + 1 = k /\ (k + 1) - 1 = k
      BY <1>1, <1>2, <1>3, <2>3
    <3>2. v[k] = l[k + 1] /\ l[k + 1] = q[k]
      BY <1>1, <1>4, <2>3, <3>1
    <3>3. r[k] = w[k - 1] /\ w[k - 1] = q[k]
      BY <1>2, <1>5, <3>1
    <3> QED
      BY <3>2, <3>3
  <2> QED
    BY <2>1, <2>2, <2>3
<1>9. v = r
  BY <1>4, <1>5, <1>7, <1>8, SeqEqual
<1> QED
  BY <1>1, <1>3, <1>6, <1>9 DEF l, r

\* The one at the head leaves.
LEMMA WithoutTheHead ==
  ASSUME NEW S, NEW p \in S, NEW q \in Seq(S)
  PROVE  T!Without(<<p>> \o q, 1) = q
<1> DEFINE l == <<p>> \o q
           n == Len(q)
           v == SubSeq(l, 1, 1 - 1) \o SubSeq(l, 1 + 1, Len(l))
<1>1. /\ l \in Seq(S) /\ n \in Nat /\ Len(l) = n + 1 /\ l[1] = p
      /\ \A k \in 2..(n + 1) : l[k] = q[k - 1]
  BY OneBefore
<1> HIDE DEF l
<1>2. 1 \in 1..Len(l)
  BY <1>1
<1>3. v \in Seq(S) /\ Len(v) = Len(l) - 1
      /\ \A k \in 1..(Len(l) - 1) : v[k] = IF k < 1 THEN l[k] ELSE l[k + 1]
  BY <1>1, <1>2, WithoutOne
<1>4. T!Without(l, 1) = v
  BY DEF T!Without
<1> HIDE DEF v
<1>5. ASSUME NEW k \in 1..n PROVE v[k] = q[k]
  <2>1. k \in 1..(Len(l) - 1) /\ ~(k < 1) /\ k + 1 \in 2..(n + 1) /\ (k + 1) - 1 = k
    BY <1>1
  <2> QED
    BY <1>1, <1>3, <2>1
<1>6. v = q
  BY <1>1, <1>3, <1>5, SeqEqual
<1> QED
  BY <1>4, <1>6 DEF l

--------------------------------------------------------------------------------
(***************************************************************************)
(* The mapping.                                                            *)
(***************************************************************************)

\* The one who is served is the permit's owner.
LEMMA ServerOwnsThePermit ==
  GateInv => Server = IF permit # NoOp /\ pc[permit] \in Serving THEN permit ELSE NoOp
<1> SUFFICES ASSUME GateInv
             PROVE  Server = IF permit # NoOp /\ pc[permit] \in Serving THEN permit ELSE NoOp
  OBVIOUS
<1>1. \A o \in Ops : pc[o] \in Serving => permit = o /\ o # NoOp
  BY WaitersAreOps DEF GateInv, PermitOwners
<1>2. permit # NoOp => permit \in Ops
  BY DEF GateInv, TypeOK
<1>3. CASE \E o \in Ops : pc[o] \in Serving
  <2>1. Server \in Ops /\ pc[Server] \in Serving
    BY <1>3 DEF Server
  <2> QED
    BY <1>1, <2>1
<1>4. CASE ~\E o \in Ops : pc[o] \in Serving
  BY <1>2, <1>4 DEF Server
<1> QED
  BY <1>3, <1>4

\* Who hands the permit on leaves the line as it is, with its head the new owner.
LEMMA PassingKeepsTheLine ==
  ASSUME TypeOK, PassPermit, permit' # NoOp => pc'[permit'] = "queued"
  PROVE  Line' = queue
<1>1. CASE queue = <<>>
  BY <1>1 DEF PassPermit, Line
<1>2. CASE queue # <<>>
  <2>1. queue' = Tail(queue) /\ permit' = Head(queue)
    BY <1>2 DEF PassPermit
  <2>2. Head(queue) \in Waiters /\ Head(queue) # NoOp
    BY <1>2, TailOfLine, WaitersAreOps DEF TypeOK
  <2>3. Line' = <<Head(queue)>> \o Tail(queue)
    BY <2>1, <2>2 DEF Line
  <2> QED
    BY <1>2, <2>3, HeadAndTailAgain DEF TypeOK
<1> QED
  BY <1>1, <1>2

\* Who has the permit and leaves the line leaves its head.
LEMMA HeadLeaves ==
  ASSUME TypeOK, NEW o \in Waiters, permit = o, pc[o] \in {"queued", "granted"},
         Line' = queue, Server' = Server, configuring' = configuring
  PROVE  T!Leave(o)
<1>1. Line = <<o>> \o queue
  BY WaitersAreOps DEF Line
<1>2. queue \in Seq(Waiters)
  BY DEF TypeOK
<1>3. 1 \in 1..Len(Line) /\ Line[1] = o
  BY <1>1, <1>2, OneBefore
<1>4. T!Without(Line, 1) = queue
  BY <1>1, <1>2, WithoutTheHead
<1> QED
  BY <1>3, <1>4 DEF T!Leave

LEMMA StepIsPromised ==
  ASSUME GateInv, GateInv', [Next]_vars
  PROVE  [T!Next]_(T!vars)
<1>a. /\ TypeOK /\ PermitOwners /\ LineIsClean /\ PermitIsNeverLost
      /\ BusyFlagIsFaithful /\ QueuedCountIsExact
  BY DEF GateInv
<1>b. Server = IF permit # NoOp /\ pc[permit] \in Serving THEN permit ELSE NoOp
  BY ServerOwnsThePermit
<1>c. Server' = IF permit' # NoOp /\ pc'[permit'] \in Serving THEN permit' ELSE NoOp
  <2>1. (GateInv => Server = IF permit # NoOp /\ pc[permit] \in Serving THEN permit ELSE NoOp)'
    BY ServerOwnsThePermit, PTL
  <2> QED
    BY <2>1
<1>d. queue \in Seq(Waiters) /\ Len(queue) \in Nat /\ (permit # NoOp => permit \in Ops)
  BY <1>a DEF TypeOK
<1>e. ASSUME UNCHANGED <<Line, Server, configuring>> PROVE [T!Next]_(T!vars)
  BY <1>e DEF T!vars
<1>f. permit # NoOp => pc[permit] \in {"queued", "granted", "cleared"} \cup Serving
  BY <1>a DEF PermitIsNeverLost
<1>1. ASSUME NEW o \in Waiters, Accept(o) PROVE [T!Next]_(T!vars)
  <2>1. /\ pc[o] = "idle" /\ o \in Ops /\ \A x \in Ops : x # o => pc'[x] = pc[x]
        /\ UNCHANGED <<queue, permit, configuring>>
    BY <1>a, <1>1, GotoMovesOne, WaitersAreOps DEF Accept, Stages
  <2>2. permit # NoOp => pc'[permit] = pc[permit]
    BY <1>d, <1>f, <2>1 DEF Serving
  <2> QED
    BY <1>b, <1>c, <1>e, <2>1, <2>2 DEF Line
<1>2. ASSUME NEW o \in Waiters, Arrive(o) PROVE [T!Next]_(T!vars)
  <2>1. /\ pc[o] = "accepted" /\ o \in Ops /\ \A x \in Ops : x # o => pc'[x] = pc[x]
        /\ UNCHANGED configuring
    BY <1>a, <1>2, GotoMovesOne, WaitersAreOps DEF Arrive, Stages
  <2>2. T!Join(o)
    <3>1. CASE permit = NoOp
      <4>1. permit' = o /\ pc'[o] = "granted" /\ queue' = queue /\ queue = <<>>
        BY <1>a, <1>2, <2>1, <3>1, GotoMovesOne DEF Arrive, Stages, PermitIsNeverLost
      <4>2. Line = <<>> /\ Line' = Append(<<>>, o)
        BY <3>1, <4>1, WaitersAreOps DEF Line
      <4>3. Server = NoOp /\ Server' = NoOp /\ o # NoOp
        BY <1>b, <1>c, <3>1, <4>1, WaitersAreOps DEF Serving
      <4> QED
        BY <2>1, <4>2, <4>3 DEF T!Join, T!InLine
    <3>2. CASE permit # NoOp
      <4>1. permit' = permit /\ queue' = Append(queue, o) /\ permit # o /\ pc'[permit] = pc[permit]
        BY <1>2, <1>d, <1>f, <2>1, <3>2 DEF Arrive, Serving
      <4>2. Server' = Server /\ o # Server
        BY <1>b, <1>c, <2>1, <4>1, WaitersAreOps
      <4>3. \A i \in 1..Len(queue) : queue[i] # o
        BY <1>a, <2>1 DEF LineIsClean
      <4>4. CASE pc[permit] \in {"queued", "granted"}
        <5>1. permit \in Waiters
          BY <1>a, <1>d, <3>2, <4>4 DEF TypeOK
        <5>2. Line = <<permit>> \o queue /\ Line' = <<permit>> \o Append(queue, o)
          BY <3>2, <4>1, <4>4 DEF Line
        <5>3. Line' = Append(Line, o)
          BY <1>d, <5>1, <5>2, AppendBehindOne
        <5>4. /\ Len(Line) = Len(queue) + 1 /\ Line[1] = permit
              /\ \A i \in 2..(Len(queue) + 1) : Line[i] = queue[i - 1]
          BY <1>d, <5>1, <5>2, OneBefore
        <5>5. ASSUME NEW i \in 1..Len(Line) PROVE Line[i] # o
          <6>1. CASE i = 1
            BY <4>1, <5>4, <6>1
          <6>2. CASE i # 1
            <7>1. i \in 2..(Len(queue) + 1) /\ i - 1 \in 1..Len(queue)
              BY <1>d, <5>4, <6>2
            <7> QED
              BY <4>3, <5>4, <7>1
          <6> QED
            BY <6>1, <6>2
        <5> QED
          BY <2>1, <4>2, <5>3, <5>5 DEF T!Join, T!InLine
      <4>5. CASE pc[permit] \notin {"queued", "granted"}
        <5>1. Line = queue /\ Line' = Append(queue, o)
          BY <4>1, <4>5 DEF Line
        <5> QED
          BY <2>1, <4>2, <4>3, <5>1 DEF T!Join, T!InLine
      <4> QED
        BY <4>4, <4>5
    <3> QED
      BY <3>1, <3>2
  <2> QED
    BY <2>1, <2>2 DEF T!Next
<1>3. ASSUME NEW o \in Waiters, WakeUp(o) PROVE [T!Next]_(T!vars)
  <2>1. /\ pc[o] = "queued" /\ pc'[o] = "granted" /\ permit = o
        /\ UNCHANGED <<queue, permit, configuring>>
    BY <1>a, <1>3, GotoMovesOne, WaitersAreOps DEF WakeUp, Stages
  <2> QED
    BY <1>b, <1>c, <1>e, <2>1 DEF Line, Serving
<1>4. ASSUME NEW o \in Waiters, SetFlag(o) PROVE [T!Next]_(T!vars)
  <2>1. /\ pc[o] = "granted" /\ pc'[o] = "holding" /\ o \in Ops
        /\ configuring' = TRUE /\ UNCHANGED <<queue, permit>>
    BY <1>a, <1>4, GotoMovesOne, WaitersAreOps DEF SetFlag, Stages
  <2>2. permit = o /\ permit # NoOp
    BY <1>a, <2>1, WaitersAreOps DEF PermitOwners
  <2>3. Line = <<o>> \o queue /\ Line' = queue
    BY <2>1, <2>2 DEF Line
  <2>4. Line # <<>> /\ Head(Line) = o /\ Tail(Line) = queue
    BY <1>d, <2>3, OneBefore, HeadOfOneBefore
  <2>5. Server = NoOp /\ Server' = o
    BY <1>b, <1>c, <2>1, <2>2 DEF Serving
  <2>6. T!Serve(o)
    BY <2>1, <2>3, <2>4, <2>5 DEF T!Serve
  <2> QED
    BY <2>1, <2>6 DEF T!Next
<1>5. ASSUME NEW o \in Waiters, LeaveLine(o) PROVE [T!Next]_(T!vars)
  <2>1. /\ pc[o] = "queued" /\ o \in Ops /\ \A x \in Ops : x # o => pc'[x] = pc[x]
        /\ StepOut(o) /\ UNCHANGED configuring
    BY <1>a, <1>5, GotoMovesOne, WaitersAreOps DEF LeaveLine, Stages
  <2>2. T!Leave(o)
    <3>1. CASE permit = o
      <4>1. PassPermit
        BY <2>1, <3>1 DEF StepOut
      <4>2. permit' # NoOp => permit' # o /\ pc'[permit'] = "queued"
        <5>1. permit' # o
          <6>1. CASE queue = <<>>
            BY <2>1, <4>1, <6>1, WaitersAreOps DEF PassPermit
          <6>2. CASE queue # <<>>
            BY <1>a, <1>d, <3>1, <4>1, <6>2, TailOfLine DEF PassPermit, LineIsClean
          <6> QED
            BY <6>1, <6>2
        <5> QED
          BY <1>a, <2>1, <4>1, <5>1, PermitGoesToTheHead, WaitersAreOps
      <4>3. Line' = queue
        BY <1>a, <4>1, <4>2, PassingKeepsTheLine
      <4>4. Server' = Server
        BY <1>b, <1>c, <2>1, <3>1, <4>2 DEF Serving
      <4> QED
        BY <1>a, <2>1, <3>1, <4>3, <4>4, HeadLeaves
    <3>2. CASE permit # o
      <4>1. PICK i \in 1..Len(queue) :
              queue[i] = o /\ queue' = T!Without(queue, i) /\ permit' = permit
        BY <2>1, <3>2 DEF StepOut, T!Without
      <4>2. permit # NoOp => pc'[permit] = pc[permit]
        BY <1>d, <2>1, <3>2
      <4>3. Server' = Server
        BY <1>b, <1>c, <4>1, <4>2
      <4>4. CASE permit # NoOp /\ pc[permit] \in {"queued", "granted"}
        <5>1. permit \in Waiters
          BY <1>a, <1>d, <4>4 DEF TypeOK
        <5>2. Line = <<permit>> \o queue /\ Line' = <<permit>> \o T!Without(queue, i)
          BY <4>1, <4>2, <4>4 DEF Line
        <5>3. i + 1 \in 1..Len(Line) /\ Line[i + 1] = o /\ Line' = T!Without(Line, i + 1)
          <6>1. /\ i + 1 \in 1..Len(<<permit>> \o queue)
                /\ (<<permit>> \o queue)[i + 1] = queue[i]
                /\ T!Without(<<permit>> \o queue, i + 1) = <<permit>> \o T!Without(queue, i)
            BY <1>d, <5>1, WithoutBehindOne
          <6> QED
            BY <4>1, <5>2, <6>1
        <5> QED
          BY <2>1, <4>3, <5>3 DEF T!Leave
      <4>5. CASE ~(permit # NoOp /\ pc[permit] \in {"queued", "granted"})
        <5>1. Line = queue /\ Line' = T!Without(queue, i)
          BY <4>1, <4>2, <4>5 DEF Line
        <5> QED
          BY <2>1, <4>1, <4>3, <5>1 DEF T!Leave
      <4> QED
        BY <4>4, <4>5
    <3> QED
      BY <3>1, <3>2
  <2> QED
    BY <2>1, <2>2 DEF T!Next
<1>6. ASSUME NEW o \in Waiters, DropFuture(o) PROVE [T!Next]_(T!vars)
  <2>1. o \in Ops /\ \A x \in Ops : x # o => pc'[x] = pc[x]
    BY <1>a, <1>6, GotoMovesOne, WaitersAreOps DEF DropFuture, Stages
  <2>2. CASE pc[o] = "accepted"
    <3>1. UNCHANGED <<queue, permit, configuring>>
      BY <1>6, <2>2 DEF DropFuture
    <3>2. permit # NoOp => pc'[permit] = pc[permit]
      BY <1>d, <1>f, <2>1, <2>2 DEF Serving
    <3> QED
      BY <1>b, <1>c, <1>e, <3>1, <3>2 DEF Line
  <2>3. CASE pc[o] = "granted"
    <3>1. PassPermit /\ permit = o /\ UNCHANGED configuring
      BY <1>6, <1>a, <2>1, <2>3 DEF DropFuture, PermitOwners
    <3>2. permit' # NoOp => pc'[permit'] = "queued"
      BY <1>a, <2>1, <2>3, <3>1, PermitGoesToTheHead, WaitersAreOps
    <3>3. Line' = queue
      BY <1>a, <3>1, <3>2, PassingKeepsTheLine
    <3>4. Server' = Server
      BY <1>b, <1>c, <2>3, <3>1, <3>2 DEF Serving
    <3>5. T!Leave(o)
      BY <1>a, <2>3, <3>1, <3>3, <3>4, HeadLeaves
    <3> QED
      BY <2>1, <3>5 DEF T!Next
  <2> QED
    BY <1>6, <2>2, <2>3 DEF DropFuture
<1>7. ASSUME NEW o \in Tries \cup {Watcher}, TryAcquire(o) PROVE [T!Next]_(T!vars)
  <2>1. /\ pc'[o] = "holding" /\ o \in Ops /\ permit = NoOp /\ permit' = o
        /\ configuring' = TRUE /\ UNCHANGED queue
    BY <1>a, <1>7, GotoMovesOne DEF TryAcquire, Free, Ops, Stages
  <2>2. queue = <<>>
    BY <1>a, <2>1 DEF PermitIsNeverLost
  <2>3. Line = <<>> /\ Line' = <<>>
    BY <2>1, <2>2 DEF Line
  <2>4. Server = NoOp /\ Server' = o
    BY <1>b, <1>c, <2>1, WaitersAreOps DEF Serving
  <2>5. T!Enter(o)
    BY <2>1, <2>3, <2>4 DEF T!Enter
  <2> QED
    BY <2>1, <2>5 DEF T!Next
<1>8. ASSUME WatcherRefused \/ QueuePendingReload \/ TakePendingReload PROVE [T!Next]_(T!vars)
  <2>1. /\ Watcher \in Ops /\ \A x \in Ops : x # Watcher => pc'[x] = pc[x]
        /\ \/ pc[Watcher] \in {"idle", "refused"}
           \/ pc[Watcher] = "holding" /\ pc'[Watcher] = "taken"
        /\ UNCHANGED <<queue, permit, configuring>>
    BY <1>a, <1>8, GotoMovesOne, WaitersAreOps
    DEF WatcherRefused, QueuePendingReload, TakePendingReload, Stages
  <2>2. permit # NoOp => \/ pc'[permit] = pc[permit]
                         \/ pc[permit] \in Serving /\ pc'[permit] \in Serving
    BY <1>d, <1>f, <2>1 DEF Serving
  <2> QED
    BY <1>b, <1>c, <1>e, <2>1, <2>2 DEF Line, Serving
<1>9. ASSUME NEW o \in Ops, Release(o) \/ CleanupClears(o) PROVE [T!Next]_(T!vars)
  <2>1. /\ pc[o] \in Serving /\ pc'[o] = "cleared"
        /\ configuring' = FALSE /\ UNCHANGED <<queue, permit>>
    BY <1>a, <1>9, GotoMovesOne DEF Release, CleanupClears, Stages, Serving
  <2>2. permit = o /\ permit # NoOp
    BY <1>a, <2>1, WaitersAreOps DEF PermitOwners
  <2>3. Line = queue /\ Line' = queue
    BY <2>1, <2>2 DEF Line, Serving
  <2>4. Server = o /\ Server' = NoOp
    BY <1>b, <1>c, <2>1, <2>2 DEF Serving
  <2>5. T!Finish(o)
    BY <2>1, <2>3, <2>4 DEF T!Finish
  <2> QED
    BY <2>5 DEF T!Next
<1>10. ASSUME NEW o \in Ops, DropPermit(o) PROVE [T!Next]_(T!vars)
  <2>1. /\ pc[o] = "cleared" /\ \A x \in Ops : x # o => pc'[x] = pc[x]
        /\ PassPermit /\ UNCHANGED configuring
    BY <1>a, <1>10, GotoMovesOne DEF DropPermit, Stages
  <2>2. permit = o
    BY <1>a, <2>1 DEF PermitOwners
  <2>3. permit' # NoOp => pc'[permit'] = "queued"
    BY <1>a, <2>1, PermitGoesToTheHead, WaitersAreOps
  <2>4. Line = queue /\ Line' = queue
    BY <1>a, <2>1, <2>2, <2>3, PassingKeepsTheLine DEF Line
  <2>5. Server' = Server
    BY <1>b, <1>c, <2>1, <2>2, <2>3 DEF Serving
  <2> QED
    BY <1>e, <2>1, <2>4, <2>5
<1>11. ASSUME NEW o \in Ops \ {Watcher}, DropGuard(o) PROVE [T!Next]_(T!vars)
  <2>1. /\ pc[o] = "holding" /\ pc'[o] = "dropped" /\ UNCHANGED <<queue, permit, configuring>>
    BY <1>a, <1>11, GotoMovesOne DEF DropGuard, Stages
  <2>2. permit = o
    BY <1>a, <1>11, <2>1 DEF PermitOwners, Serving
  <2> QED
    BY <1>b, <1>c, <1>e, <2>1, <2>2 DEF Line, Serving
<1>12. ASSUME NEW o \in Ops \ Reads, Hang(o) PROVE [T!Next]_(T!vars)
  <2>1. /\ pc[o] = "holding" /\ pc'[o] = "hung" /\ UNCHANGED <<queue, permit, configuring>>
    BY <1>a, <1>12, GotoMovesOne DEF Hang, Stages
  <2>2. permit = o
    BY <1>a, <1>12, <2>1 DEF PermitOwners, Serving
  <2> QED
    BY <1>b, <1>c, <1>e, <2>1, <2>2 DEF Line, Serving
<1>13. CASE UNCHANGED vars
  BY <1>e, <1>13 DEF vars, Line, Server
<1> QED
  BY <1>1, <1>2, <1>3, <1>4, <1>5, <1>6, <1>7, <1>8, <1>9, <1>10, <1>11, <1>12,
     <1>13 DEF Next

--------------------------------------------------------------------------------
\* The mechanism of status.rs keeps the promise: first come, first served, one at
\* a time, and busy exactly meanwhile, whoever is dropped, times out or returns.
THEOREM GateImplementsTurnstile == Spec => ImplementsTurnstile
<1>1. Init => T!Init
  <2> SUFFICES ASSUME Init PROVE T!Init
    OBVIOUS
  <2>1. Line = <<>> /\ ~configuring
    BY DEF Init, Line
  <2>2. Server = NoOp
    BY DEF Init, Server, Serving
  <2> QED
    BY <2>1, <2>2 DEF Init, T!Init
<1>2. GateInv /\ GateInv' /\ [Next]_vars => [T!Next]_(T!vars)
  BY StepIsPromised
<1> QED
  BY <1>1, <1>2, GateInvariance, PTL DEF Spec, ImplementsTurnstile, T!Spec
================================================================================
