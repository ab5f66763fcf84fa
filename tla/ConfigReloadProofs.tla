--------------------------- MODULE ConfigReloadProofs ---------------------------
(***************************************************************************)
(* ReloadInv is an inductive invariant of ConfigReload, for any numbers of *)
(* jobs and reloads.  A success in the status row is true, and reloads of  *)
(* one switch never bring back an older version.                           *)
(***************************************************************************)
EXTENDS ConfigReload, TLAPS

LEMMA VersionsAreNumbers ==
  /\ Versions \subseteq Nat /\ 0 \in Versions /\ Absent \notin Versions /\ Mixed \notin Versions
  /\ \A n \in Versions : n < MaxVersion => n + 1 \in Versions
BY ReloadAssumption DEF Versions

LEMMA KindsOfOps ==
  /\ Jobs \subseteq Ops /\ Loaders \subseteq Ops /\ Watcher \in Loaders /\ Watcher \in Ops
  /\ Reloads \subseteq Loaders /\ OneReloads \subseteq Loaders /\ NoOp \notin Ops
  /\ Requests \subseteq Loaders
  /\ Jobs \cap Loaders = {} /\ Reloads \cap OneReloads = {} /\ Watcher \notin OneReloads
BY ReloadAssumption DEF Ops, Loaders, Requests

\* One operation moves.
LEMMA GotoMovesOne ==
  ASSUME TypeOK, NEW o \in Ops, NEW stage \in Stages, Goto(o, stage)
  PROVE  /\ pc' \in [Ops -> Stages]
         /\ pc'[o] = stage
         /\ \A x \in Ops : x # o => pc'[x] = pc[x]
BY DEF TypeOK, Goto

\* One operation takes something into its hands.
LEMMA KeepChangesOne ==
  ASSUME TypeOK, NEW o \in Ops, NEW c \in Versions \cup {Absent}, Keep(o, c)
  PROVE  /\ read' \in [Ops -> Versions \cup {Absent}]
         /\ read'[o] = c
         /\ \A x \in Ops : x # o => read'[x] = read[x]
BY DEF TypeOK, Keep

LEMMA EndEndsOne ==
  ASSUME TypeOK, NEW o \in Ops, End(o)
  PROVE  /\ pc' \in [Ops -> Stages] /\ pc'[o] = "idle"
         /\ read' \in [Ops -> Versions \cup {Absent}] /\ read'[o] = Absent
         /\ \A x \in Ops : x # o => pc'[x] = pc[x] /\ read'[x] = read[x]
<1>1. Goto(o, "idle") /\ Keep(o, Absent)
  BY DEF End
<1>2. "idle" \in Stages
  BY DEF Stages
<1> QED
  BY <1>1, <1>2, GotoMovesOne, KeepChangesOne

\* What the files hold, if it is a configuration, is their version.
LEMMA ContentIsAVersion ==
  ASSUME TypeOK
  PROVE  /\ Content \in Versions \cup {Absent}
         /\ Content # Absent => Content = files.version
BY VersionsAreNumbers DEF TypeOK, Content

--------------------------------------------------------------------------------
LEMMA ReloadInit == Init => ReloadInv
<1> SUFFICES ASSUME Init PROVE ReloadInv
  OBVIOUS
<1>1. files \in [kind : Kinds, version : Versions] /\ files.version = 0
  BY VersionsAreNumbers DEF Init
<1>2. Content \in Versions \cup {Absent}
  BY <1>1, VersionsAreNumbers DEF Content
<1>3. FreshRow \in Rows /\ FreshRow.result = "none"
  BY VersionsAreNumbers DEF FreshRow, Rows
<1>4. \A o \in Ops : pc[o] = "idle"
  BY DEF Init
<1>5. TypeOK
  <2>1. pc \in [Ops -> Stages] /\ read \in [Ops -> Versions \cup {Absent}]
    BY DEF Init, Stages
  <2>2. /\ row \in Rows \cup {NoRow} /\ stored \in Versions \cup {Absent}
        /\ unsent \in Nat /\ unread \in 0..ChannelSize
    BY <1>2, <1>3, ReloadAssumption DEF Init
  <2> QED
    BY <1>1, <2>1, <2>2, VersionsAreNumbers DEF Init, TypeOK
<1>6. HoldsTheTurn /\ StageFitsKind /\ ReadIsApplied
  BY <1>4, KindsOfOps DEF HoldsTheTurn, StageFitsKind, ReadIsApplied
<1>7. RowFollowsDevice
  BY <1>3 DEF Init, RowFollowsDevice
<1>8. ReadsGoForward
  BY <1>1, <1>4, KindsOfOps DEF Init, ReadsGoForward
<1> QED
  BY <1>5, <1>6, <1>7, <1>8 DEF ReloadInv

--------------------------------------------------------------------------------
LEMMA ReloadStep == ReloadInv /\ [Next]_vars => ReloadInv'
<1> SUFFICES ASSUME ReloadInv, [Next]_vars PROVE ReloadInv'
  OBVIOUS
<1>a. TypeOK /\ HoldsTheTurn /\ StageFitsKind /\ ReadIsApplied /\ RowFollowsDevice /\ ReadsGoForward
  BY DEF ReloadInv
<1>b. /\ newest \in Nat /\ files.version \in Nat /\ clock \in Nat
      /\ \A o \in Ops : read[o] \in Nat \cup {Absent} /\ pc[o] \in Stages
  BY <1>a, VersionsAreNumbers DEF TypeOK
<1>c. /\ Jobs \cap Loaders = {} /\ Watcher \notin OneReloads /\ Reloads \cap OneReloads = {}
      /\ OneReloads \subseteq Loaders /\ Loaders \subseteq Ops /\ NoOp \notin Ops
      /\ Reloads \subseteq Loaders /\ Watcher \in Loaders /\ Jobs \subseteq Ops
  BY KindsOfOps
<1>1. ASSUME NEW o \in Jobs, AcceptApply(o) PROVE ReloadInv'
  <2>1. /\ pc' \in [Ops -> Stages] /\ \A x \in Ops : x # o => pc'[x] = pc[x]
        /\ pc[o] = "idle" /\ pc'[o] = "waiting" /\ o \in Ops
        /\ read' \in [Ops -> Versions \cup {Absent}] /\ read'[o] = stored /\ stored # Absent
        /\ \A x \in Ops : x # o => read'[x] = read[x]
        /\ UNCHANGED <<turn, pending, files, unsent, unread, stored, device, row, clock, newest>>
    BY <1>a, <1>1, <1>c, GotoMovesOne, KeepChangesOne
    DEF AcceptApply, Stages, TypeOK, gate, disk
  <2>2. TypeOK'
    BY <1>a, <1>b, <1>c, <1>1, <2>1 DEF TypeOK
  <2>3. HoldsTheTurn'
    BY <1>a, <1>b, <1>c, <1>1, <2>1 DEF HoldsTheTurn
  <2>4. StageFitsKind'
    BY <1>a, <1>b, <1>c, <1>1, <2>1 DEF StageFitsKind
  <2>5. ReadIsApplied'
    BY <1>a, <1>b, <1>c, <1>1, <2>1 DEF ReadIsApplied
  <2>6. RowFollowsDevice'
    BY <1>a, <1>b, <1>c, <1>1, <2>1 DEF RowFollowsDevice
  <2>7. ReadsGoForward'
    BY <1>a, <1>b, <1>c, <1>1, <2>1 DEF ReadsGoForward
  <2> QED
    BY <2>2, <2>3, <2>4, <2>5, <2>6, <2>7 DEF ReloadInv
<1>2. ASSUME NEW o \in Jobs, TakeTurn(o) PROVE ReloadInv'
  <2>1. /\ pc' \in [Ops -> Stages] /\ \A x \in Ops : x # o => pc'[x] = pc[x]
        /\ pc[o] = "waiting" /\ pc'[o] = "applying" /\ o \in Ops /\ turn = NoOp /\ turn' = o
        /\ UNCHANGED <<read, pending, files, unsent, unread, stored, device, row, clock, newest>>
    BY <1>a, <1>2, <1>c, GotoMovesOne
    DEF TakeTurn, Stages, disk
  <2>2. TypeOK'
    BY <1>a, <1>b, <1>c, <1>2, <2>1 DEF TypeOK
  <2>3. HoldsTheTurn'
    BY <1>a, <1>b, <1>c, <1>2, <2>1 DEF HoldsTheTurn
  <2>4. StageFitsKind'
    BY <1>a, <1>b, <1>c, <1>2, <2>1 DEF StageFitsKind
  <2>5. ReadIsApplied'
    BY <1>a, <1>b, <1>c, <1>2, <2>1 DEF ReadIsApplied
  <2>6. RowFollowsDevice'
    BY <1>a, <1>b, <1>c, <1>2, <2>1 DEF RowFollowsDevice
  <2>7. ReadsGoForward'
    BY <1>a, <1>b, <1>c, <1>2, <2>1 DEF ReadsGoForward
  <2> QED
    BY <2>2, <2>3, <2>4, <2>5, <2>6, <2>7 DEF ReloadInv
<1>3. ASSUME NEW o \in Jobs, Expire(o) PROVE ReloadInv'
  <2>1. /\ pc' \in [Ops -> Stages] /\ \A x \in Ops : x # o => pc'[x] = pc[x]
        /\ pc[o] = "waiting" /\ pc'[o] = "expired" /\ o \in Ops
        /\ UNCHANGED <<read, turn, pending, files, unsent, unread, stored, device, row, clock, newest>>
    BY <1>a, <1>3, <1>c, GotoMovesOne
    DEF Expire, Stages, gate, disk
  <2>2. TypeOK'
    BY <1>a, <1>b, <1>c, <1>3, <2>1 DEF TypeOK
  <2>3. HoldsTheTurn'
    BY <1>a, <1>b, <1>c, <1>3, <2>1 DEF HoldsTheTurn
  <2>4. StageFitsKind'
    BY <1>a, <1>b, <1>c, <1>3, <2>1 DEF StageFitsKind
  <2>5. ReadIsApplied'
    BY <1>a, <1>b, <1>c, <1>3, <2>1 DEF ReadIsApplied
  <2>6. RowFollowsDevice'
    BY <1>a, <1>b, <1>c, <1>3, <2>1 DEF RowFollowsDevice
  <2>7. ReadsGoForward'
    BY <1>a, <1>b, <1>c, <1>3, <2>1 DEF ReadsGoForward
  <2> QED
    BY <2>2, <2>3, <2>4, <2>5, <2>6, <2>7 DEF ReloadInv
<1>4. ASSUME NEW o \in Reloads, BeginReload(o) PROVE ReloadInv'
  <2>1. /\ pc' \in [Ops -> Stages] /\ \A x \in Ops : x # o => pc'[x] = pc[x]
        /\ pc[o] = "idle" /\ pc'[o] = "loading" /\ o \in Ops
        /\ UNCHANGED <<read, turn, pending, files, unsent, unread, stored, device, row, clock, newest>>
    BY <1>a, <1>4, <1>c, GotoMovesOne
    DEF BeginReload, Stages, gate, disk
  <2>2. TypeOK'
    BY <1>a, <1>b, <1>c, <1>4, <2>1 DEF TypeOK
  <2>3. HoldsTheTurn'
    BY <1>a, <1>b, <1>c, <1>4, <2>1 DEF HoldsTheTurn
  <2>4. StageFitsKind'
    BY <1>a, <1>b, <1>c, <1>4, <2>1 DEF StageFitsKind
  <2>5. ReadIsApplied'
    BY <1>a, <1>b, <1>c, <1>4, <2>1 DEF ReadIsApplied
  <2>6. RowFollowsDevice'
    BY <1>a, <1>b, <1>c, <1>4, <2>1 DEF RowFollowsDevice
  <2>7. ReadsGoForward'
    BY <1>a, <1>b, <1>c, <1>4, <2>1 DEF ReadsGoForward
  <2> QED
    BY <2>2, <2>3, <2>4, <2>5, <2>6, <2>7 DEF ReloadInv
<1>5. ASSUME NEW o \in OneReloads, BeginOneReload(o) PROVE ReloadInv'
  <2>1. /\ pc' \in [Ops -> Stages] /\ \A x \in Ops : x # o => pc'[x] = pc[x]
        /\ pc[o] = "idle" /\ pc'[o] = "loading" /\ o \in Ops /\ turn = NoOp /\ turn' = o
        /\ UNCHANGED <<read, pending, files, unsent, unread, stored, device, row, clock, newest>>
    BY <1>a, <1>5, <1>c, GotoMovesOne
    DEF BeginOneReload, Free, Stages, disk
  <2>2. TypeOK'
    BY <1>a, <1>b, <1>c, <1>5, <2>1 DEF TypeOK
  <2>3. HoldsTheTurn'
    BY <1>a, <1>b, <1>c, <1>5, <2>1 DEF HoldsTheTurn
  <2>4. StageFitsKind'
    BY <1>a, <1>b, <1>c, <1>5, <2>1 DEF StageFitsKind
  <2>5. ReadIsApplied'
    BY <1>a, <1>b, <1>c, <1>5, <2>1 DEF ReadIsApplied
  <2>6. RowFollowsDevice'
    BY <1>a, <1>b, <1>c, <1>5, <2>1 DEF RowFollowsDevice
  <2>7. ReadsGoForward'
    BY <1>a, <1>b, <1>c, <1>5, <2>1 DEF ReadsGoForward
  <2> QED
    BY <2>2, <2>3, <2>4, <2>5, <2>6, <2>7 DEF ReloadInv
<1>6. ASSUME NEW o \in Requests, Disconnect(o) PROVE ReloadInv'
  <2>1. /\ pc' \in [Ops -> Stages] /\ \A x \in Ops : x # o => pc'[x] = pc[x]
        /\ pc[o] \in {"loading", "loaded", "swapped", "trying", "applying"}
        /\ pc'[o] = "idle" /\ o \in Ops
        /\ turn' = IF turn = o THEN NoOp ELSE turn
        /\ read' \in [Ops -> Versions \cup {Absent}] /\ \A x \in Ops : x # o => read'[x] = read[x]
        /\ UNCHANGED <<pending, files, unsent, unread, stored, device, row, clock, newest>>
    BY <1>a, <1>6, KindsOfOps, EndEndsOne
    DEF Disconnect, Droppable, disk
  <2>2. TypeOK'
    BY <1>a, <1>b, <1>c, <1>6, <2>1 DEF TypeOK
  <2>3. HoldsTheTurn'
    BY <1>a, <1>b, <1>c, <1>6, <2>1 DEF HoldsTheTurn
  <2>4. StageFitsKind'
    BY <1>a, <1>b, <1>c, <1>6, <2>1 DEF StageFitsKind
  <2>5. ReadIsApplied'
    BY <1>a, <1>b, <1>c, <1>6, <2>1 DEF ReadIsApplied
  <2>6. RowFollowsDevice'
    BY <1>a, <1>b, <1>c, <1>6, <2>1 DEF RowFollowsDevice
  <2>7. ReadsGoForward'
    BY <1>a, <1>b, <1>c, <1>6, <2>1 DEF ReadsGoForward
  <2> QED
    BY <2>2, <2>3, <2>4, <2>5, <2>6, <2>7 DEF ReloadInv
<1>7. ASSUME NEW o \in Reloads \cup {Watcher}, TryTurn(o) PROVE ReloadInv'
  <2>1. /\ pc' \in [Ops -> Stages] /\ \A x \in Ops : x # o => pc'[x] = pc[x]
        /\ pc[o] = "trying" /\ o \in Ops
        /\ \/ turn = NoOp /\ turn' = o /\ pc'[o] = "applying" /\ read' = read /\ read[o] # Absent
           \/ turn' = turn /\ pc'[o] = "idle"
           \/ turn' = turn /\ pc'[o] = "refused" /\ o = Watcher
        /\ read' \in [Ops -> Versions \cup {Absent}] /\ \A x \in Ops : x # o => read'[x] = read[x]
        /\ UNCHANGED <<pending, files, unsent, unread, stored, device, row, clock, newest>>
    BY <1>a, <1>7, <1>c, GotoMovesOne, EndEndsOne
    DEF TryTurn, Free, Stages, TypeOK, disk
  <2>2. TypeOK'
    BY <1>a, <1>b, <1>c, <1>7, <2>1 DEF TypeOK
  <2>3. HoldsTheTurn'
    BY <1>a, <1>b, <1>c, <1>7, <2>1 DEF HoldsTheTurn
  <2>4. StageFitsKind'
    BY <1>a, <1>b, <1>c, <1>7, <2>1 DEF StageFitsKind
  <2>5. ReadIsApplied'
    BY <1>a, <1>b, <1>c, <1>7, <2>1 DEF ReadIsApplied
  <2>6. RowFollowsDevice'
    BY <1>a, <1>b, <1>c, <1>7, <2>1 DEF RowFollowsDevice
  <2>7. ReadsGoForward'
    BY <1>a, <1>b, <1>c, <1>7, <2>1 DEF ReadsGoForward
  <2> QED
    BY <2>2, <2>3, <2>4, <2>5, <2>6, <2>7 DEF ReloadInv
<1>8. ASSUME ReceiveEvent PROVE ReloadInv'
  <2>1. /\ pc' \in [Ops -> Stages] /\ \A x \in Ops : x # Watcher => pc'[x] = pc[x]
        /\ pc[Watcher] = "idle" /\ pc'[Watcher] = "loading" /\ unread' \in 0..ChannelSize
        /\ UNCHANGED <<read, turn, pending, files, unsent, stored, device, row, clock, newest>>
    BY <1>a, <1>8, <1>c, GotoMovesOne, ReloadAssumption
    DEF ReceiveEvent, Stages, gate, TypeOK
  <2>2. TypeOK'
    BY <1>a, <1>b, <1>c, <1>8, <2>1 DEF TypeOK
  <2>3. HoldsTheTurn'
    BY <1>a, <1>b, <1>c, <1>8, <2>1 DEF HoldsTheTurn
  <2>4. StageFitsKind'
    BY <1>a, <1>b, <1>c, <1>8, <2>1 DEF StageFitsKind
  <2>5. ReadIsApplied'
    BY <1>a, <1>b, <1>c, <1>8, <2>1 DEF ReadIsApplied
  <2>6. RowFollowsDevice'
    BY <1>a, <1>b, <1>c, <1>8, <2>1 DEF RowFollowsDevice
  <2>7. ReadsGoForward'
    BY <1>a, <1>b, <1>c, <1>8, <2>1 DEF ReadsGoForward
  <2> QED
    BY <2>2, <2>3, <2>4, <2>5, <2>6, <2>7 DEF ReloadInv
<1>9. ASSUME QueuePendingReload PROVE ReloadInv'
  <2>1. /\ pc' \in [Ops -> Stages] /\ \A x \in Ops : x # Watcher => pc'[x] = pc[x]
        /\ pc[Watcher] = "refused" /\ pc'[Watcher] = "idle" /\ pending' = TRUE
        /\ read' \in [Ops -> Versions \cup {Absent}] /\ \A x \in Ops : x # Watcher => read'[x] = read[x]
        /\ UNCHANGED <<turn, files, unsent, unread, stored, device, row, clock, newest>>
    BY <1>a, <1>9, <1>c, EndEndsOne
    DEF QueuePendingReload, disk
  <2>2. TypeOK'
    BY <1>a, <1>b, <1>c, <1>9, <2>1 DEF TypeOK
  <2>3. HoldsTheTurn'
    BY <1>a, <1>b, <1>c, <1>9, <2>1 DEF HoldsTheTurn
  <2>4. StageFitsKind'
    BY <1>a, <1>b, <1>c, <1>9, <2>1 DEF StageFitsKind
  <2>5. ReadIsApplied'
    BY <1>a, <1>b, <1>c, <1>9, <2>1 DEF ReadIsApplied
  <2>6. RowFollowsDevice'
    BY <1>a, <1>b, <1>c, <1>9, <2>1 DEF RowFollowsDevice
  <2>7. ReadsGoForward'
    BY <1>a, <1>b, <1>c, <1>9, <2>1 DEF ReadsGoForward
  <2> QED
    BY <2>2, <2>3, <2>4, <2>5, <2>6, <2>7 DEF ReloadInv
<1>10. ASSUME NEW o \in Loaders, Load(o) PROVE ReloadInv'
  <2>1. /\ pc' \in [Ops -> Stages] /\ \A x \in Ops : x # o => pc'[x] = pc[x]
        /\ pc[o] = "loading" /\ o \in Ops
        /\ \/ pc'[o] = "idle" /\ turn' = IF turn = o THEN NoOp ELSE turn
           \/ /\ pc'[o] = "loaded" /\ turn' = turn
              /\ o \in OneReloads => read'[o] = files.version /\ read'[o] # Absent
        /\ read' \in [Ops -> Versions \cup {Absent}] /\ \A x \in Ops : x # o => read'[x] = read[x]
        /\ UNCHANGED <<pending, files, unsent, unread, stored, device, row, clock, newest>>
    BY <1>a, <1>10, <1>c, ContentIsAVersion, GotoMovesOne, KeepChangesOne, EndEndsOne
    DEF Load, Stages, disk
  <2>2. TypeOK'
    BY <1>a, <1>b, <1>c, <1>10, <2>1 DEF TypeOK
  <2>3. HoldsTheTurn'
    BY <1>a, <1>b, <1>c, <1>10, <2>1 DEF HoldsTheTurn
  <2>4. StageFitsKind'
    BY <1>a, <1>b, <1>c, <1>10, <2>1 DEF StageFitsKind
  <2>5. ReadIsApplied'
    BY <1>a, <1>b, <1>c, <1>10, <2>1 DEF ReadIsApplied
  <2>6. RowFollowsDevice'
    BY <1>a, <1>b, <1>c, <1>10, <2>1 DEF RowFollowsDevice
  <2>7. ReadsGoForward'
    BY <1>a, <1>b, <1>c, <1>10, <2>1 DEF ReadsGoForward
  <2> QED
    BY <2>2, <2>3, <2>4, <2>5, <2>6, <2>7 DEF ReloadInv
<1>11. ASSUME NEW o \in Loaders, Swap(o) PROVE ReloadInv'
  <2>1. /\ pc' \in [Ops -> Stages] /\ \A x \in Ops : x # o => pc'[x] = pc[x]
        /\ pc[o] = "loaded" /\ pc'[o] = "swapped" /\ o \in Ops /\ stored' \in Versions \cup {Absent}
        /\ UNCHANGED <<read, turn, pending, files, unsent, unread, device, row, clock, newest>>
    BY <1>a, <1>11, <1>c, GotoMovesOne
    DEF Swap, Stages, gate, disk, TypeOK
  <2>2. TypeOK'
    BY <1>a, <1>b, <1>c, <1>11, <2>1 DEF TypeOK
  <2>3. HoldsTheTurn'
    BY <1>a, <1>b, <1>c, <1>11, <2>1 DEF HoldsTheTurn
  <2>4. StageFitsKind'
    BY <1>a, <1>b, <1>c, <1>11, <2>1 DEF StageFitsKind
  <2>5. ReadIsApplied'
    BY <1>a, <1>b, <1>c, <1>11, <2>1 DEF ReadIsApplied
  <2>6. RowFollowsDevice'
    BY <1>a, <1>b, <1>c, <1>11, <2>1 DEF RowFollowsDevice
  <2>7. ReadsGoForward'
    BY <1>a, <1>b, <1>c, <1>11, <2>1 DEF ReadsGoForward
  <2> QED
    BY <2>2, <2>3, <2>4, <2>5, <2>6, <2>7 DEF ReloadInv
<1>12. ASSUME NEW o \in Loaders, ResetRow(o) PROVE ReloadInv'
  <2>1. /\ pc' \in [Ops -> Stages] /\ \A x \in Ops : x # o => pc'[x] = pc[x]
        /\ pc[o] = "swapped" /\ o \in Ops
        /\ pc'[o] = IF o \in OneReloads THEN "applying" ELSE "trying"
        /\ row' = row \/ (row' \in Rows /\ row'.result = "none")
        /\ UNCHANGED <<read, turn, pending, files, unsent, unread, stored, device, clock, newest>>
    BY <1>a, <1>12, <1>c, VersionsAreNumbers, GotoMovesOne
    DEF ResetRow, Stages, gate, disk, FreshRow, Rows
  <2>2. TypeOK'
    BY <1>a, <1>b, <1>c, <1>12, <2>1 DEF TypeOK
  <2>3. HoldsTheTurn'
    BY <1>a, <1>b, <1>c, <1>12, <2>1 DEF HoldsTheTurn
  <2>4. StageFitsKind'
    BY <1>a, <1>b, <1>c, <1>12, <2>1 DEF StageFitsKind, Loaders
  <2>5. ReadIsApplied'
    BY <1>a, <1>b, <1>c, <1>12, <2>1 DEF ReadIsApplied
  <2>6. RowFollowsDevice'
    BY <1>a, <1>b, <1>c, <1>12, <2>1 DEF RowFollowsDevice
  <2>7. ReadsGoForward'
    BY <1>a, <1>b, <1>c, <1>12, <2>1 DEF ReadsGoForward
  <2> QED
    BY <2>2, <2>3, <2>4, <2>5, <2>6, <2>7 DEF ReloadInv
<1>13. ASSUME NEW o \in Ops, Apply(o) PROVE ReloadInv'
  <2>1. /\ pc' \in [Ops -> Stages] /\ \A x \in Ops : x # o => pc'[x] = pc[x]
        /\ pc[o] = "applying" /\ pc'[o] = "applied" /\ turn = o /\ read[o] \in Versions
        /\ device' = read[o] /\ newest' = IF o \in OneReloads THEN read[o] ELSE newest
        /\ UNCHANGED <<read, turn, pending, files, unsent, unread, stored, row, clock>>
    BY <1>a, <1>13, GotoMovesOne
    DEF Apply, Stages, gate, disk, TypeOK, HoldsTheTurn, ReadIsApplied
  <2>2. TypeOK'
    BY <1>a, <1>b, <1>c, <1>13, <2>1 DEF TypeOK
  <2>3. HoldsTheTurn'
    BY <1>a, <1>b, <1>c, <1>13, <2>1 DEF HoldsTheTurn
  <2>4. StageFitsKind'
    BY <1>a, <1>b, <1>c, <1>13, <2>1 DEF StageFitsKind
  <2>5. ReadIsApplied'
    BY <1>a, <1>b, <1>c, <1>13, <2>1 DEF ReadIsApplied, HoldsTheTurn
  <2>6. RowFollowsDevice'
    BY <1>a, <1>b, <1>c, <1>13, <2>1 DEF RowFollowsDevice
  <2>7. ReadsGoForward'
    BY <1>a, <1>b, <1>c, <1>13, <2>1 DEF ReadsGoForward, HoldsTheTurn
  <2> QED
    BY <2>2, <2>3, <2>4, <2>5, <2>6, <2>7 DEF ReloadInv
<1>14. ASSUME NEW o \in Ops, ApplyFails(o) PROVE ReloadInv'
  <2>1. /\ pc' \in [Ops -> Stages] /\ \A x \in Ops : x # o => pc'[x] = pc[x]
        /\ pc[o] = "applying" /\ pc'[o] = "failed" /\ turn = o /\ device' \in {device, Mixed}
        /\ UNCHANGED <<read, turn, pending, files, unsent, unread, stored, row, clock, newest>>
    BY <1>a, <1>14, GotoMovesOne
    DEF ApplyFails, Stages, gate, disk, HoldsTheTurn
  <2>2. TypeOK'
    BY <1>a, <1>b, <1>c, <1>14, <2>1 DEF TypeOK
  <2>3. HoldsTheTurn'
    BY <1>a, <1>b, <1>c, <1>14, <2>1 DEF HoldsTheTurn
  <2>4. StageFitsKind'
    BY <1>a, <1>b, <1>c, <1>14, <2>1 DEF StageFitsKind
  <2>5. ReadIsApplied'
    BY <1>a, <1>b, <1>c, <1>14, <2>1 DEF ReadIsApplied, HoldsTheTurn
  <2>6. RowFollowsDevice'
    BY <1>a, <1>b, <1>c, <1>14, <2>1 DEF RowFollowsDevice
  <2>7. ReadsGoForward'
    BY <1>a, <1>b, <1>c, <1>14, <2>1 DEF ReadsGoForward
  <2> QED
    BY <2>2, <2>3, <2>4, <2>5, <2>6, <2>7 DEF ReloadInv
<1>15. ASSUME NEW o \in Ops, Record(o) PROVE ReloadInv'
  <2>1. /\ pc' \in [Ops -> Stages] /\ \A x \in Ops : x # o => pc'[x] = pc[x]
        /\ pc[o] \in {"applied", "failed", "expired"}
        /\ pc'[o] = IF pc[o] = "expired" THEN "idle" ELSE "recorded"
        /\ row' \in Rows \cup {NoRow}
        /\ row' # NoRow /\ row'.result = "success" => pc[o] = "applied" /\ row'.of = read[o]
        /\ read' \in [Ops -> Versions \cup {Absent}] /\ \A x \in Ops : x # o => read'[x] = read[x]
        /\ pc[o] # "expired" => read' = read
        /\ UNCHANGED <<turn, pending, files, unsent, unread, stored, device, clock, newest>>
    BY <1>a, <1>15, VersionsAreNumbers, GotoMovesOne, EndEndsOne
    DEF Record, Stages, gate, disk, Rows, TypeOK, ReadIsApplied
  <2>2. TypeOK'
    BY <1>a, <1>b, <1>c, <1>15, <2>1 DEF TypeOK
  <2>3. HoldsTheTurn'
    BY <1>a, <1>b, <1>c, <1>15, <2>1 DEF HoldsTheTurn
  <2>4. StageFitsKind'
    BY <1>a, <1>b, <1>c, <1>15, <2>1 DEF StageFitsKind
  <2>5. ReadIsApplied'
    BY <1>a, <1>b, <1>c, <1>15, <2>1 DEF ReadIsApplied
  <2>6. RowFollowsDevice'
    BY <1>a, <1>b, <1>c, <1>15, <2>1 DEF RowFollowsDevice, ReadIsApplied
  <2>7. ReadsGoForward'
    BY <1>a, <1>b, <1>c, <1>15, <2>1 DEF ReadsGoForward
  <2> QED
    BY <2>2, <2>3, <2>4, <2>5, <2>6, <2>7 DEF ReloadInv
<1>16. ASSUME NEW o \in Ops, EndTurn(o) PROVE ReloadInv'
  <2>1. /\ pc' \in [Ops -> Stages] /\ \A x \in Ops : x # o => pc'[x] = pc[x]
        /\ pc[o] = "recorded" /\ turn = o
        /\ \/ o = Watcher /\ pc'[o] = "applying" /\ turn' = turn /\ read' = read /\ pending' = FALSE
           \/ pc'[o] = "idle" /\ turn' = NoOp /\ pending' = pending
        /\ read' \in [Ops -> Versions \cup {Absent}] /\ \A x \in Ops : x # o => read'[x] = read[x]
        /\ UNCHANGED <<files, unsent, unread, stored, device, row, clock, newest>>
    BY <1>a, <1>16, GotoMovesOne, EndEndsOne
    DEF EndTurn, Stages, disk, TypeOK, HoldsTheTurn
  <2>2. TypeOK'
    BY <1>a, <1>b, <1>c, <1>16, <2>1 DEF TypeOK
  <2>3. HoldsTheTurn'
    BY <1>a, <1>b, <1>c, <1>16, <2>1 DEF HoldsTheTurn
  <2>4. StageFitsKind'
    BY <1>a, <1>b, <1>c, <1>16, <2>1 DEF StageFitsKind
  <2>5. ReadIsApplied'
    BY <1>a, <1>b, <1>c, <1>16, <2>1 DEF ReadIsApplied
  <2>6. RowFollowsDevice'
    BY <1>a, <1>b, <1>c, <1>16, <2>1 DEF RowFollowsDevice
  <2>7. ReadsGoForward'
    BY <1>a, <1>b, <1>c, <1>16, <2>1 DEF ReadsGoForward
  <2> QED
    BY <2>2, <2>3, <2>4, <2>5, <2>6, <2>7 DEF ReloadInv
<1>17. ASSUME WriteFiles \/ Edit \/ Delete PROVE ReloadInv'
  <2>1. /\ UNCHANGED <<pc, read, turn, pending, device, row, newest>>
        /\ unsent' \in Nat /\ unread' = unread /\ clock' \in Versions /\ clock <= clock'
        /\ files' = files \/ (files' \in [kind : Kinds, version : Versions] /\ files'.version = clock')
        /\ stored' \in Versions \cup {Absent}
    BY <1>a, <1>17, VersionsAreNumbers DEF WriteFiles, Edit, Delete, ops, gate, disk, TypeOK
  <2>2. TypeOK'
    BY <1>a, <2>1 DEF TypeOK
  <2>3. HoldsTheTurn' /\ StageFitsKind' /\ ReadIsApplied' /\ RowFollowsDevice'
    BY <1>a, <2>1 DEF HoldsTheTurn, StageFitsKind, ReadIsApplied, RowFollowsDevice
  <2>4. ReadsGoForward'
    <3>1. clock' \in Nat /\ files'.version \in Nat
      BY <1>b, <2>1, VersionsAreNumbers
    <3>2. files.version <= files'.version /\ files'.version <= clock'
      BY <1>a, <1>b, <2>1, <3>1 DEF ReadsGoForward
    <3>3. \A o \in OneReloads : pc[o] \in {"loaded", "swapped", "applying"} => read[o] \in Nat
      BY <1>a, <1>b, <1>c DEF ReadIsApplied
    <3> QED
      BY <1>a, <1>b, <1>c, <2>1, <3>1, <3>2, <3>3 DEF ReadsGoForward
  <2> QED
    BY <2>2, <2>3, <2>4 DEF ReloadInv
<1>18. ASSUME SendEvent PROVE ReloadInv'
  <2>1. /\ unsent' \in Nat /\ unread' \in 0..ChannelSize
        /\ UNCHANGED <<pc, read, turn, pending, files, stored, device, row, clock, newest>>
    BY <1>a, <1>18, ReloadAssumption DEF SendEvent, ops, gate, TypeOK
  <2>2. TypeOK'
    BY <1>a, <2>1 DEF TypeOK
  <2> QED
    BY <1>a, <2>1, <2>2 DEF ReloadInv, HoldsTheTurn, StageFitsKind, ReadIsApplied,
                            RowFollowsDevice, ReadsGoForward
<1>19. CASE UNCHANGED vars
  BY <1>a, <1>19 DEF vars, ops, gate, disk, ReloadInv, TypeOK, HoldsTheTurn, StageFitsKind,
                     ReadIsApplied, RowFollowsDevice, ReadsGoForward
<1> QED
  BY <1>1, <1>2, <1>3, <1>4, <1>5, <1>6, <1>7, <1>8, <1>9, <1>10, <1>11, <1>12, <1>13,
     <1>14, <1>15, <1>16, <1>17, <1>18, <1>19 DEF Next

--------------------------------------------------------------------------------
\* The turn, the hands of the operations, the row and the versions fit together in
\* every reachable state of reloads, applies and edits.
THEOREM ReloadInvariance == Spec => []ReloadInv
BY ReloadInit, ReloadStep, PTL DEF Spec

\* A row of GET /status that says success between turns names what is on the switch:
\* every path of apply_config_impl and apply_switch_with_pending records before it
\* gives the turn back.
THEOREM SuccessesAreTrue == Spec => []SuccessIsTrue
<1>1. ReloadInv => SuccessIsTrue
  BY KindsOfOps DEF ReloadInv, HoldsTheTurn, RowFollowsDevice, SuccessIsTrue
<1> QED
  BY <1>1, ReloadInvariance, PTL

\* reload_switch_config reads the files with the turn, so a later reload of the
\* switch never brings back an older version than an earlier one.
THEOREM ReloadsOfOneSwitchGoForward == Spec => OneReloadsGoForward
<1>1. ReloadInv /\ [Next]_vars => [\A o \in OneReloads :
         pc[o] = "applying" /\ pc'[o] = "applied" => device' >= newest]_vars
  <2> SUFFICES ASSUME ReloadInv, Next, NEW o \in OneReloads,
                      pc[o] = "applying", pc'[o] = "applied"
               PROVE  device' >= newest
    OBVIOUS
  <2>1. TypeOK /\ ReadsGoForward /\ newest \in Nat /\ o \in Ops /\ pc \in [Ops -> Stages]
    BY KindsOfOps, VersionsAreNumbers DEF ReloadInv, TypeOK
  <2>2. Apply(o)
    BY <2>1
    DEF Next, AcceptApply, TakeTurn, Expire, BeginReload, BeginOneReload, Disconnect, TryTurn,
        SendEvent, ReceiveEvent, QueuePendingReload, Load, Swap, ResetRow, Apply, ApplyFails, Record,
        EndTurn, WriteFiles, Edit, Delete, Goto, End, ops
  <2>3. device' = read[o] /\ newest <= read[o]
    BY <2>1, <2>2 DEF Apply, ReadsGoForward
  <2>4. read[o] \in Nat
    BY <2>1, VersionsAreNumbers DEF ReloadInv, ReadIsApplied, TypeOK
  <2> QED
    BY <2>1, <2>3, <2>4
<1> QED
  BY <1>1, ReloadInvariance, PTL DEF Spec, OneReloadsGoForward
================================================================================
