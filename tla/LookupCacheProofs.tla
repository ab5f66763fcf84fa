--------------------------- MODULE LookupCacheProofs ---------------------------
(***************************************************************************)
(* CacheInv is an inductive invariant of LookupCache, for any readers and  *)
(* any number of changes and writes.  The safety theorems follow from it.  *)
(***************************************************************************)
EXTENDS LookupCache, TLAPS

LEMMA InitEstablishes == Init => CacheInv
<1> SUFFICES ASSUME Init PROVE CacheInv
  OBVIOUS
<1>1. TypeOK
  BY DEF Init, TypeOK, Stages
<1>2. EtagNamesOneSnapshot /\ GenerationsAreOld
  BY DEF Init, EtagNamesOneSnapshot, GenerationsAreOld
<1>3. HasTheTurn /\ StageFitsKind
  BY DEF Init, HasTheTurn, StageFitsKind, Ops
<1>4. OwedIsThere /\ ServedBehindRefresher
  BY CacheAssumption DEF Init, OwedIsThere, ServedBehindRefresher, Ops
<1>5. FetchesAreLater
  BY DEF Init, FetchesAreLater, Ops
<1> QED
  BY <1>1, <1>2, <1>3, <1>4, <1>5 DEF CacheInv

(***************************************************************************)
(* The types.                                                              *)
(***************************************************************************)

\* A write makes an entry of a generation that is not used again.
LEMMA WriteTypes ==
  ASSUME TypeOK, NEW o \in Ops, Write(o)
  PROVE  /\ cache' \in Entry /\ cache' # NoEntry /\ cache'.gen = nextGen
         /\ cache'.data = got[o] /\ nextGen' = nextGen + 1 /\ expired' = FALSE
         /\ nextGen' \in Nat /\ cache'.gen < nextGen'
  BY CacheAssumption DEF TypeOK, Write, Entry

LEMMA TypesOfRequests ==
  ASSUME TypeOK, NEW r \in Readers,
         \/ Ask(r) \/ Hit(r) \/ ReadSnmp(r) \/ LineUp(r) \/ TakeTurn(r) \/ RecheckHit(r)
         \/ RecheckMiss(r) \/ Release(r) \/ Land(r) \/ Fail(r)
  PROVE  TypeOK'
<1> r \in Ops
  BY DEF Ops
<1> USE DEF TypeOK, Goto, fetches, config, entry, history
<1>1. CASE Ask(r)
  BY <1>1 DEF Ask, Stages
<1>2. CASE Hit(r)
  BY <1>2 DEF Hit, Serve, Finish, Usable, Stages
<1>3. CASE ReadSnmp(r)
  BY <1>3 DEF ReadSnmp, Stages
<1>4. CASE LineUp(r)
  BY <1>4 DEF LineUp, Stages
<1>5. CASE TakeTurn(r)
  BY <1>5 DEF TakeTurn, Stages
<1>6. CASE RecheckHit(r)
  BY <1>6 DEF RecheckHit, Serve, Finish, Usable, Stages
<1>7. CASE RecheckMiss(r)
  BY <1>7 DEF RecheckMiss, Stages
<1>8. CASE Release(r)
  BY <1>8 DEF Release, OweTo, Stages
<1>9. CASE Land(r)
  BY <1>9, WriteTypes DEF Land, Finish, Stages
<1>10. CASE Fail(r)
  BY <1>10 DEF Fail, Finish, Stages
<1> QED
  BY <1>1, <1>2, <1>3, <1>4, <1>5, <1>6, <1>7, <1>8, <1>9, <1>10

LEMMA TypesOfOthers ==
  ASSUME TypeOK,
         \/ \E o \in Ops : Fetch(o)
         \/ StartCycle \/ TryTurn \/ RefresherLand \/ EndCycle
         \/ AnswerChanges \/ Expire \/ Delete \/ RemoveEntry \/ WatcherDrops \/ Create
  PROVE  TypeOK'
<1> Refresher \in Ops
  BY DEF Ops
<1> USE DEF TypeOK, Goto, fetches, config, entry, history
<1>1. ASSUME NEW o \in Ops, Fetch(o) PROVE TypeOK'
  BY <1>1 DEF Fetch, Stages
<1>2. CASE StartCycle
  BY <1>2 DEF StartCycle, Stages
<1>3. CASE TryTurn
  BY <1>3 DEF TryTurn, Stages
<1>4. CASE RefresherLand
  BY <1>4, WriteTypes DEF RefresherLand, OweTo, Stages
<1>5. CASE EndCycle
  BY <1>5 DEF EndCycle, Stages
<1>6. CASE AnswerChanges
  BY <1>6 DEF AnswerChanges
<1>7. CASE Expire
  BY <1>7 DEF Expire
<1>8. CASE Delete \/ WatcherDrops \/ Create
  BY <1>8 DEF Delete, WatcherDrops, Create
<1>9. CASE RemoveEntry
  BY <1>9 DEF RemoveEntry
<1> QED
  BY <1>1, <1>2, <1>3, <1>4, <1>5, <1>6, <1>7, <1>8, <1>9

(***************************************************************************)
(* The turn and the stages.                                                *)
(***************************************************************************)

\* Each action of Next, with the operation that takes it.
Moves(o) ==
  \/ o \in Readers /\ (\/ Ask(o) \/ Hit(o) \/ ReadSnmp(o) \/ LineUp(o) \/ TakeTurn(o)
                       \/ RecheckHit(o) \/ RecheckMiss(o) \/ Release(o) \/ Land(o) \/ Fail(o))
  \/ Fetch(o)
  \/ o = Refresher /\ (StartCycle \/ TryTurn \/ RefresherLand \/ EndCycle)

LEMMA TurnStep ==
  ASSUME CacheInv, NEW o \in Ops, Moves(o)
  PROVE  HasTheTurn' /\ StageFitsKind'
<1>1. /\ pc \in [Ops -> Stages] /\ Refresher \notin Readers /\ Refresher \in Ops
      /\ Readers \subseteq Ops /\ NoOp \notin Ops
  BY CacheAssumption DEF CacheInv, TypeOK, Ops
<1>2. \E s \in Stages :
        /\ pc' = [pc EXCEPT ![o] = s]
        /\ s \in {"rechecking", "fetching", "fetched", "landed"} => turn' = o
        /\ o = Refresher => s \notin {"waiting", "rechecking", "landing"}
        /\ o \in Readers => s # "landed"
        /\ turn' # turn => turn \in {o, NoOp}
  <2> USE <1>1 DEF CacheInv, HasTheTurn, StageFitsKind, Stages, Goto, fetches, entry, config, history
  <2>1. CASE o \in Readers /\ (Ask(o) \/ Hit(o) \/ ReadSnmp(o) \/ LineUp(o))
    BY <2>1 DEF Ask, Hit, ReadSnmp, LineUp, Finish
  <2>2. CASE o \in Readers /\ (TakeTurn(o) \/ RecheckHit(o) \/ RecheckMiss(o))
    BY <2>2 DEF TakeTurn, RecheckHit, RecheckMiss, Finish
  <2>3. CASE o \in Readers /\ (Release(o) \/ Land(o) \/ Fail(o))
    BY <2>3 DEF Release, Land, Fail, Finish
  <2>4. CASE Fetch(o)
    BY <2>4 DEF Fetch
  <2>5. CASE o = Refresher /\ (StartCycle \/ TryTurn \/ RefresherLand \/ EndCycle)
    BY <2>5 DEF StartCycle, TryTurn, RefresherLand, EndCycle
  <2> QED
    BY <2>1, <2>2, <2>3, <2>4, <2>5 DEF Moves
<1> QED
  BY <1>1, <1>2 DEF CacheInv, HasTheTurn, StageFitsKind

(***************************************************************************)
(* Generations.                                                            *)
(***************************************************************************)

\* What is out keeps its meaning when clients get the entry that is there.
LEMMA ServeKeeps ==
  ASSUME CacheInv, NEW r \in Readers, Usable, Serve(r), UNCHANGED entry
  PROVE  GenerationsAreOld' /\ EtagNamesOneSnapshot'
<1>1. \A x \in Readers : seen'[x] = IF x = r THEN cache ELSE seen[x]
  BY DEF CacheInv, TypeOK, Serve
<1>2. cache' = cache /\ nextGen' = nextGen /\ cache # NoEntry /\ cache.gen < nextGen
  BY DEF CacheInv, TypeOK, Usable, entry
<1>3. GenerationsAreOld'
  BY <1>1, <1>2 DEF CacheInv, GenerationsAreOld
<1> QED
  BY <1>1, <1>2, <1>3 DEF CacheInv, EtagNamesOneSnapshot

\* A write has a generation nobody has.
LEMMA WriteKeeps ==
  ASSUME CacheInv, NEW o \in Ops, Write(o),
         \/ UNCHANGED seen
         \/ o \in Readers /\ seen' = [seen EXCEPT ![o] = cache']
  PROVE  GenerationsAreOld' /\ EtagNamesOneSnapshot'
<1>1. /\ cache'.gen = nextGen /\ nextGen' = nextGen + 1 /\ nextGen \in Nat
  BY WriteTypes DEF CacheInv, TypeOK
<1>2. \A x \in Readers : seen'[x] = seen[x] \/ seen'[x] = cache'
  BY DEF CacheInv, TypeOK
<1>3. \A x \in Readers : seen[x] # NoEntry => seen[x].gen < nextGen /\ seen[x].gen \in Nat
  BY DEF CacheInv, TypeOK, GenerationsAreOld, Entry
<1>4. GenerationsAreOld'
  BY <1>1, <1>2, <1>3 DEF GenerationsAreOld
<1>5. ASSUME NEW x \in ({seen'[r] : r \in Readers} \cup {cache'}) \ {NoEntry},
             NEW y \in ({seen'[r] : r \in Readers} \cup {cache'}) \ {NoEntry},
             x.gen = y.gen
      PROVE  x.data = y.data
  <2>1. /\ x = cache' \/ \E r \in Readers : x = seen[r]
        /\ y = cache' \/ \E r \in Readers : y = seen[r]
    BY <1>2
  <2>2. CASE x = cache' \/ y = cache'
    BY <2>1, <2>2, <1>1, <1>3, <1>5
  <2>3. CASE x # cache' /\ y # cache'
    BY <2>1, <2>3, <1>5 DEF CacheInv, EtagNamesOneSnapshot
  <2> QED
    BY <2>2, <2>3
<1> QED
  BY <1>4, <1>5 DEF EtagNamesOneSnapshot

\* Nothing is handed out, and the entry stays or goes.
LEMMA NothingNew ==
  ASSUME CacheInv, UNCHANGED <<seen, nextGen>>, cache' \in {cache, NoEntry}
  PROVE  GenerationsAreOld' /\ EtagNamesOneSnapshot'
  BY DEF CacheInv, GenerationsAreOld, EtagNamesOneSnapshot

LEMMA GenerationStep ==
  ASSUME CacheInv, NEW o \in Ops, Moves(o)
  PROVE  GenerationsAreOld' /\ EtagNamesOneSnapshot'
<1>1. CASE o \in Readers /\ (Hit(o) \/ RecheckHit(o))
  BY <1>1, ServeKeeps DEF Hit, RecheckHit
<1>2. CASE o \in Readers /\ Land(o)
  BY <1>2, WriteKeeps DEF Land
<1>3. CASE o = Refresher /\ RefresherLand
  BY <1>3, WriteKeeps DEF RefresherLand
<1>4. CASE \/ o \in Readers /\ (\/ Ask(o) \/ ReadSnmp(o) \/ LineUp(o) \/ TakeTurn(o)
                                \/ RecheckMiss(o) \/ Release(o) \/ Fail(o))
           \/ Fetch(o)
           \/ o = Refresher /\ (StartCycle \/ TryTurn \/ EndCycle)
  <2>1. UNCHANGED <<seen, nextGen, cache>>
    BY <1>4 DEF Ask, ReadSnmp, LineUp, TakeTurn, RecheckMiss, Release, Fail, Fetch,
                StartCycle, TryTurn, EndCycle, entry
  <2> QED
    BY <2>1, NothingNew
<1> QED
  BY <1>1, <1>2, <1>3, <1>4 DEF Moves

(***************************************************************************)
(* What the refresher owes.                                                *)
(***************************************************************************)
LEMMA OwedStep ==
  ASSUME CacheInv, NEW o \in Ops, Moves(o)
  PROVE  OwedIsThere' /\ ServedBehindRefresher'
<1> USE DEF CacheInv, TypeOK, OwedIsThere, ServedBehindRefresher, Usable, Goto, fetches,
            config, entry, history
<1>1. Refresher \notin Readers /\ Refresher \in Ops /\ Readers \subseteq Ops /\ NoOp # Refresher
  BY CacheAssumption DEF Ops
<1>2. CASE o \in Readers /\ (\/ Ask(o) \/ Hit(o) \/ ReadSnmp(o) \/ LineUp(o) \/ TakeTurn(o)
                             \/ RecheckMiss(o))
  BY <1>1, <1>2 DEF Ask, Hit, ReadSnmp, LineUp, TakeTurn, RecheckMiss, Finish
<1>3. CASE o \in Readers /\ (RecheckHit(o) \/ Fail(o))
  BY <1>1, <1>3 DEF RecheckHit, Fail, Finish
<1>4. CASE o \in Readers /\ Release(o)
  BY <1>1, <1>4 DEF Release, OweTo
<1>5. CASE o \in Readers /\ Land(o)
  <2>1. cache' # NoEntry /\ expired' = FALSE
    BY <1>5, WriteTypes DEF Land
  <2> QED
    BY <1>1, <1>5, <2>1 DEF Land, Finish
<1>6. CASE Fetch(o)
  BY <1>1, <1>6 DEF Fetch
<1>7. CASE o = Refresher /\ (StartCycle \/ TryTurn \/ EndCycle)
  BY <1>1, <1>7 DEF StartCycle, TryTurn, EndCycle
<1>8. CASE o = Refresher /\ RefresherLand
  <2>1. cache' # NoEntry /\ expired' = FALSE
    BY <1>8, WriteTypes DEF RefresherLand
  <2> QED
    BY <1>1, <1>8, <2>1 DEF RefresherLand, OweTo
<1> QED
  BY <1>2, <1>3, <1>4, <1>5, <1>6, <1>7, <1>8 DEF Moves

(***************************************************************************)
(* What a fetch brings.                                                    *)
(***************************************************************************)
LEMMA FetchStep ==
  ASSUME CacheInv, NEW o \in Ops, Moves(o)
  PROVE  FetchesAreLater'
<1> USE DEF CacheInv, TypeOK, FetchesAreLater, Goto, fetches, config, entry, history
<1>1. Refresher \notin Readers /\ Refresher \in Ops /\ Readers \subseteq Ops
  BY CacheAssumption DEF Ops
<1>2. CASE o \in Readers /\ (Ask(o) \/ ReadSnmp(o))
  BY <1>1, <1>2 DEF Ask, ReadSnmp
<1>3. CASE o \in Readers /\ (Hit(o) \/ RecheckHit(o) \/ Land(o) \/ Fail(o))
  <2>1. Finish(o) /\ truth' = truth
    BY <1>3 DEF Hit, RecheckHit, Land, Fail
  <2> QED
    BY <1>1, <2>1, <1>3 DEF Finish
<1>4. CASE o \in Readers /\ (LineUp(o) \/ TakeTurn(o) \/ RecheckMiss(o) \/ Release(o))
  BY <1>1, <1>4 DEF LineUp, TakeTurn, RecheckMiss, Release
<1>5. CASE Fetch(o)
  BY <1>1, <1>5 DEF Fetch
<1>6. CASE o = Refresher /\ (StartCycle \/ TryTurn \/ RefresherLand \/ EndCycle)
  BY <1>1, <1>6 DEF StartCycle, TryTurn, RefresherLand, EndCycle
<1> QED
  BY <1>2, <1>3, <1>4, <1>5, <1>6 DEF Moves

(***************************************************************************)
(* The invariant.                                                          *)
(***************************************************************************)

\* The switch, the clock and the configuration: no operation moves.
LEMMA AroundStep ==
  ASSUME CacheInv,
         AnswerChanges \/ Expire \/ Delete \/ RemoveEntry \/ WatcherDrops \/ Create
  PROVE  CacheInv'
<1>1. TypeOK'
  BY TypesOfOthers DEF CacheInv
<1>2. /\ UNCHANGED <<pc, turn, seen, nextGen, got, since>>
      /\ cache' \in {cache, NoEntry}
      /\ truth' >= truth
  BY DEF CacheInv, TypeOK, AnswerChanges, Expire, Delete, RemoveEntry, WatcherDrops, Create,
         fetches, config, entry, history
<1>3. GenerationsAreOld' /\ EtagNamesOneSnapshot'
  BY <1>2, NothingNew
<1>4. HasTheTurn' /\ StageFitsKind'
  BY <1>2 DEF CacheInv, HasTheTurn, StageFitsKind
<1>5. OwedIsThere' /\ ServedBehindRefresher'
  <2>1. NoOp # Refresher
    BY CacheAssumption DEF Ops
  <2>2. CASE Expire \/ RemoveEntry
    BY <2>1, <2>2 DEF Expire, RemoveEntry, OwedIsThere, ServedBehindRefresher
  <2>3. CASE AnswerChanges \/ Delete \/ WatcherDrops \/ Create
    BY <2>3 DEF AnswerChanges, Delete, WatcherDrops, Create, CacheInv, OwedIsThere,
                ServedBehindRefresher, Usable, entry, history
  <2> QED
    BY <2>2, <2>3
<1>6. FetchesAreLater'
  <2>1. truth \in Nat /\ truth' \in Nat /\ since \in [Readers -> Nat]
    BY <1>1 DEF CacheInv, TypeOK
  <2> QED
    BY <1>2, <2>1 DEF CacheInv, FetchesAreLater
<1> QED
  BY <1>1, <1>3, <1>4, <1>5, <1>6 DEF CacheInv

LEMMA InvariantStep == CacheInv /\ [Next]_vars => CacheInv'
<1> SUFFICES ASSUME CacheInv, [Next]_vars PROVE CacheInv'
  OBVIOUS
<1>1. ASSUME NEW o \in Ops, Moves(o) PROVE CacheInv'
  <2>1. TypeOK'
    BY <1>1, TypesOfRequests, TypesOfOthers DEF CacheInv, Moves
  <2> QED
    BY <1>1, <2>1, TurnStep, GenerationStep, OwedStep, FetchStep DEF CacheInv
<1>2. CASE AnswerChanges \/ Expire \/ Delete \/ RemoveEntry \/ WatcherDrops \/ Create
  BY <1>2, AroundStep
<1>3. CASE UNCHANGED vars
  BY <1>3 DEF CacheInv, TypeOK, HasTheTurn, StageFitsKind, GenerationsAreOld,
              EtagNamesOneSnapshot, OwedIsThere, ServedBehindRefresher, FetchesAreLater,
              Usable, vars, fetches, config, entry, history
<1>4. Readers \subseteq Ops /\ Refresher \in Ops
  BY DEF Ops
<1> QED
  BY <1>1, <1>2, <1>3, <1>4 DEF Next, Moves

\* The inductive invariant of the cache, its readers and its refresher.
THEOREM CacheInvariance == Spec => []CacheInv
BY InitEstablishes, InvariantStep, PTL DEF Spec

\* generation_id: two responses with one ETag carry one snapshot, whatever is
\* fetched, overwritten, deleted and fetched again.
THEOREM EtagsAreUnique == Spec => []EtagNamesOneSnapshot
<1>1. CacheInv => EtagNamesOneSnapshot
  BY DEF CacheInv
<1> QED
  BY <1>1, CacheInvariance, PTL

\* refresh_all_lookups_once writes before it gives the turn back: no request that
\* stood in line meanwhile opens the console for the same data.
THEOREM NobodyFetchesAgain == Spec => []ServedBehindRefresher
<1>1. CacheInv => ServedBehindRefresher
  BY DEF CacheInv
<1> QED
  BY <1>1, CacheInvariance, PTL

\* ?fresh=true is answered with what the switch said after the request was made.
THEOREM FreshAnswersAreLive == Spec => FreshIsLive
<1>1. ASSUME CacheInv, [Next]_vars, NEW r \in Fresh, seen'[r] # seen[r]
      PROVE  seen'[r].data >= since[r]
  <2>1. r \in Readers /\ r \in Ops /\ seen \in [Readers -> Entry \cup {NoEntry}]
    BY <1>1, CacheAssumption DEF CacheInv, TypeOK, Ops
  <2>2. \E x \in Readers : Hit(x) \/ RecheckHit(x) \/ Land(x)
    BY <1>1 DEF Next, Ask, ReadSnmp, LineUp, TakeTurn, RecheckMiss, Release, Fail, Fetch,
                StartCycle, TryTurn, RefresherLand, EndCycle, AnswerChanges, Expire, Delete,
                RemoveEntry, WatcherDrops, Create, vars
  <2>3. PICK x \in Readers : Hit(x) \/ RecheckHit(x) \/ Land(x)
    BY <2>2
  <2>4. x = r
    BY <1>1, <2>1, <2>3 DEF Hit, RecheckHit, Land, Serve
  <2>5. Land(r)
    BY <1>1, <2>3, <2>4 DEF Hit, RecheckHit
  <2>6. seen'[r] = cache' /\ cache'.data = got[r]
    BY <2>1, <2>5, <1>1, WriteTypes DEF Land, CacheInv
  <2>7. got[r] >= since[r]
    BY <1>1, <2>1, <2>5 DEF Land, CacheInv, FetchesAreLater
  <2> QED
    BY <2>6, <2>7
<1>2. CacheInv /\ [Next]_vars =>
        [\A r \in Fresh : seen'[r] # seen[r] => seen'[r].data >= since[r]]_vars
  BY <1>1
<1> QED
  BY <1>2, CacheInvariance, PTL DEF Spec, FreshIsLive
================================================================================
