------------------------------- MODULE LookupCache -----------------------------
(***************************************************************************)
(* The cache of one live lookup (mac-table or port-status) of one switch:  *)
(* the requests that read it, look again when their turn has come, fetch   *)
(* and fill it, the background refresher, and the deletion of the switch.  *)
(* The two caches of ConfigStore follow the same policy; SNMP reads exist  *)
(* for the port status only.  The turn is that of SwitchGate (Turnstile).  *)
(*                                                                         *)
(* What the switch would answer is a version number that grows whenever    *)
(* the answer changes, so "older" and "newer" have a meaning.              *)
(***************************************************************************)
EXTENDS Naturals, FiniteSets

CONSTANTS
  Readers,     \* clients: one request at a time each, with the default max-age
  Fresh,       \* those who ask with ?fresh=true
  Snmp,        \* those whose lookup goes over SNMP, without a turn
  Refresher,
  Removers,    \* who removes switches: clients ("api"), a watched file ("watcher")
  MaxVersion,  \* bound: how often the switch's answer changes
  MaxGen,      \* bound: how often the cache is written
  NoOp, NoEntry

Ops == Readers \cup {Refresher}

ASSUME CacheAssumption ==
  /\ Fresh \subseteq Readers /\ Snmp \subseteq Readers
  /\ Refresher \notin Readers
  /\ Removers \subseteq {"api", "watcher"}
  /\ NoOp \notin Ops
  /\ NoEntry \notin [data : Nat, gen : Nat]
  /\ MaxVersion \in Nat /\ MaxGen \in Nat

VARIABLES
  pc,       \* how far each request and the refresher are
  turn,     \* who has the switch's turn
  truth,    \* what the switch would answer now
  live,     \* the switch is in the configuration
  pruning,  \* the switch is deleted, its entry not yet removed
  cache,    \* the entry: its data and generation_id, or NoEntry
  expired,  \* the entry is older than max-age
  nextGen,  \* the next generation_id: a UUID never comes twice
  got,      \* what each fetch brought
  seen,     \* the body and ETag each client has
  since,    \* history: what the switch would have answered at the request
  owed      \* history: whose fetch filled the cache while the reader stood in line

fetches == <<truth, got>>
entry == <<cache, expired, nextGen>>
config == <<live, pruning>>
history == <<since, owed>>
vars == <<pc, turn, fetches, config, entry, seen, history>>

(* idle      no request                                                    *)
(* asked     the switch was found in the configuration                     *)
(* waiting   in line for the turn                                          *)
(* rechecking  has the turn, has not looked at the cache again             *)
(* fetching  reads the switch                                              *)
(* fetched   has the answer and still the turn                             *)
(* landing   (requests) the turn is given back, the cache not yet written  *)
(* landed    (refresher) the cache is written, the turn not yet given back *)
Stages == {"idle", "asked", "waiting", "rechecking", "fetching", "fetched",
           "landing", "landed"}

Entry == [data : Nat, gen : Nat]

TypeOK ==
  /\ pc \in [Ops -> Stages]
  /\ turn \in Ops \cup {NoOp}
  /\ truth \in Nat
  /\ live \in BOOLEAN /\ pruning \in BOOLEAN
  /\ cache \in Entry \cup {NoEntry}
  /\ cache # NoEntry => cache.gen < nextGen
  /\ expired \in BOOLEAN
  /\ nextGen \in Nat
  /\ got \in [Ops -> Nat]
  /\ seen \in [Readers -> Entry \cup {NoEntry}]
  /\ since \in [Readers -> Nat]
  /\ owed \in [Readers -> Ops \cup {NoOp}]

Init ==
  /\ pc = [o \in Ops |-> "idle"]
  /\ turn = NoOp
  /\ truth = 0
  /\ live = TRUE /\ pruning = FALSE
  /\ cache = NoEntry /\ expired = FALSE /\ nextGen = 0
  /\ got = [o \in Ops |-> 0]
  /\ seen = [r \in Readers |-> NoEntry]
  /\ since = [r \in Readers |-> 0]
  /\ owed = [r \in Readers |-> NoOp]

Goto(o, stage) == pc' = [pc EXCEPT ![o] = stage]

\* The request is over and its locals are gone.
Finish(r) ==
  /\ Goto(r, "idle")
  /\ got' = [got EXCEPT ![r] = 0]
  /\ since' = [since EXCEPT ![r] = 0]

Usable == cache # NoEntry /\ ~expired

\* A cache hit: the entry as it is, or a 304 to a client that has it already.
Serve(r) == seen' = [seen EXCEPT ![r] = cache]

\* Mutant of Write: the next write gets the same generation.
WriteSameGeneration(o) ==
  /\ nextGen < MaxGen
  /\ cache' = [data |-> got[o], gen |-> nextGen]
  /\ expired' = FALSE
  /\ UNCHANGED nextGen

\* Every write gets a generation of its own.
Write(o) ==
  /\ nextGen < MaxGen
  /\ cache' = [data |-> got[o], gen |-> nextGen]
  /\ expired' = FALSE
  /\ nextGen' = nextGen + 1

\* The readers for whom o fills the cache while they stand in line.
OweTo(o) == owed' = [r \in Readers |-> IF pc[r] = "waiting" THEN o ELSE owed[r]]

--------------------------------------------------------------------------------
(* get_mac_table, get_port_status                                          *)

Ask(r) ==
  /\ pc[r] = "idle"
  /\ live
  /\ Goto(r, "asked")
  /\ since' = [since EXCEPT ![r] = truth]
  /\ UNCHANGED <<turn, fetches, config, entry, seen, owed>>

Hit(r) ==
  /\ pc[r] = "asked"
  /\ r \notin Fresh
  /\ Usable
  /\ Serve(r)
  /\ Finish(r)
  /\ UNCHANGED <<turn, truth, config, entry, owed>>

\* Over SNMP, when it answers: neither a turn nor a second look.
ReadSnmp(r) ==
  /\ pc[r] = "asked"
  /\ r \in Snmp
  /\ r \in Fresh \/ ~Usable
  /\ got' = [got EXCEPT ![r] = truth]
  /\ Goto(r, "landing")
  /\ UNCHANGED <<turn, truth, config, entry, seen, history>>

LineUp(r) ==
  /\ pc[r] = "asked"
  /\ r \in Fresh \/ ~Usable
  /\ Goto(r, "waiting")
  /\ UNCHANGED <<turn, fetches, config, entry, seen, history>>

TakeTurn(r) ==
  /\ pc[r] = "waiting"
  /\ turn = NoOp
  /\ turn' = r
  /\ Goto(r, "rechecking")
  /\ UNCHANGED <<fetches, config, entry, seen, history>>

\* Mutant of RecheckHit: ?fresh=true is forgotten at the second look.
RecheckHitEvenFresh(r) ==
  /\ pc[r] = "rechecking"
  /\ Usable
  /\ Serve(r)
  /\ turn' = NoOp
  /\ Finish(r)
  /\ owed' = [owed EXCEPT ![r] = NoOp]
  /\ UNCHANGED <<truth, config, entry>>

\* Whoever was ahead has filled the cache: answer and give the turn back.
RecheckHit(r) ==
  /\ pc[r] = "rechecking"
  /\ r \notin Fresh
  /\ Usable
  /\ Serve(r)
  /\ turn' = NoOp
  /\ Finish(r)
  /\ owed' = [owed EXCEPT ![r] = NoOp]
  /\ UNCHANGED <<truth, config, entry>>

RecheckMiss(r) ==
  /\ pc[r] = "rechecking"
  /\ r \in Fresh \/ ~Usable
  /\ Goto(r, "fetching")
  /\ UNCHANGED <<turn, fetches, config, entry, seen, history>>

Fetch(o) ==
  /\ pc[o] = "fetching"
  /\ got' = [got EXCEPT ![o] = truth]
  /\ owed' = [r \in Readers |-> IF r = o THEN NoOp ELSE owed[r]]
  /\ Goto(o, "fetched")
  /\ UNCHANGED <<turn, truth, config, entry, seen, since>>

\* The request gives the turn back, and only then writes the cache.
Release(r) ==
  /\ pc[r] = "fetched"
  /\ turn' = NoOp
  /\ OweTo(r)
  /\ Goto(r, "landing")
  /\ UNCHANGED <<fetches, config, entry, seen, since>>

Land(r) ==
  /\ pc[r] = "landing"
  /\ Write(r)
  /\ seen' = [seen EXCEPT ![r] = cache']
  /\ Finish(r)
  /\ UNCHANGED <<turn, truth, config, owed>>

\* The fetch fails (500), the wait is over (503), or the client is gone: the
\* guard, if there is one, gives the turn back.
Fail(r) ==
  /\ pc[r] \in {"waiting", "rechecking", "fetching", "fetched", "landing"}
  /\ turn' = IF turn = r THEN NoOp ELSE turn
  /\ owed' = [x \in Readers |-> IF x = r \/ owed[x] = r THEN NoOp ELSE owed[x]]
  /\ Finish(r)
  /\ UNCHANGED <<truth, config, entry, seen>>

--------------------------------------------------------------------------------
(* refresh_all_lookups_once                                                *)

\* The cycle starts from a copy of the configuration.
StartCycle ==
  /\ pc[Refresher] = "idle"
  /\ live
  /\ Goto(Refresher, "asked")
  /\ UNCHANGED <<turn, fetches, config, entry, seen, history>>

TryTurn ==
  /\ pc[Refresher] = "asked"
  /\ IF turn = NoOp
     THEN turn' = Refresher /\ Goto(Refresher, "fetching")
     ELSE Goto(Refresher, "idle") /\ UNCHANGED turn
  /\ UNCHANGED <<fetches, config, entry, seen, history>>

\* Mutant of RefresherLand: an entry that is there is left as it is.
RefresherLandOnce ==
  /\ pc[Refresher] = "fetched"
  /\ IF cache = NoEntry THEN Write(Refresher) ELSE UNCHANGED entry
  /\ OweTo(Refresher)
  /\ Goto(Refresher, "landed")
  /\ UNCHANGED <<turn, fetches, config, seen, since>>

RefresherLand ==
  /\ pc[Refresher] = "fetched"
  /\ Write(Refresher)
  /\ OweTo(Refresher)
  /\ Goto(Refresher, "landed")
  /\ UNCHANGED <<turn, fetches, config, seen, since>>

\* After a write, or after a fetch that failed.
EndCycle ==
  /\ pc[Refresher] \in {"fetching", "landed"}
  /\ turn' = NoOp
  /\ Goto(Refresher, "idle")
  /\ got' = [got EXCEPT ![Refresher] = 0]
  /\ UNCHANGED <<truth, config, entry, seen, history>>

--------------------------------------------------------------------------------
(* The switch, time and the configuration                                  *)

AnswerChanges ==
  /\ truth < MaxVersion
  /\ truth' = truth + 1
  /\ UNCHANGED <<pc, turn, got, config, entry, seen, history>>

\* max-age passes; nothing removes the entry.
Expire ==
  /\ Usable
  /\ expired' = TRUE
  /\ owed' = [r \in Readers |-> NoOp]
  /\ UNCHANGED <<pc, turn, fetches, config, cache, nextGen, seen, since>>

\* DELETE config, or POST /config/reload of files without the switch: first the
\* configuration (one such request at a time),
Delete ==
  /\ "api" \in Removers
  /\ live
  /\ ~pruning
  /\ live' = FALSE
  /\ pruning' = TRUE
  /\ UNCHANGED <<pc, turn, fetches, entry, seen, history>>

\* then the cache.
RemoveEntry ==
  /\ pruning
  /\ pruning' = FALSE
  /\ cache' = NoEntry
  /\ expired' = FALSE
  /\ owed' = [r \in Readers |-> NoOp]
  /\ UNCHANGED <<pc, turn, fetches, live, nextGen, seen, since>>

\* The file watcher (--watch) replaces the whole configuration and leaves the
\* caches alone.
WatcherDrops ==
  /\ "watcher" \in Removers
  /\ live
  /\ live' = FALSE
  /\ UNCHANGED <<pc, turn, fetches, pruning, entry, seen, history>>

\* PUT config with the id of a switch that is not there.
Create ==
  /\ ~live
  /\ live' = TRUE
  /\ UNCHANGED <<pc, turn, fetches, pruning, entry, seen, history>>

--------------------------------------------------------------------------------

Next ==
  \/ \E r \in Readers : \/ Ask(r) \/ Hit(r) \/ ReadSnmp(r) \/ LineUp(r) \/ TakeTurn(r)
                        \/ RecheckHit(r) \/ RecheckMiss(r) \/ Release(r) \/ Land(r)
                        \/ Fail(r)
  \/ \E o \in Ops : Fetch(o)
  \/ StartCycle \/ TryTurn \/ RefresherLand \/ EndCycle
  \/ AnswerChanges \/ Expire \/ Delete \/ RemoveEntry \/ WatcherDrops \/ Create

Spec == Init /\ [][Next]_vars

--------------------------------------------------------------------------------
(* Properties                                                              *)

\* Two responses with the same ETag carry the same snapshot, so a 304 never
\* confirms data the client does not have (generation_id, ADR 0001).
EtagNamesOneSnapshot ==
  LET responses == {seen[r] : r \in Readers} \cup {cache}
  IN  \A x, y \in responses \ {NoEntry} : x.gen = y.gen => x.data = y.data

\* ?fresh=true gets what the switch answered after the request was made: never the
\* cache, also not at the second look with the turn (get_mac_table).
FreshIsLive ==
  [][\A r \in Fresh : seen'[r] # seen[r] => seen'[r].data >= since[r]]_vars

\* A request that stood in line while the refresher filled the cache does not open
\* the console for the same data again (the refresher writes before it gives the
\* turn back).
ServedBehindRefresher ==
  \A r \in Readers \ Fresh : pc[r] = "fetching" => owed[r] # Refresher

\* What makes them inductive.
\* Who looks again, reads the switch or has just read it has the turn; the
\* refresher has it until its cycle ends.
HasTheTurn ==
  \A o \in Ops : pc[o] \in {"rechecking", "fetching", "fetched", "landed"} => turn = o

\* The refresher never stands in line, and only it writes with the turn.
StageFitsKind ==
  /\ pc[Refresher] \notin {"waiting", "rechecking", "landing"}
  /\ \A r \in Readers : pc[r] # "landed"

\* No generation is handed out before its write.
GenerationsAreOld == \A r \in Readers : seen[r] # NoEntry => seen[r].gen < nextGen

\* For those it has served, the refresher's entry is there and in date.
OwedIsThere == \A r \in Readers : owed[r] = Refresher => Usable

\* A fetch brings what the switch answers after the request was made.
FetchesAreLater ==
  \A r \in Readers : /\ since[r] <= truth
                     /\ pc[r] \in {"fetched", "landing"} => got[r] >= since[r]

CacheInv ==
  /\ TypeOK
  /\ HasTheTurn
  /\ StageFitsKind
  /\ GenerationsAreOld
  /\ EtagNamesOneSnapshot
  /\ OwedIsThere
  /\ ServedBehindRefresher
  /\ FetchesAreLater
================================================================================
