---------------------------- MODULE SearchService ----------------------------
(***************************************************************************)
(* GET /api/search against a changing index: requests of handleSearch,     *)
(* each an HTTP goroutine, share the cache (LruCache) and the store (the   *)
(* atomic map IndexMap); the watcher's flush changes the store and then    *)
(* invalidates; the bulk indexer changes the store and tells nobody.       *)
(***************************************************************************)
EXTENDS Naturals, FiniteSets

CONSTANTS Key,          \* cache keys: queries whose matches fit on one page
          Path, Handler,
          MaxSize, TTL, MaxTime, NoEntry, NoValue,
          None,         \* no path, no key
          MaxHandling,  \* bound: ticks between a handler's Search and its Set
          MaxWrites,    \* bound: paths the watcher's flush changes
          MaxBulk       \* bound: paths the bulk indexer changes

(* A page of results; `at` is a ghost, when the store was read for it. *)
Page == [paths : SUBSET Path, total : 0 .. Cardinality(Path), at : 0 .. MaxTime]

ASSUME SearchAssumption == /\ IsFiniteSet(Path) /\ None \notin Key \cup Path
                           /\ MaxTime \in Nat /\ MaxHandling \in Nat /\ TTL \in Nat

VARIABLES now, entry, newer, ret,  \* the cache: see LruCache
          index,     \* index[p]: the queries the indexed content of p matches
          flushing,  \* the path flush has changed and not yet invalidated
          pc,        \* pc[h]: where handler h is
          asked,     \* asked[h]: its cacheKey
          page,      \* page[h]: results and total as far as it has them
          answer,    \* the last response sent
          crossed,   \* crossed[h]: ghost, paths of page[h] that a writer finished
                     \* with after h read the store
          excused,   \* excused[k]: ghost, paths entry[k] may be out of date about
          writes, bulks  \* counters for MaxWrites and MaxBulk

Cache == INSTANCE LruCache WITH Value <- Page, pathsOf <- [v \in Page |-> v.paths]

ASSUME SearchNames == NoEntry \notin Cache!Entry /\ NoValue \notin Page

cacheVars == <<now, entry, newer, ret>>
store     == <<index, writes, bulks>>
handler   == <<pc, asked, page, answer>>
ghost     == <<crossed, excused>>
vars      == <<now, entry, newer, ret, index, writes, bulks, flushing, pc, asked, page, answer,
               crossed, excused>>

Blank == [paths |-> {}, total |-> 0, at |-> 0]

(* The handler answers and returns: its locals are gone. *)
Answer(h, p) ==
  /\ answer' = [page |-> p, when |-> now]
  /\ pc' = [pc EXCEPT ![h] = "idle"]
  /\ page' = [page EXCEPT ![h] = Blank]
  /\ crossed' = [crossed EXCEPT ![h] = {}]
  /\ asked' = [asked EXCEPT ![h] = None]

Matches(k) == {p \in Path : k \in index[p]}

Init == /\ Cache!Init
        /\ index \in [Path -> SUBSET Key] /\ writes = 0 /\ bulks = 0
        /\ flushing = None
        /\ pc = [h \in Handler |-> "idle"]
        /\ asked = [h \in Handler |-> None]
        /\ page = [h \in Handler |-> Blank]
        /\ answer = [page |-> Blank, when |-> 0]
        /\ crossed = [h \in Handler |-> {}]
        /\ excused = [k \in Key |-> {}]

-----------------------------------------------------------------------------
(* handleSearch, one action for each call it makes.                        *)

(* A request arrives and asks the cache. *)
Hit(h, k) ==
  /\ pc[h] = "idle"
  /\ Cache!GetHit(k)
  /\ Answer(h, entry[k].value)
  /\ UNCHANGED <<store, flushing, excused>>

Miss(h, k) ==
  /\ pc[h] = "idle"
  /\ Cache!GetMiss(k) \/ Cache!GetExpired(k)
  /\ asked' = [asked EXCEPT ![h] = k]
  /\ pc' = [pc EXCEPT ![h] = "search"]
  /\ UNCHANGED <<store, flushing, page, answer, ghost>>

DbSearch(h) ==
  /\ pc[h] = "search"
  /\ page' = [page EXCEPT ![h].paths = Matches(asked[h]), ![h].at = now]
  /\ crossed' = [crossed EXCEPT ![h] = {}]
  /\ pc' = [pc EXCEPT ![h] = "count"]
  /\ UNCHANGED <<cacheVars, store, flushing, asked, answer, excused>>

(* Mutant of DbCount: it is left out. *)
DbCountSkipped(h) ==
  /\ pc[h] = "count"
  /\ pc' = [pc EXCEPT ![h] = IF page[h].paths = {} THEN "respond" ELSE "set"]
  /\ UNCHANGED <<cacheVars, store, flushing, asked, page, answer, ghost>>

(* A second statement: the index may have changed since the first. *)
DbCount(h) ==
  /\ pc[h] = "count"
  /\ page' = [page EXCEPT ![h].total = Cardinality(Matches(asked[h]))]
  /\ pc' = [pc EXCEPT ![h] = IF page[h].paths = {} THEN "respond" ELSE "set"]
  /\ UNCHANGED <<cacheVars, store, flushing, asked, answer, ghost>>

(* Search or Count fails: an error response, nothing cached or logged. *)
DbFails(h) ==
  /\ pc[h] \in {"search", "count"}
  /\ Answer(h, [Blank EXCEPT !.at = now])
  /\ UNCHANGED <<cacheVars, store, flushing, excused>>

CacheSet(h) ==
  LET k == asked[h] IN
  /\ pc[h] = "set"
  /\ Cache!SetRoom(k, page[h]) \/ Cache!SetEvict(k, page[h])
  /\ pc' = [pc EXCEPT ![h] = "respond"]
  /\ excused' = [excused EXCEPT ![k] = crossed[h]]
  /\ UNCHANGED <<store, flushing, asked, page, answer, crossed>>

(* writeJSON.  The audit log that a goroutine writes next is not modelled. *)
Respond(h) ==
  /\ pc[h] = "respond"
  /\ Answer(h, page[h])
  /\ UNCHANGED <<cacheVars, store, flushing, excused>>

-----------------------------------------------------------------------------
(* The writers of the index.                                               *)

Write(p) == \E K \in SUBSET Key : index[p] # K /\ index' = [index EXCEPT ![p] = K]

Crossing(p) ==
  {h \in Handler : pc[h] \in {"count", "set", "respond"} /\ p \in page[h].paths}

Cross(p) == crossed' = [h \in Handler |->
              IF h \in Crossing(p) THEN crossed[h] \cup {p} ELSE crossed[h]]

(* flush: database.Delete or IndexFile has committed for p; a deleted file *)
(* matches nothing.                                                        *)
FlushWrite(p) == /\ flushing = None /\ writes < MaxWrites
                 /\ Write(p)
                 /\ writes' = writes + 1
                 /\ flushing' = p
                 /\ UNCHANGED <<cacheVars, bulks, handler, ghost>>

(* Mutant of FlushInvalidate: the cache is left as it is. *)
FlushWithoutInvalidate(p) == /\ flushing = p
                             /\ flushing' = None
                             /\ Cross(p)
                             /\ UNCHANGED <<cacheVars, store, handler, excused>>

FlushInvalidate(p) == /\ flushing = p
                      /\ Cache!InvalidateByPath(p)
                      /\ flushing' = None
                      /\ Cross(p)
                      /\ UNCHANGED <<store, handler, excused>>

(* indexer.Run commits a file and tells nobody. *)
BulkWrite(p) == /\ bulks < MaxBulk
                /\ Write(p)
                /\ bulks' = bulks + 1
                /\ Cross(p)
                /\ excused' = [k \in Key |-> IF entry[k] = NoEntry THEN {} ELSE excused[k] \cup {p}]
                /\ UNCHANGED <<cacheVars, writes, flushing, handler>>

Tick == /\ Cache!Tick
        /\ \A h \in Handler : pc[h] \in {"count", "set", "respond"} => now - page[h].at < MaxHandling
        /\ UNCHANGED <<store, flushing, handler, ghost>>

Next == \/ \E h \in Handler :
             \/ \E k \in Key : Hit(h, k) \/ Miss(h, k)
             \/ DbSearch(h) \/ DbCount(h) \/ DbFails(h) \/ CacheSet(h) \/ Respond(h)
        \/ \E p \in Path : FlushWrite(p) \/ FlushInvalidate(p) \/ BulkWrite(p)
        \/ Tick

Spec == Init /\ [][Next]_vars

-----------------------------------------------------------------------------
TypeOK ==
  /\ Cache!TypeOK
  /\ index \in [Path -> SUBSET Key]
  /\ flushing \in Path \cup {None}
  /\ pc \in [Handler -> {"idle", "search", "count", "set", "respond"}]
  /\ asked \in [Handler -> Key \cup {None}]
  /\ page \in [Handler -> Page]
  /\ answer \in [page : Page, when : Nat]
  /\ crossed \in [Handler -> SUBSET Path]
  /\ excused \in [Key -> SUBSET Path]
  /\ writes \in Nat /\ bulks \in Nat

(* No answer, cached or live, tells more than TTL (30s) plus the time one  *)
(* request takes of what the index was: whatever races went on, whatever   *)
(* was not invalidated, however often the same page was hit.               *)
BoundedStaleness == answer.when - answer.page.at <= TTL + MaxHandling

(* A cached page lists no path that the index does not find for its query, *)
(* save while flush is between its two calls, and save for pages that were *)
(* read before a writer finished with the path and stored after, or that   *)
(* the bulk indexer passed by.                                             *)
NoGhostResults ==
  \A k \in Key : entry[k] # NoEntry =>
    \A p \in entry[k].value.paths : k \in index[p] \/ p = flushing \/ p \in excused[k]

(* The total of a response counts every path it lists, though Search and   *)
(* Count are two statements, save those that a writer changed in between   *)
(* or since.                                                               *)
TotalCoversPage ==
  \A h \in Handler : pc[h] \in {"set", "respond"} =>
    Cardinality(page[h].paths \ (crossed[h] \cup {flushing})) <= page[h].total
=============================================================================
