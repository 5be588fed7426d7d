------------------------ MODULE SearchServiceProofs ------------------------
(***************************************************************************)
(* For any queries, paths, concurrent requests, size and expiry of the     *)
(* cache: how old an answer can be, what a cached page may wrongly list,   *)
(* and what the total of an answer covers.                                 *)
(***************************************************************************)
EXTENDS SearchService, TLAPS, FiniteSetTheorems

USE SearchAssumption, SearchNames

(* What a handler has read is no older than its time to handle, and each   *)
(* path on its page still matches unless a writer came across it.          *)
HasRead == {"count", "set", "respond"}

HandlerInv(h) ==
  /\ pc[h] \in HasRead \cup {"search"} => asked[h] \in Key
  /\ pc[h] \in HasRead =>
       /\ now <= page[h].at + MaxHandling
       /\ \A p \in page[h].paths : asked[h] \in index[p] \/ p = flushing \/ p \in crossed[h]
  /\ pc[h] \in {"set", "respond"} =>
       Cardinality(page[h].paths \ (crossed[h] \cup {flushing})) <= page[h].total

(* An entry expires in time, hits or not. *)
EntriesExpire == \A k \in Key : entry[k] # NoEntry =>
                   entry[k].exp <= entry[k].value.at + MaxHandling + TTL

IndInv == /\ TypeOK /\ now <= MaxTime
          /\ \A h \in Handler : HandlerInv(h)
          /\ EntriesExpire /\ NoGhostResults /\ BoundedStaleness

-----------------------------------------------------------------------------
LEMMA MatchesCount ==
  ASSUME NEW k, NEW S \in SUBSET Matches(k)
  PROVE  /\ Cardinality(Matches(k)) \in 0 .. Cardinality(Path)
         /\ Cardinality(S) <= Cardinality(Matches(k))
  <1>1. Matches(k) \subseteq Path
    BY DEF Matches
  <1>2. IsFiniteSet(Matches(k)) /\ Cardinality(Matches(k)) <= Cardinality(Path)
    BY <1>1, FS_Subset
  <1>3. Cardinality(Matches(k)) \in Nat /\ Cardinality(Path) \in Nat
    BY <1>2, FS_CardinalityType
  <1>4. Cardinality(S) <= Cardinality(Matches(k))
    BY <1>2, FS_Subset
  <1>5. QED BY <1>2, <1>3, <1>4

LEMMA BlankIsPage == Blank \in Page /\ \A t \in 0 .. MaxTime : [Blank EXCEPT !.at = t] \in Page
  <1>1. Cardinality(Path) \in Nat
    BY FS_CardinalityType
  <1>2. QED BY <1>1 DEF Blank, Page

(* A page whose handler goes on while writers come across it. *)
LEMMA FewerToCover ==
  ASSUME NEW paths \in SUBSET Path, NEW A, NEW B, paths \ B \subseteq paths \ A,
         NEW n \in Nat, Cardinality(paths \ A) <= n
  PROVE  Cardinality(paths \ B) <= n
  <1>1. IsFiniteSet(paths)
    BY FS_Subset
  <1>2. IsFiniteSet(paths \ A)
    BY <1>1, FS_Subset
  <1>3. IsFiniteSet(paths \ B) /\ Cardinality(paths \ B) <= Cardinality(paths \ A)
    BY <1>2, FS_Subset
  <1>4. Cardinality(paths \ A) \in Nat /\ Cardinality(paths \ B) \in Nat
    BY <1>2, <1>3, FS_CardinalityType
  <1>5. QED BY <1>3, <1>4

LEMMA InitInv == Init => IndInv
  <1> SUFFICES ASSUME Init PROVE IndInv
    OBVIOUS
  <1>1. Blank \in Page
    BY BlankIsPage
  <1>2. TypeOK
    BY <1>1 DEF Init, Cache!Init, TypeOK, Cache!TypeOK
  <1>3. \A h \in Handler : HandlerInv(h)
    BY DEF Init, HandlerInv, HasRead
  <1>4. EntriesExpire /\ NoGhostResults /\ BoundedStaleness /\ now <= MaxTime
    BY DEF Init, Cache!Init, EntriesExpire, NoGhostResults, BoundedStaleness, Blank
  <1>5. QED BY <1>2, <1>3, <1>4 DEF IndInv

-----------------------------------------------------------------------------
(* The cache.                                                              *)

LEMMA DropKeeps ==
  ASSUME IndInv, NEW K \in SUBSET Key, Cache!Drop(K)
  PROVE  /\ entry' \in [Key -> Cache!Entry \cup {NoEntry}] /\ newer' \subseteq Key \X Key
         /\ \A k \in Key : entry'[k] = IF k \in K THEN NoEntry ELSE entry[k]
  BY DEF IndInv, TypeOK, Cache!TypeOK, Cache!Drop, Cache!Without

LEMMA TouchedType ==
  ASSUME NEW order \in SUBSET (Key \X Key), NEW k \in Key, NEW S \in SUBSET Key
  PROVE  Cache!Touched(order, k, S) \subseteq Key \X Key
  BY DEF Cache!Touched, Cache!Without

(* Entries that stay are as they were. *)
LEMMA CacheKept ==
  ASSUME IndInv, \A k \in Key : entry'[k] # NoEntry => entry'[k] = entry[k],
         index' = index, flushing' = flushing, excused' = excused
  PROVE  EntriesExpire' /\ NoGhostResults'
  BY DEF IndInv, EntriesExpire, NoGhostResults

(* A step of handler h leaves the others where they are. *)
LEMMA OthersKept ==
  ASSUME IndInv, NEW h \in Handler, NEW g \in Handler \ {h},
         pc'[g] = pc[g], asked'[g] = asked[g], page'[g] = page[g], crossed'[g] = crossed[g],
         now' = now, index' = index, flushing' = flushing
  PROVE  HandlerInv(g)'
  BY DEF IndInv, HandlerInv

-----------------------------------------------------------------------------
(* Answering.                                                              *)
LEMMA AnswerKeeps ==
  ASSUME IndInv, NEW h \in Handler, NEW v \in Page, Answer(h, v),
         now - v.at <= TTL + MaxHandling,
         now' = now, index' = index, flushing' = flushing
  PROVE  /\ BoundedStaleness' /\ \A g \in Handler : HandlerInv(g)'
         /\ pc' \in [Handler -> {"idle", "search", "count", "set", "respond"}]
         /\ asked' \in [Handler -> Key \cup {None}]
         /\ page' \in [Handler -> Page]
         /\ answer' \in [page : Page, when : Nat]
         /\ crossed' \in [Handler -> SUBSET Path]
  <1> USE DEF Answer
  <1>1. Blank \in Page /\ now \in Nat
    BY BlankIsPage DEF IndInv, TypeOK, Cache!TypeOK
  <1>2. /\ pc' \in [Handler -> {"idle", "search", "count", "set", "respond"}]
        /\ asked' \in [Handler -> Key \cup {None}]
        /\ page' \in [Handler -> Page]
        /\ answer' \in [page : Page, when : Nat]
        /\ crossed' \in [Handler -> SUBSET Path]
    BY <1>1 DEF IndInv, TypeOK
  <1>3. BoundedStaleness'
    BY DEF BoundedStaleness
  <1>4. HandlerInv(h)'
    <2>1. pc'[h] = "idle"
      BY DEF IndInv, TypeOK
    <2>2. QED BY <2>1 DEF HandlerInv, HasRead
  <1>5. ASSUME NEW g \in Handler \ {h} PROVE HandlerInv(g)'
    <2>1. /\ pc'[g] = pc[g] /\ asked'[g] = asked[g] /\ page'[g] = page[g]
          /\ crossed'[g] = crossed[g]
      BY DEF IndInv, TypeOK
    <2>2. QED BY <2>1, OthersKept
  <1>6. QED BY <1>2, <1>3, <1>4, <1>5

LEMMA HitKeeps ==
  ASSUME IndInv, NEW h \in Handler, NEW k \in Key, Hit(h, k)
  PROVE  IndInv'
  <1> USE DEF Hit
  <1>1. /\ entry[k] # NoEntry /\ now <= entry[k].exp /\ entry[k] \in Cache!Entry
        /\ entry' = entry /\ now' = now /\ index' = index /\ flushing' = flushing
        /\ excused' = excused /\ ret' = entry[k].value
        /\ newer' = Cache!Touched(newer, k, Cache!Present(entry))
    BY DEF IndInv, TypeOK, Cache!TypeOK, Cache!GetHit, Cache!Fresh, store
  <1> DEFINE v == entry[k].value
  <1>2. v \in Page /\ entry[k].exp \in Nat /\ v.at \in Nat
    BY <1>1 DEF Cache!Entry, Page
  <1>3. now - v.at <= TTL + MaxHandling
    <2>1. entry[k].exp <= v.at + MaxHandling + TTL /\ now \in Nat
      BY <1>1 DEF IndInv, EntriesExpire, TypeOK, Cache!TypeOK
    <2>2. QED BY <1>1, <1>2, <2>1
  <1>4. Answer(h, v)
    OBVIOUS
  <1>5. newer' \subseteq Key \X Key
    BY <1>1, TouchedType DEF IndInv, TypeOK, Cache!TypeOK, Cache!Present
  <1>6. EntriesExpire' /\ NoGhostResults'
    BY <1>1, CacheKept
  <1> HIDE DEF v
  <1>7. /\ BoundedStaleness' /\ \A g \in Handler : HandlerInv(g)'
        /\ pc' \in [Handler -> {"idle", "search", "count", "set", "respond"}]
        /\ asked' \in [Handler -> Key \cup {None}]
        /\ page' \in [Handler -> Page]
        /\ answer' \in [page : Page, when : Nat]
        /\ crossed' \in [Handler -> SUBSET Path]
    BY <1>1, <1>2, <1>3, <1>4, AnswerKeeps
  <1>8. TypeOK'
    BY <1>1, <1>2, <1>5, <1>7 DEF v, IndInv, TypeOK, Cache!TypeOK, store
  <1>9. QED BY <1>1, <1>6, <1>7, <1>8 DEF IndInv

LEMMA FailsKeeps ==
  ASSUME IndInv, NEW h \in Handler, DbFails(h)
  PROVE  IndInv'
  <1> USE DEF DbFails
  <1> DEFINE v == [Blank EXCEPT !.at = now]
  <1>1. v \in Page /\ v.at = now /\ now \in Nat
    BY BlankIsPage DEF IndInv, TypeOK, Cache!TypeOK, Blank
  <1>2. Answer(h, v)
    OBVIOUS
  <1>3. UNCHANGED <<cacheVars, store, flushing, excused>>
    OBVIOUS
  <1> HIDE DEF v, DbFails
  <1>4. /\ BoundedStaleness' /\ \A g \in Handler : HandlerInv(g)'
        /\ pc' \in [Handler -> {"idle", "search", "count", "set", "respond"}]
        /\ asked' \in [Handler -> Key \cup {None}]
        /\ page' \in [Handler -> Page]
        /\ answer' \in [page : Page, when : Nat]
        /\ crossed' \in [Handler -> SUBSET Path]
    <2>1. now - v.at <= TTL + MaxHandling
      BY <1>1
    <2>2. QED BY <1>1, <1>2, <1>3, <2>1, AnswerKeeps DEF cacheVars, store
  <1>5. EntriesExpire' /\ NoGhostResults'
    BY <1>3, CacheKept DEF cacheVars, store
  <1>6. TypeOK'
    BY <1>3, <1>4 DEF IndInv, TypeOK, Cache!TypeOK, cacheVars, store
  <1>7. QED BY <1>3, <1>4, <1>5, <1>6 DEF IndInv, cacheVars

LEMMA RespondKeeps ==
  ASSUME IndInv, NEW h \in Handler, Respond(h)
  PROVE  IndInv'
  <1> USE DEF Respond
  <1> DEFINE v == page[h]
  <1>1. v \in Page /\ now \in Nat /\ v.at \in Nat
    BY DEF IndInv, TypeOK, Cache!TypeOK, Page
  <1>2. Answer(h, v)
    OBVIOUS
  <1>3. UNCHANGED <<cacheVars, store, flushing, excused>>
    OBVIOUS
  <1>4. now <= v.at + MaxHandling
    BY DEF IndInv, HandlerInv, HasRead
  <1> HIDE DEF v, Respond
  <1>5. /\ BoundedStaleness' /\ \A g \in Handler : HandlerInv(g)'
        /\ pc' \in [Handler -> {"idle", "search", "count", "set", "respond"}]
        /\ asked' \in [Handler -> Key \cup {None}]
        /\ page' \in [Handler -> Page]
        /\ answer' \in [page : Page, when : Nat]
        /\ crossed' \in [Handler -> SUBSET Path]
    <2>1. now - v.at <= TTL + MaxHandling
      BY <1>1, <1>4
    <2>2. QED BY <1>1, <1>2, <1>3, <2>1, AnswerKeeps DEF cacheVars, store
  <1>6. EntriesExpire' /\ NoGhostResults'
    BY <1>3, CacheKept DEF cacheVars, store
  <1>7. TypeOK'
    BY <1>3, <1>5 DEF IndInv, TypeOK, Cache!TypeOK, cacheVars, store
  <1>8. QED BY <1>3, <1>5, <1>6, <1>7 DEF IndInv, cacheVars

-----------------------------------------------------------------------------
(* Asking the cache and the store.                                         *)
LEMMA MissKeeps ==
  ASSUME IndInv, NEW h \in Handler, NEW k \in Key, Miss(h, k)
  PROVE  IndInv'
  <1> USE DEF Miss, store, ghost
  <1>1. /\ now' = now /\ ret' = NoValue
        /\ entry' \in [Key -> Cache!Entry \cup {NoEntry}] /\ newer' \subseteq Key \X Key
        /\ \A j \in Key : entry'[j] # NoEntry => entry'[j] = entry[j]
    <2>1. CASE Cache!GetMiss(k)
      BY <2>1 DEF Cache!GetMiss, IndInv, TypeOK, Cache!TypeOK
    <2>2. CASE Cache!GetExpired(k)
      <3>1. Cache!Drop({k}) /\ now' = now /\ ret' = NoValue
        BY <2>2 DEF Cache!GetExpired
      <3>2. QED BY <3>1, DropKeeps
    <2>3. QED BY <2>1, <2>2
  <1>2. TypeOK'
    BY <1>1 DEF IndInv, TypeOK, Cache!TypeOK
  <1>3. EntriesExpire' /\ NoGhostResults'
    BY <1>1, CacheKept
  <1>4. HandlerInv(h)'
    <2>1. pc'[h] = "search" /\ asked'[h] = k
      BY DEF IndInv, TypeOK
    <2>2. QED BY <2>1 DEF HandlerInv, HasRead
  <1>5. ASSUME NEW g \in Handler \ {h} PROVE HandlerInv(g)'
    <2>1. /\ pc'[g] = pc[g] /\ asked'[g] = asked[g] /\ page'[g] = page[g]
          /\ crossed'[g] = crossed[g]
      BY DEF IndInv, TypeOK
    <2>2. QED BY <1>1, <2>1, OthersKept
  <1>6. BoundedStaleness'
    BY DEF IndInv, BoundedStaleness
  <1>7. QED BY <1>1, <1>2, <1>3, <1>4, <1>5, <1>6 DEF IndInv

LEMMA SearchKeeps ==
  ASSUME IndInv, NEW h \in Handler, DbSearch(h)
  PROVE  IndInv'
  <1> USE DEF DbSearch, store, cacheVars
  <1> DEFINE new == [page[h] EXCEPT !.paths = Matches(asked[h]), !.at = now]
  <1>1. /\ page[h] \in Page /\ asked[h] \in Key /\ now \in 0 .. MaxTime
        /\ Matches(asked[h]) \in SUBSET Path
    <2>1. HandlerInv(h) /\ now <= MaxTime /\ TypeOK
      BY DEF IndInv
    <2>2. page[h] \in Page /\ now \in Nat
      BY <2>1 DEF TypeOK, Cache!TypeOK
    <2>3. asked[h] \in Key
      BY <2>1 DEF HandlerInv
    <2>4. QED BY <2>1, <2>2, <2>3 DEF Matches
  <1>2. /\ pc'[h] = "count" /\ page'[h] = new /\ asked' = asked /\ crossed'[h] = {}
    BY DEF IndInv, TypeOK
  <1>3. new \in Page /\ new.paths = Matches(asked[h]) /\ new.at = now
    BY <1>1 DEF Page
  <1>4. TypeOK'
    <2>1. page' = [page EXCEPT ![h] = new]
      BY <1>1 DEF IndInv, TypeOK, Page
    <2>2. page' \in [Handler -> Page]
      BY <1>3, <2>1 DEF IndInv, TypeOK
    <2>3. QED BY <2>2 DEF IndInv, TypeOK, Cache!TypeOK
  <1>5. HandlerInv(h)'
    <2>1. \A p \in new.paths : asked[h] \in index[p]
      BY <1>3 DEF Matches
    <2> HIDE DEF new
    <2>2. now' <= page'[h].at + MaxHandling
      BY <1>1, <1>2, <1>3
    <2>3. \A p \in page'[h].paths : asked'[h] \in index'[p]
      BY <1>2, <2>1
    <2>4. QED BY <1>1, <1>2, <2>2, <2>3 DEF HandlerInv, HasRead
  <1>6. ASSUME NEW g \in Handler \ {h} PROVE HandlerInv(g)'
    <2>1. /\ pc'[g] = pc[g] /\ asked'[g] = asked[g] /\ page'[g] = page[g]
          /\ crossed'[g] = crossed[g]
      BY DEF IndInv, TypeOK
    <2>2. QED BY <2>1, OthersKept
  <1>7. EntriesExpire' /\ NoGhostResults' /\ BoundedStaleness'
    BY CacheKept DEF IndInv, BoundedStaleness
  <1>8. QED BY <1>4, <1>5, <1>6, <1>7 DEF IndInv

LEMMA CountKeeps ==
  ASSUME IndInv, NEW h \in Handler, DbCount(h)
  PROVE  IndInv'
  <1> USE DEF DbCount, store, cacheVars, ghost
  <1> DEFINE n == Cardinality(Matches(asked[h]))
             new == [page[h] EXCEPT !.total = n]
  <1>1. page[h] \in Page /\ asked[h] \in Key
    BY DEF IndInv, TypeOK, HandlerInv, HasRead
  <1>2. n \in 0 .. Cardinality(Path)
    BY MatchesCount
  <1>3. /\ page'[h] = new /\ asked' = asked /\ crossed' = crossed
        /\ pc'[h] \in {"set", "respond"}
    BY DEF IndInv, TypeOK
  <1>4. new \in Page /\ new.paths = page[h].paths /\ new.at = page[h].at /\ new.total = n
    BY <1>1, <1>2 DEF Page
  <1>5. TypeOK'
    <2>1. page' = [page EXCEPT ![h] = new]
      BY <1>1 DEF IndInv, TypeOK, Page
    <2>2. page' \in [Handler -> Page]
      BY <1>4, <2>1 DEF IndInv, TypeOK
    <2>3. QED BY <2>2 DEF IndInv, TypeOK, Cache!TypeOK
  <1>6. HandlerInv(h)'
    <2> DEFINE S == page[h].paths \ (crossed[h] \cup {flushing})
    <2>1. S \subseteq Matches(asked[h])
      <3>1. page[h].paths \subseteq Path
        BY <1>1 DEF Page
      <3>2. QED BY <3>1 DEF IndInv, HandlerInv, HasRead, Matches
    <2>2. Cardinality(S) <= n
      BY <2>1, MatchesCount
    <2>3. /\ now <= page[h].at + MaxHandling
          /\ \A p \in page[h].paths : asked[h] \in index[p] \/ p = flushing \/ p \in crossed[h]
      BY DEF IndInv, HandlerInv, HasRead
    <2> HIDE DEF new, n
    <2>4. QED BY <1>1, <1>3, <1>4, <2>2, <2>3 DEF HandlerInv, HasRead
  <1>7. ASSUME NEW g \in Handler \ {h} PROVE HandlerInv(g)'
    <2>1. /\ pc'[g] = pc[g] /\ asked'[g] = asked[g] /\ page'[g] = page[g]
          /\ crossed'[g] = crossed[g]
      BY DEF IndInv, TypeOK
    <2>2. QED BY <2>1, OthersKept
  <1>8. EntriesExpire' /\ NoGhostResults' /\ BoundedStaleness'
    BY CacheKept DEF IndInv, BoundedStaleness
  <1>9. QED BY <1>5, <1>6, <1>7, <1>8 DEF IndInv

LEMMA SetKeeps ==
  ASSUME IndInv, NEW h \in Handler, CacheSet(h)
  PROVE  IndInv'
  <1> USE DEF CacheSet, store
  <1> DEFINE k == asked[h]
             v == page[h]
             new == Cache!New(v)
  <1>1. /\ v \in Page /\ k \in Key /\ now \in Nat /\ v.at \in Nat
        /\ now <= v.at + MaxHandling
        /\ \A p \in v.paths : k \in index[p] \/ p = flushing \/ p \in crossed[h]
    <2>1. HandlerInv(h) /\ TypeOK /\ pc[h] = "set"
      BY DEF IndInv
    <2>2. v \in Page /\ v.at \in Nat /\ now \in Nat
      BY <2>1 DEF TypeOK, Cache!TypeOK, Page
    <2>3. QED BY <2>1, <2>2 DEF HandlerInv, HasRead
  <1>2. new \in Cache!Entry /\ new.value = v /\ new.exp = now + TTL
    BY <1>1 DEF Cache!New, Cache!Entry
  <1>3. /\ now' = now /\ ret' = NoValue
        /\ entry' \in [Key -> Cache!Entry \cup {NoEntry}] /\ newer' \subseteq Key \X Key
        /\ entry'[k] = new
        /\ \A j \in Key \ {k} : entry'[j] # NoEntry => entry'[j] = entry[j]
    <2> USE DEF IndInv, TypeOK, Cache!TypeOK
    <2> HIDE DEF new
    <2>1. CASE Cache!SetRoom(k, v)
      <3>1. newer' \subseteq Key \X Key
        BY <1>1, <2>1, TouchedType DEF Cache!SetRoom, Cache!Present
      <3>2. entry' = [entry EXCEPT ![k] = new] /\ now' = now /\ ret' = NoValue
        BY <2>1 DEF Cache!SetRoom, new
      <3>3. QED BY <1>1, <1>2, <3>1, <3>2
    <2>2. CASE Cache!SetEvict(k, v)
      <3>1. PICK old \in Cache!Present(entry) :
              /\ entry' = [entry EXCEPT ![k] = new, ![old] = NoEntry]
              /\ newer' = Cache!Touched(Cache!Without(newer, {old}), k, Cache!Present(entry) \ {old})
        BY <2>2 DEF Cache!SetEvict, new
      <3>2. old \in Key /\ old # k /\ now' = now /\ ret' = NoValue
        BY <2>2 DEF Cache!SetEvict, Cache!Present
      <3>3. newer' \subseteq Key \X Key
        BY <1>1, <3>1, TouchedType DEF Cache!Without, Cache!Present
      <3>4. QED BY <1>1, <1>2, <3>1, <3>2, <3>3
    <2>3. QED BY <2>1, <2>2
  <1> HIDE DEF new
  <1>4. TypeOK'
    BY <1>1, <1>3 DEF IndInv, TypeOK, Cache!TypeOK
  <1>5. EntriesExpire'
    BY <1>1, <1>2, <1>3 DEF IndInv, EntriesExpire
  <1>6. NoGhostResults'
    <2>1. /\ index' = index /\ flushing' = flushing /\ excused'[k] = crossed[h]
          /\ \A j \in Key \ {k} : excused'[j] = excused[j]
      BY <1>1 DEF IndInv, TypeOK
    <2>2. QED BY <1>1, <1>2, <1>3, <2>1 DEF IndInv, NoGhostResults
  <1>7. ASSUME NEW g \in Handler PROVE HandlerInv(g)'
    <2>1. pc' = [pc EXCEPT ![h] = "respond"] /\ pc[h] = "set"
      OBVIOUS
    <2>2. UNCHANGED <<now, index, flushing, asked, page, crossed>>
      BY <1>3
    <2>3. HandlerInv(g) /\ pc \in [Handler -> {"idle", "search", "count", "set", "respond"}]
      BY DEF IndInv, TypeOK
    <2> HIDE DEF CacheSet, k, v
    <2>4. CASE g = h
      <3>1. pc[g] = "set" /\ pc'[g] = "respond"
        BY <2>1, <2>3, <2>4
      <3>2. QED BY <2>2, <2>3, <3>1 DEF HandlerInv, HasRead
    <2>5. CASE g # h
      <3>1. pc'[g] = pc[g]
        BY <2>1, <2>3, <2>5
      <3>2. QED BY <2>2, <2>3, <3>1 DEF HandlerInv
    <2>6. QED BY <2>4, <2>5
  <1>8. BoundedStaleness'
    BY DEF IndInv, BoundedStaleness
  <1>9. QED BY <1>3, <1>4, <1>5, <1>6, <1>7, <1>8 DEF IndInv

-----------------------------------------------------------------------------
(* The writers.                                                            *)

(* One path changes, and flush, if not under way, is now between its calls *)
(* for it.                                                                 *)
LEMMA WriteType ==
  ASSUME IndInv, NEW p \in Path, Write(p)
  PROVE  index' \in [Path -> SUBSET Key] /\ \A q \in Path \ {p} : index'[q] = index[q]
  BY DEF IndInv, TypeOK, Write

LEMMA FlushWriteKeeps ==
  ASSUME IndInv, NEW p \in Path, FlushWrite(p)
  PROVE  IndInv'
  <1> USE DEF FlushWrite, handler, ghost, cacheVars
  <1>1. /\ index' \in [Path -> SUBSET Key] /\ \A q \in Path \ {p} : index'[q] = index[q]
        /\ flushing = None /\ flushing' = p
    BY WriteType
  <1> HIDE DEF FlushWrite
  <1>2. UNCHANGED <<now, entry, newer, ret, pc, asked, page, answer, crossed, excused, bulks>>
    BY DEF FlushWrite
  <1>3. TypeOK'
    <2>1. writes' \in Nat
      BY DEF FlushWrite, IndInv, TypeOK
    <2>2. QED BY <1>1, <1>2, <2>1 DEF IndInv, TypeOK, Cache!TypeOK
  <1>4. EntriesExpire' /\ BoundedStaleness'
    BY <1>2 DEF IndInv, EntriesExpire, BoundedStaleness
  <1>5. NoGhostResults'
    <2> SUFFICES ASSUME NEW k \in Key, entry[k] # NoEntry, NEW q \in entry[k].value.paths
                 PROVE  k \in index'[q] \/ q = p \/ q \in excused[k]
      BY <1>1, <1>2 DEF NoGhostResults
    <2>1. q \in Path
      BY DEF IndInv, TypeOK, Cache!TypeOK, Cache!Entry, Page
    <2>2. k \in index[q] \/ q = None \/ q \in excused[k]
      BY <1>1 DEF IndInv, NoGhostResults
    <2>3. QED BY <1>1, <2>1, <2>2
  <1>6. ASSUME NEW h \in Handler PROVE HandlerInv(h)'
    <2>1. HandlerInv(h) /\ page[h] \in Page
      BY DEF IndInv, TypeOK
    <2>2. page[h].paths \in SUBSET Path /\ page[h].total \in Nat
      BY <2>1, FS_CardinalityType DEF Page
    <2>3. ASSUME pc[h] \in HasRead, NEW q \in page[h].paths
          PROVE  asked[h] \in index'[q] \/ q = p \/ q \in crossed[h]
      <3>1. asked[h] \in index[q] \/ q = None \/ q \in crossed[h]
        BY <1>1, <2>1, <2>3 DEF HandlerInv
      <3>2. QED BY <1>1, <2>2, <3>1
    <2>4. ASSUME pc[h] \in {"set", "respond"}
          PROVE  Cardinality(page[h].paths \ (crossed[h] \cup {p})) <= page[h].total
      <3>1. Cardinality(page[h].paths \ (crossed[h] \cup {None})) <= page[h].total
        BY <1>1, <2>1, <2>4 DEF HandlerInv
      <3>2. page[h].paths \ (crossed[h] \cup {p}) \subseteq page[h].paths \ (crossed[h] \cup {None})
        BY <2>2
      <3>3. QED BY <2>2, <3>1, <3>2, FewerToCover
    <2>5. QED BY <1>1, <1>2, <2>1, <2>3, <2>4 DEF HandlerInv
  <1>7. QED BY <1>2, <1>3, <1>4, <1>5, <1>6 DEF IndInv

(* What Cross does for a handler with p on its page. *)
LEMMA CrossType ==
  ASSUME IndInv, NEW p \in Path, Cross(p)
  PROVE  /\ crossed' \in [Handler -> SUBSET Path]
         /\ \A h \in Handler :
              /\ crossed[h] \subseteq crossed'[h]
              /\ pc[h] \in HasRead /\ p \in page[h].paths => p \in crossed'[h]
  BY DEF IndInv, TypeOK, Cross, Crossing, HasRead

LEMMA CrossKeeps ==
  ASSUME IndInv, NEW p \in Path, Cross(p),
         UNCHANGED <<now, pc, asked, page>>,
         \A q \in Path \ {p} : index'[q] = index[q],
         flushing' = flushing \/ flushing = p,
         NEW h \in Handler
  PROVE  HandlerInv(h)'
  <1>1. HandlerInv(h) /\ page[h] \in Page
    BY DEF IndInv, TypeOK
  <1>2. page[h].paths \in SUBSET Path /\ page[h].total \in Nat
    BY <1>1, FS_CardinalityType DEF Page
  <1>3. /\ crossed[h] \subseteq crossed'[h]
        /\ pc[h] \in HasRead /\ p \in page[h].paths => p \in crossed'[h]
    BY CrossType
  <1>4. ASSUME pc[h] \in HasRead, NEW q \in page[h].paths
        PROVE  asked[h] \in index'[q] \/ q = flushing' \/ q \in crossed'[h]
    <2>1. asked[h] \in index[q] \/ q = flushing \/ q \in crossed[h]
      BY <1>1, <1>4 DEF HandlerInv
    <2>2. QED BY <1>2, <1>3, <1>4, <2>1
  <1>5. ASSUME pc[h] \in {"set", "respond"}
        PROVE  Cardinality(page[h].paths \ (crossed'[h] \cup {flushing'})) <= page[h].total
    <2>1. Cardinality(page[h].paths \ (crossed[h] \cup {flushing})) <= page[h].total
      BY <1>1, <1>5 DEF HandlerInv
    <2>2. page[h].paths \ (crossed'[h] \cup {flushing'})
            \subseteq page[h].paths \ (crossed[h] \cup {flushing})
      BY <1>3, <1>5 DEF HasRead
    <2>3. QED BY <1>2, <2>1, <2>2, FewerToCover
  <1>6. QED BY <1>1, <1>4, <1>5 DEF HandlerInv

LEMMA FlushInvalidateKeeps ==
  ASSUME IndInv, NEW p \in Path, FlushInvalidate(p)
  PROVE  IndInv'
  <1> DEFINE K == {k \in Key : Cache!Lists(entry[k], p)}
  <1>1. /\ Cache!Drop(K) /\ ret' = NoValue /\ now' = now
        /\ flushing = p /\ flushing' = None /\ Cross(p)
        /\ UNCHANGED <<index, writes, bulks, pc, asked, page, answer, excused>>
    BY DEF FlushInvalidate, Cache!InvalidateByPath, store, handler
  <1>2. /\ entry' \in [Key -> Cache!Entry \cup {NoEntry}] /\ newer' \subseteq Key \X Key
        /\ \A k \in Key : entry'[k] = IF k \in K THEN NoEntry ELSE entry[k]
    <2>1. K \in SUBSET Key
      OBVIOUS
    <2> HIDE DEF K
    <2>2. QED BY <1>1, <2>1, DropKeeps
  <1>3. TypeOK'
    BY <1>1, <1>2, CrossType DEF IndInv, TypeOK, Cache!TypeOK
  <1>4. EntriesExpire' /\ BoundedStaleness'
    BY <1>1, <1>2 DEF IndInv, EntriesExpire, BoundedStaleness
  <1>5. NoGhostResults'
    <2> SUFFICES ASSUME NEW k \in Key, entry'[k] # NoEntry, NEW q \in entry'[k].value.paths
                 PROVE  k \in index[q] \/ q \in excused[k]
      BY <1>1 DEF NoGhostResults
    <2>1. k \notin K /\ entry'[k] = entry[k]
      BY <1>2
    <2>2. entry[k].value \in Page
      BY <2>1 DEF IndInv, TypeOK, Cache!TypeOK, Cache!Entry
    <2>3. q # p
      BY <2>1, <2>2 DEF Cache!Lists
    <2>4. k \in index[q] \/ q = flushing \/ q \in excused[k]
      BY <2>1 DEF IndInv, NoGhostResults
    <2>5. QED BY <1>1, <2>3, <2>4
  <1>6. \A h \in Handler : HandlerInv(h)'
    BY <1>1, CrossKeeps
  <1>7. QED BY <1>1, <1>3, <1>4, <1>5, <1>6 DEF IndInv

LEMMA BulkKeeps ==
  ASSUME IndInv, NEW p \in Path, BulkWrite(p)
  PROVE  IndInv'
  <1>1. /\ Write(p) /\ Cross(p) /\ bulks' \in Nat
        /\ UNCHANGED <<now, entry, newer, ret, writes, flushing, pc, asked, page, answer>>
        /\ excused' = [k \in Key |-> IF entry[k] = NoEntry THEN {} ELSE excused[k] \cup {p}]
    BY DEF IndInv, TypeOK, BulkWrite, cacheVars, handler
  <1>2. index' \in [Path -> SUBSET Key] /\ \A q \in Path \ {p} : index'[q] = index[q]
    BY <1>1, WriteType
  <1>3. TypeOK'
    <2>1. excused' \in [Key -> SUBSET Path]
      BY <1>1 DEF IndInv, TypeOK
    <2>2. QED BY <1>1, <1>2, <2>1, CrossType DEF IndInv, TypeOK, Cache!TypeOK
  <1>4. EntriesExpire' /\ BoundedStaleness'
    BY <1>1 DEF IndInv, EntriesExpire, BoundedStaleness
  <1>5. NoGhostResults'
    <2> SUFFICES ASSUME NEW k \in Key, entry[k] # NoEntry, NEW q \in entry[k].value.paths
                 PROVE  k \in index'[q] \/ q = flushing \/ q \in excused[k] \cup {p}
      BY <1>1 DEF NoGhostResults
    <2>1. q \in Path
      BY DEF IndInv, TypeOK, Cache!TypeOK, Cache!Entry, Page
    <2>2. k \in index[q] \/ q = flushing \/ q \in excused[k]
      BY DEF IndInv, NoGhostResults
    <2>3. QED BY <1>2, <2>1, <2>2
  <1>6. \A h \in Handler : HandlerInv(h)'
    BY <1>1, <1>2, CrossKeeps
  <1>7. QED BY <1>1, <1>3, <1>4, <1>5, <1>6 DEF IndInv

LEMMA TickKeeps ==
  ASSUME IndInv, Tick
  PROVE  IndInv'
  <1>1. /\ now' = now + 1 /\ now < MaxTime
        /\ UNCHANGED <<entry, newer, ret, index, writes, bulks, flushing, pc, asked, page,
                       answer, crossed, excused>>
        /\ \A h \in Handler : pc[h] \in HasRead => now - page[h].at < MaxHandling
    BY DEF Tick, Cache!Tick, store, handler, ghost, HasRead
  <1>2. now \in Nat /\ \A h \in Handler : page[h].at \in Nat
    BY DEF IndInv, TypeOK, Cache!TypeOK, Page
  <1>3. TypeOK' /\ now' <= MaxTime
    BY <1>1, <1>2 DEF IndInv, TypeOK, Cache!TypeOK
  <1>4. EntriesExpire' /\ BoundedStaleness' /\ NoGhostResults'
    BY <1>1 DEF IndInv, EntriesExpire, BoundedStaleness, NoGhostResults
  <1>5. ASSUME NEW h \in Handler PROVE HandlerInv(h)'
    <2>1. HandlerInv(h)
      BY DEF IndInv
    <2>2. pc[h] \in HasRead => now + 1 <= page[h].at + MaxHandling
      BY <1>1, <1>2
    <2>3. QED BY <1>1, <2>1, <2>2 DEF HandlerInv
  <1>6. QED BY <1>3, <1>4, <1>5 DEF IndInv

-----------------------------------------------------------------------------
LEMMA NextInv == IndInv /\ [Next]_vars => IndInv'
  <1> SUFFICES ASSUME IndInv, [Next]_vars PROVE IndInv'
    OBVIOUS
  <1>1. CASE UNCHANGED vars
    BY <1>1 DEF vars, IndInv, TypeOK, Cache!TypeOK, HandlerInv, EntriesExpire, NoGhostResults,
               BoundedStaleness
  <1>2. ASSUME NEW h \in Handler,
               \/ \E k \in Key : Hit(h, k) \/ Miss(h, k)
               \/ DbSearch(h) \/ DbCount(h) \/ DbFails(h) \/ CacheSet(h) \/ Respond(h)
        PROVE  IndInv'
    BY <1>2, HitKeeps, MissKeeps, SearchKeeps, CountKeeps, FailsKeeps, SetKeeps, RespondKeeps
  <1>3. ASSUME NEW p \in Path, FlushWrite(p) \/ FlushInvalidate(p) \/ BulkWrite(p)
        PROVE  IndInv'
    BY <1>3, FlushWriteKeeps, FlushInvalidateKeeps, BulkKeeps
  <1>4. QED BY <1>1, <1>2, <1>3, TickKeeps DEF Next

LEMMA Inductive == Spec => []IndInv
  BY InitInv, NextInv, PTL DEF Spec

(* Every variable keeps its type; a total is never more than the files.    *)
THEOREM TypeCorrect == Spec => []TypeOK
  BY Inductive, PTL DEF IndInv

(* No answer is older than the cache's TTL and the time one request takes, *)
(* however often a page is hit and whatever is not invalidated.            *)
THEOREM StalenessIsBounded == Spec => []BoundedStaleness
  BY Inductive, PTL DEF IndInv

(* A cached page wrongly lists a path only if flush is between its calls   *)
(* for it, if a writer came across the page before it was cached, or if    *)
(* the bulk indexer, which does not invalidate, changed it since.          *)
THEOREM GhostsAreExcused == Spec => []NoGhostResults
  BY Inductive, PTL DEF IndInv

(* The total of an answer covers its page but for paths a writer changed   *)
(* between the two statements or since.                                    *)
THEOREM TotalsCover == Spec => []TotalCoversPage
  <1>1. IndInv => TotalCoversPage
    BY DEF IndInv, HandlerInv, TotalCoversPage
  <1>2. QED BY <1>1, Inductive, PTL
=============================================================================
