------------------------------ MODULE LruCache ------------------------------
(***************************************************************************)
(* What internal/cache promises: a bounded map with an expiry time for     *)
(* each entry, whose least recently used entry makes room for a new one.   *)
(* LinkedCache shows that the linked list of cache.go implements it.       *)
(***************************************************************************)
EXTENDS CacheParameters

VARIABLES now,     \* time.Now()
          entry,   \* entry[k]: what is cached under k, or NoEntry
          newer,   \* <<j, k>>: j was used after k
          ret      \* what the last operation returned: a hit's value or NoValue

vars == <<now, entry, newer, ret>>

Present(e) == {k \in Key : e[k] # NoEntry}
Fresh(e)   == now <= e.exp           \* !time.Now().After(e.exp)

Without(order, K) == {jk \in order : jk[1] \notin K /\ jk[2] \notin K}
Touched(order, k, others) == Without(order, {k}) \cup ({k} \X (others \ {k}))

Drop(K) == /\ entry' = [k \in Key |-> IF k \in K THEN NoEntry ELSE entry[k]]
           /\ newer' = Without(newer, K)

Init == /\ now = 0
        /\ entry = [k \in Key |-> NoEntry]
        /\ newer = {}
        /\ ret = NoValue

Tick == /\ now < MaxTime
        /\ now' = now + 1
        /\ UNCHANGED <<entry, newer, ret>>

(* Mutant of GetHit: a hit renews the expiry. *)
GetHitRenews(k) == /\ entry[k] # NoEntry /\ Fresh(entry[k])
                   /\ ret' = entry[k].value
                   /\ newer' = Touched(newer, k, Present(entry))
                   /\ entry' = [entry EXCEPT ![k].exp = now + TTL]
                   /\ UNCHANGED now

GetHit(k) == /\ entry[k] # NoEntry /\ Fresh(entry[k])
             /\ ret' = entry[k].value
             /\ newer' = Touched(newer, k, Present(entry))
             /\ UNCHANGED <<now, entry>>

GetMiss(k) == /\ entry[k] = NoEntry
              /\ ret' = NoValue
              /\ UNCHANGED <<now, entry, newer>>

GetExpired(k) == /\ entry[k] # NoEntry /\ ~Fresh(entry[k])
                 /\ ret' = NoValue
                 /\ Drop({k})
                 /\ UNCHANGED now

New(v) == [value |-> v, exp |-> now + TTL]

(* Set under a key that has an entry, or when there is room. *)
SetRoom(k, v) ==
  /\ entry[k] # NoEntry \/ Cardinality(Present(entry)) < MaxSize
  /\ entry' = [entry EXCEPT ![k] = New(v)]
  /\ newer' = Touched(newer, k, Present(entry))
  /\ ret' = NoValue
  /\ UNCHANGED now

IsOldest(k) == \A j \in Present(entry) \ {k} : <<j, k>> \in newer

SetEvict(k, v) ==
  /\ entry[k] = NoEntry /\ Cardinality(Present(entry)) = MaxSize
  /\ \E old \in Present(entry) :
       /\ IsOldest(old)
       /\ entry' = [entry EXCEPT ![k] = New(v), ![old] = NoEntry]
       /\ newer' = Touched(Without(newer, {old}), k, Present(entry) \ {old})
  /\ ret' = NoValue
  /\ UNCHANGED now

Lists(e, p) == e # NoEntry /\ p \in pathsOf[e.value]

InvalidateByPath(p) == /\ Drop({k \in Key : Lists(entry[k], p)})
                       /\ ret' = NoValue
                       /\ UNCHANGED now

Flush == /\ Drop(Key)
         /\ ret' = NoValue
         /\ UNCHANGED now

Next == \/ Tick \/ Flush
        \/ \E k \in Key : GetHit(k) \/ GetMiss(k) \/ GetExpired(k)
        \/ \E k \in Key, v \in Value : SetRoom(k, v) \/ SetEvict(k, v)
        \/ \E p \in Path : InvalidateByPath(p)

Spec == Init /\ [][Next]_vars

-----------------------------------------------------------------------------
TypeOK == /\ now \in Nat
          /\ entry \in [Key -> Entry \cup {NoEntry}]
          /\ newer \subseteq Key \X Key
          /\ ret \in Value \cup {NoValue}

(* New says maxSize bounds the cache: it never holds more entries. *)
Bounded == IsFiniteSet(Present(entry)) /\ Cardinality(Present(entry)) <= MaxSize

(* Recency orders exactly the cached keys, strictly and totally, so that   *)
(* there is never a doubt about whom Set evicts.                           *)
RecencyIsOrder ==
  LET P == Present(entry) IN
  /\ newer \subseteq P \X P
  /\ \A j \in P : <<j, j>> \notin newer
  /\ \A j, k \in P : j # k => (<<j, k>> \in newer <=> <<k, j>> \notin newer)
  /\ \A i, j, k \in P : <<i, j>> \in newer /\ <<j, k>> \in newer => <<i, k>> \in newer
=============================================================================
