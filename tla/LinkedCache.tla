---------------------------- MODULE LinkedCache -----------------------------
(***************************************************************************)
(* internal/cache/cache.go as it is: a map of entries threaded on a doubly *)
(* linked list, most recently used first.  Every exported method holds the *)
(* mutex from its first to its last statement, so each is one step, but    *)
(* the loop of InvalidateByPath, which is one step for each entry; the     *)
(* pointer assignments inside a step are the operators on a heap below.    *)
(***************************************************************************)
EXTENDS CacheParameters

CONSTANTS Node,       \* the *entry objects
          nil

ASSUME NodeAssumption == nil \notin Node

VARIABLES now,        \* time.Now()
          heap,       \* the Cache and its entries: see HeapType
          doomed,     \* what InvalidateByPath, with the mutex, has still to remove
          ret         \* what the last operation returned

cacheVars == <<now, heap, doomed, ret>>

Pointer == Node \cup {nil}

(* items: the map; head, tail, size: fields of Cache; the rest are the     *)
(* fields of each entry.  A node outside the map is garbage.               *)
HeapType == [items : [Key -> Pointer], head : Pointer, tail : Pointer, size : Nat,
             prev : [Node -> Pointer], next : [Node -> Pointer],
             key : [Node -> Key \cup {nil}],
             value : [Node -> Value \cup {NoValue}], exp : [Node -> Nat]]

Empty == [items |-> [k \in Key |-> nil], head |-> nil, tail |-> nil, size |-> 0,
          prev |-> [n \in Node |-> nil], next |-> [n \in Node |-> nil],
          key |-> [n \in Node |-> nil], value |-> [n \in Node |-> NoValue],
          exp |-> [n \in Node |-> 0]]

Live(h)  == {h.items[k] : k \in Key} \ {nil}
Fresh(e) == now <= heap.exp[e]       \* !time.Now().After(e.exp)

-----------------------------------------------------------------------------
(* The unexported list operations.                                         *)

(* The assignment n.f = v, guarded by n != nil. *)
Point(f, n, v) == IF n = nil THEN f ELSE [f EXCEPT ![n] = v]

pushFront(h, e) ==
  [h EXCEPT !.prev = Point([@ EXCEPT ![e] = nil], h.head, e),
            !.next[e] = h.head,
            !.head = e,
            !.tail = IF @ = nil THEN e ELSE @]

unlink(h, e) ==
  LET before == h.prev[e]
      after  == h.next[e]
  IN [h EXCEPT !.next = [Point(@, before, after) EXCEPT ![e] = nil],
               !.prev = [Point(@, after, before) EXCEPT ![e] = nil],
               !.head = IF before = nil THEN after ELSE @,
               !.tail = IF after = nil THEN before ELSE @]

(* Mutant of moveToFront: pushed to the front without being unlinked. *)
moveToFrontLinked(h, e) == IF h.head = e THEN h ELSE pushFront(h, e)

moveToFront(h, e) == IF h.head = e THEN h ELSE pushFront(unlink(h, e), e)

(* The removed entry is garbage; the model blanks it. *)
remove(h, e) ==
  [unlink(h, e) EXCEPT !.items[h.key[e]] = nil,
                       !.size = @ - 1,
                       !.key[e] = nil, !.value[e] = NoValue, !.exp[e] = 0]

evict(h) == IF h.tail = nil THEN h ELSE remove(h, h.tail)

store(h, e, v) == [h EXCEPT !.value[e] = v, !.exp[e] = now + TTL]

-----------------------------------------------------------------------------
CacheInit == now = 0 /\ heap = Empty /\ doomed = {} /\ ret = NoValue

Tick == /\ now < MaxTime
        /\ now' = now + 1
        /\ UNCHANGED <<heap, doomed, ret>>

(* A method that gets the mutex, and changes the heap to h. *)
Does(h, answer) == /\ doomed = {}
                   /\ heap' = h /\ ret' = answer
                   /\ UNCHANGED <<now, doomed>>

GetMiss(k) == /\ heap.items[k] = nil
              /\ Does(heap, NoValue)

GetExpired(k) == LET e == heap.items[k] IN
                 /\ e # nil /\ ~Fresh(e)
                 /\ Does(remove(heap, e), NoValue)

(* Mutant of GetHit: a hit does not count as use. *)
GetHitInPlace(k) == LET e == heap.items[k] IN
                    /\ e # nil /\ Fresh(e)
                    /\ Does(heap, heap.value[e])

GetHit(k) == LET e == heap.items[k] IN
             /\ e # nil /\ Fresh(e)
             /\ Does(moveToFront(heap, e), heap.value[e])

SetPresent(k, v) == LET e == heap.items[k] IN
                    /\ e # nil
                    /\ Does(moveToFront(store(heap, e, v), e), NoValue)

Insert(h, k, e, v) ==
  [pushFront(store([h EXCEPT !.key[e] = k, !.items[k] = e], e, v), e) EXCEPT !.size = @ + 1]

SetNew(k, v) ==
  /\ heap.items[k] = nil
  /\ \E e \in Node \ Live(heap) :
       LET h == Insert(heap, k, e, v) IN
       Does(IF h.size > MaxSize THEN evict(h) ELSE h, NoValue)

InvalidateByPath(p) ==
  /\ doomed = {}
  /\ doomed' = {e \in Live(heap) : p \in pathsOf[heap.value[e]]}
  /\ ret' = NoValue
  /\ UNCHANGED <<now, heap>>

(* The range over c.items removes them as it meets them, in any order. *)
RemoveListed == \E e \in doomed :
                  /\ heap' = remove(heap, e)
                  /\ doomed' = doomed \ {e}
                  /\ UNCHANGED <<now, ret>>

Flush == Does(Empty, NoValue)

CacheNext == \/ Tick \/ Flush \/ RemoveListed
             \/ \E k \in Key : GetHit(k) \/ GetMiss(k) \/ GetExpired(k)
             \/ \E k \in Key, v \in Value : SetPresent(k, v) \/ SetNew(k, v)
             \/ \E p \in Path : InvalidateByPath(p)

CacheSpec == CacheInit /\ [][CacheNext]_cacheVars

-----------------------------------------------------------------------------
(* The nodes that `link` (next or prev) leads to from n: the least set     *)
(* with n's successor in which each has its own.  n is not one of them     *)
(* unless the list has a cycle.                                            *)
Follows(link, S) == \A m \in S : link[m] \in S \cup {nil}

Reach(link, n) ==
  {m \in Node : \A S \in SUBSET Node :
                  link[n] \in S \cup {nil} /\ Follows(link, S) => m \in S}

(* Map and list hold the same entries, the list is the same read from      *)
(* either end and has no cycle, and size counts it and is bounded:         *)
(* cache.go's pushFront, unlink and remove keep six fields in step.        *)
WellFormed ==
  LET live == Live(heap) IN
  /\ heap \in HeapType
  /\ \A k \in Key : heap.items[k] # nil => heap.key[heap.items[k]] = k
  /\ heap.size = Cardinality(live) /\ heap.size <= MaxSize
  /\ heap.head = nil <=> live = {}
  /\ heap.tail = nil <=> live = {}
  /\ live # {} => /\ live = {heap.head} \cup Reach(heap.next, heap.head)
                  /\ live = {heap.tail} \cup Reach(heap.prev, heap.tail)
                  /\ heap.prev[heap.head] = nil /\ heap.next[heap.tail] = nil
  /\ \A e \in live : /\ e \notin Reach(heap.next, e)
                     /\ heap.next[e] # nil => heap.prev[heap.next[e]] = e
  /\ \A e \in Node \ live : heap.next[e] = nil /\ heap.prev[e] = nil

(* The list is the LRU order of LruCache, in which InvalidateByPath drops  *)
(* all entries at once.                                                    *)
Cached(e) == e # nil /\ e \notin doomed

entry == [k \in Key |->
            LET e == heap.items[k] IN
            IF Cached(e) THEN [value |-> heap.value[e], exp |-> heap.exp[e]] ELSE NoEntry]

newer == {jk \in Key \X Key :
            /\ Cached(heap.items[jk[1]]) /\ Cached(heap.items[jk[2]])
            /\ heap.items[jk[2]] \in Reach(heap.next, heap.items[jk[1]])}

Lru == INSTANCE LruCache

(* Get, Set, InvalidateByPath and Flush answer and evict as LruCache says. *)
ImplementsLru == Lru!Spec
=============================================================================
