---------------------------- MODULE CacheProofs -----------------------------
(***************************************************************************)
(* The linked list of internal/cache, for any keys, pages, paths, size and *)
(* TTL: map and list stay in step, and LinkedCache implements LruCache.    *)
(***************************************************************************)
EXTENDS LinkedCache, Integers, FiniteSetTheorems, WellFoundedInduction, TLAPS

USE CacheAssumption, EntryAssumption, NodeAssumption

-----------------------------------------------------------------------------
(* Lists.  L is the set of the nodes of a list and r ranks them: a node    *)
(* nearer the head has a lower rank.                                       *)

First(L, r, d) == IF d = nil THEN L = {} ELSE d \in L /\ \A m \in L : r[d] <= r[m]
Last(L, r, d)  == IF d = nil THEN L = {} ELSE d \in L /\ \A m \in L : r[m] <= r[d]

(* d, or none if d is nil, comes right after e, or right before it. *)
RightAfter(L, r, e, d) ==
  IF d = nil THEN \A m \in L : r[m] <= r[e]
  ELSE d \in L /\ r[e] < r[d] /\ \A m \in L : r[e] < r[m] => r[d] <= r[m]

RightBefore(L, r, e, d) ==
  IF d = nil THEN \A m \in L : r[e] <= r[m]
  ELSE d \in L /\ r[d] < r[e] /\ \A m \in L : r[m] < r[e] => r[m] <= r[d]

Ranks(L, r) == /\ L \subseteq Node /\ r \in [Node -> Int]
               /\ \A d, e \in L : r[d] = r[e] => d = e

Threaded(h, L, r) ==
  /\ Ranks(L, r)
  /\ First(L, r, h.head) /\ Last(L, r, h.tail)
  /\ \A e \in L : RightAfter(L, r, e, h.next[e]) /\ RightBefore(L, r, e, h.prev[e])
  /\ \A e \in Node \ L : h.next[e] = nil /\ h.prev[e] = nil

LEMMA UnlinkIs ==
  ASSUME NEW h \in HeapType, NEW e \in Node
  PROVE  LET u == unlink(h, e) IN
         /\ u \in HeapType
         /\ u.items = h.items /\ u.size = h.size
         /\ u.key = h.key /\ u.value = h.value /\ u.exp = h.exp
         /\ \A m \in Node :
              /\ u.next[m] = IF m = e THEN nil ELSE IF m = h.prev[e] THEN h.next[e] ELSE h.next[m]
              /\ u.prev[m] = IF m = e THEN nil ELSE IF m = h.next[e] THEN h.prev[e] ELSE h.prev[m]
         /\ u.head = IF h.prev[e] = nil THEN h.next[e] ELSE h.head
         /\ u.tail = IF h.next[e] = nil THEN h.prev[e] ELSE h.tail
  <1> DEFINE b == h.prev[e]
             a == h.next[e]
             nx == [Point(h.next, b, a) EXCEPT ![e] = nil]
             pv == [Point(h.prev, a, b) EXCEPT ![e] = nil]
             hd == IF b = nil THEN a ELSE h.head
             tl == IF a = nil THEN b ELSE h.tail
             u == unlink(h, e)
  <1>1. a \in Pointer /\ b \in Pointer /\ h.next \in [Node -> Pointer] /\ h.prev \in [Node -> Pointer]
        /\ nil \in Pointer /\ h.head \in Pointer /\ h.tail \in Pointer
    BY DEF HeapType, Pointer
  <1>2. /\ nx \in [Node -> Pointer] /\ pv \in [Node -> Pointer]
        /\ \A m \in Node :
             /\ nx[m] = IF m = e THEN nil ELSE IF m = b THEN a ELSE h.next[m]
             /\ pv[m] = IF m = e THEN nil ELSE IF m = a THEN b ELSE h.prev[m]
    <2> DEFINE f == Point(h.next, b, a)
               g == Point(h.prev, a, b)
    <2>1. /\ f \in [Node -> Pointer] /\ g \in [Node -> Pointer]
          /\ \A m \in Node : /\ f[m] = IF m = b THEN a ELSE h.next[m]
                            /\ g[m] = IF m = a THEN b ELSE h.prev[m]
      BY <1>1 DEF Point
    <2> HIDE DEF f, g
    <2>2. nx = [f EXCEPT ![e] = nil] /\ pv = [g EXCEPT ![e] = nil]
      BY DEF f, g
    <2>3. QED BY <1>1, <2>1, <2>2
  <1>3. u = [h EXCEPT !.next = nx, !.prev = pv, !.head = hd, !.tail = tl]
    BY DEF unlink, HeapType
  <1>4. hd \in Pointer /\ tl \in Pointer
    BY <1>1
  <1> HIDE DEF nx, pv, hd, tl, u
  <1>5. /\ u.items = h.items /\ u.size = h.size
        /\ u.key = h.key /\ u.value = h.value /\ u.exp = h.exp
        /\ u.next = nx /\ u.prev = pv /\ u.head = hd /\ u.tail = tl
    BY <1>3 DEF HeapType
  <1>6. u \in HeapType
    BY <1>2, <1>3, <1>4 DEF HeapType
  <1>7. QED BY <1>2, <1>5, <1>6 DEF hd, tl, u

LEMMA PushIs ==
  ASSUME NEW h \in HeapType, NEW e \in Node
  PROVE  LET u == pushFront(h, e) IN
         /\ u \in HeapType
         /\ u.items = h.items /\ u.size = h.size
         /\ u.key = h.key /\ u.value = h.value /\ u.exp = h.exp
         /\ \A m \in Node :
              /\ u.next[m] = IF m = e THEN h.head ELSE h.next[m]
              /\ u.prev[m] = IF m = h.head THEN e ELSE IF m = e THEN nil ELSE h.prev[m]
         /\ u.head = e
         /\ u.tail = IF h.tail = nil THEN e ELSE h.tail
  <1> DEFINE nx == [h.next EXCEPT ![e] = h.head]
             pv == Point([h.prev EXCEPT ![e] = nil], h.head, e)
             tl == IF h.tail = nil THEN e ELSE h.tail
             u == pushFront(h, e)
  <1>1. e \in Pointer /\ h.next \in [Node -> Pointer] /\ h.prev \in [Node -> Pointer]
        /\ nil \in Pointer /\ h.head \in Pointer /\ h.tail \in Pointer
    BY DEF HeapType, Pointer
  <1>2. /\ nx \in [Node -> Pointer] /\ pv \in [Node -> Pointer]
        /\ \A m \in Node :
             /\ nx[m] = IF m = e THEN h.head ELSE h.next[m]
             /\ pv[m] = IF m = h.head THEN e ELSE IF m = e THEN nil ELSE h.prev[m]
    <2> DEFINE f == [h.prev EXCEPT ![e] = nil]
    <2>1. f \in [Node -> Pointer] /\ \A m \in Node : f[m] = IF m = e THEN nil ELSE h.prev[m]
      BY <1>1
    <2> HIDE DEF f
    <2>2. /\ Point(f, h.head, e) \in [Node -> Pointer]
          /\ \A m \in Node : Point(f, h.head, e)[m] = IF m = h.head THEN e ELSE f[m]
      BY <1>1, <2>1, NodeAssumption DEF Point
    <2>3. pv = Point(f, h.head, e)
      BY DEF f
    <2>4. nx \in [Node -> Pointer] /\ \A m \in Node : nx[m] = IF m = e THEN h.head ELSE h.next[m]
      BY <1>1
    <2>5. QED BY <2>1, <2>2, <2>3, <2>4
  <1>3. u = [h EXCEPT !.prev = pv, !.next = nx, !.head = e, !.tail = tl]
    BY DEF pushFront, HeapType
  <1>4. tl \in Pointer
    BY <1>1
  <1> HIDE DEF nx, pv, tl, u
  <1>5. /\ u.items = h.items /\ u.size = h.size
        /\ u.key = h.key /\ u.value = h.value /\ u.exp = h.exp
        /\ u.next = nx /\ u.prev = pv /\ u.head = e /\ u.tail = tl
    BY <1>3 DEF HeapType
  <1>6. u \in HeapType
    BY <1>1, <1>2, <1>3, <1>4 DEF HeapType
  <1>7. QED BY <1>2, <1>5, <1>6 DEF tl, u

(* Taking a node out keeps the others in order. *)
LEMMA UnlinkKeeps ==
  ASSUME NEW h \in HeapType, NEW L, NEW r, Threaded(h, L, r), NEW e \in L
  PROVE  Threaded(unlink(h, e), L \ {e}, r)
  <1> DEFINE u == unlink(h, e)
             b == h.prev[e]
             a == h.next[e]
             M == L \ {e}
  <1>0. Ranks(L, r) /\ e \in Node /\ nil \notin L
    BY DEF Threaded, Ranks
  <1>1. /\ \A m \in Node : /\ u.next[m] = IF m = e THEN nil ELSE IF m = b THEN a ELSE h.next[m]
                          /\ u.prev[m] = IF m = e THEN nil ELSE IF m = a THEN b ELSE h.prev[m]
        /\ u.head = IF b = nil THEN a ELSE h.head
        /\ u.tail = IF a = nil THEN b ELSE h.tail
    BY <1>0, UnlinkIs
  <1>2. RightAfter(L, r, e, a) /\ RightBefore(L, r, e, b)
    BY DEF Threaded
  <1>3. First(L, r, h.head) /\ Last(L, r, h.tail)
    BY DEF Threaded
  <1>4. \A m \in L : RightAfter(L, r, m, h.next[m]) /\ RightBefore(L, r, m, h.prev[m])
    BY DEF Threaded
  <1>5. \A m \in Node \ L : h.next[m] = nil /\ h.prev[m] = nil
    BY DEF Threaded
  <1> HIDE DEF u, a, b
  <1>6. Ranks(M, r)
    BY <1>0 DEF Ranks
  <1>7. First(M, r, u.head)
    BY <1>0, <1>1, <1>2, <1>3 DEF First, RightBefore, RightAfter, Ranks
  <1>8. Last(M, r, u.tail)
    BY <1>0, <1>1, <1>2, <1>3 DEF Last, RightBefore, RightAfter, Ranks
  <1>9. ASSUME NEW m \in M PROVE RightAfter(M, r, m, u.next[m])
    BY <1>0, <1>1, <1>2, <1>4 DEF RightAfter, RightBefore, Ranks
  <1>10. ASSUME NEW m \in M PROVE RightBefore(M, r, m, u.prev[m])
    BY <1>0, <1>1, <1>2, <1>4 DEF RightAfter, RightBefore, Ranks
  <1>11. \A m \in Node \ M : u.next[m] = nil /\ u.prev[m] = nil
    BY <1>0, <1>1, <1>2, <1>5 DEF RightAfter, RightBefore
  <1>12. QED BY <1>6, <1>7, <1>8, <1>9, <1>10, <1>11 DEF Threaded, u

(* A node pushed to the front comes before all others. *)
LEMMA PushKeeps ==
  ASSUME NEW h \in HeapType, NEW L, NEW r, Threaded(h, L, r), NEW e \in Node \ L
  PROVE  LET s == [r EXCEPT ![e] = IF h.head = nil THEN 0 ELSE r[h.head] - 1]
         IN  /\ Threaded(pushFront(h, e), L \cup {e}, s)
             /\ \A d \in L : s[e] < s[d] /\ s[d] = r[d]
  <1> DEFINE u == pushFront(h, e)
             M == L \cup {e}
             s == [r EXCEPT ![e] = IF h.head = nil THEN 0 ELSE r[h.head] - 1]
  <1>0. Ranks(L, r) /\ nil \notin L /\ nil \notin M
    BY DEF Threaded, Ranks
  <1>1. /\ \A m \in Node : /\ u.next[m] = IF m = e THEN h.head ELSE h.next[m]
                          /\ u.prev[m] = IF m = h.head THEN e ELSE IF m = e THEN nil ELSE h.prev[m]
        /\ u.head = e
        /\ u.tail = IF h.tail = nil THEN e ELSE h.tail
    BY PushIs
  <1>2. First(L, r, h.head) /\ Last(L, r, h.tail)
    BY DEF Threaded
  <1>3. \A m \in L : RightAfter(L, r, m, h.next[m]) /\ RightBefore(L, r, m, h.prev[m])
    BY DEF Threaded
  <1>4. \A m \in Node \ L : h.next[m] = nil /\ h.prev[m] = nil
    BY DEF Threaded
  <1>5. s \in [Node -> Int] /\ \A m \in L : s[e] < s[m] /\ s[m] = r[m]
    BY <1>0, <1>2 DEF First, Ranks
  <1> HIDE DEF u, s
  <1>6. Ranks(M, s)
    BY <1>0, <1>5 DEF Ranks
  <1>7. First(M, s, u.head)
    BY <1>0, <1>1, <1>5 DEF First, Ranks
  <1>8. Last(M, s, u.tail)
    BY <1>0, <1>1, <1>2, <1>5 DEF Last, Ranks
  <1>9. ASSUME NEW m \in M PROVE RightAfter(M, s, m, u.next[m])
    BY <1>0, <1>1, <1>2, <1>3, <1>5 DEF First, RightAfter, Ranks
  <1>10. ASSUME NEW m \in M PROVE RightBefore(M, s, m, u.prev[m])
    BY <1>0, <1>1, <1>2, <1>3, <1>5 DEF First, RightBefore, Ranks
  <1>11. \A m \in Node \ M : u.next[m] = nil /\ u.prev[m] = nil
    BY <1>0, <1>1, <1>2, <1>4 DEF First
  <1>12. QED BY <1>5, <1>6, <1>7, <1>8, <1>9, <1>10, <1>11 DEF Threaded, u, s

LEMMA LeastNat ==
  ASSUME NEW T \in SUBSET Nat, T # {}
  PROVE  \E n \in T : \A m \in T : n <= m
  <1> DEFINE R == {ss \in Nat \X Nat : ss[1] < ss[2]}
  <1>1. IsWellFoundedOn(R, Nat)
    BY NatLessThanWellFounded DEF OpToRel
  <1>2. \A i, j \in Nat : <<i, j>> \in R <=> i < j
    OBVIOUS
  <1> HIDE DEF R
  <1>3. PICK n \in T : \A m \in T : <<m, n>> \notin R
    BY <1>1, WFMin
  <1>4. \A m \in T : ~(m < n)
    BY <1>2, <1>3
  <1>5. QED BY <1>4

(* What next leads to is the rest of the list, what prev leads to is what  *)
(* comes before.                                                           *)
LEMMA ReachIs ==
  ASSUME NEW h \in HeapType, NEW L, NEW r, Threaded(h, L, r), NEW e \in L
  PROVE  /\ Reach(h.next, e) = {m \in L : r[e] < r[m]}
         /\ Reach(h.prev, e) = {m \in L : r[m] < r[e]}
  <1>0. Ranks(L, r) /\ nil \notin L
    BY DEF Threaded, Ranks
  <1>1. \A m \in L : RightAfter(L, r, m, h.next[m]) /\ RightBefore(L, r, m, h.prev[m])
    BY DEF Threaded
  <1> DEFINE A == {m \in L : r[e] < r[m]}
             B == {m \in L : r[m] < r[e]}
  <1>2. A \in SUBSET Node /\ h.next[e] \in A \cup {nil} /\ Follows(h.next, A)
    BY <1>0, <1>1 DEF RightAfter, Follows, Ranks
  <1>3. B \in SUBSET Node /\ h.prev[e] \in B \cup {nil} /\ Follows(h.prev, B)
    BY <1>0, <1>1 DEF RightBefore, Follows, Ranks
  <1>4. ASSUME NEW m \in A, NEW S \in SUBSET Node,
               h.next[e] \in S \cup {nil}, Follows(h.next, S), m \notin S
        PROVE  FALSE
    <2> DEFINE T == {k \in Nat : \E d \in A \ S : k = r[d] - r[e]}
    <2>1. r[m] - r[e] \in T
      BY <1>0, <1>4 DEF Ranks
    <2>2. PICK k \in T : \A i \in T : k <= i
      <3> HIDE DEF T
      <3>1. T \in SUBSET Nat
        BY DEF T
      <3>2. QED BY <2>1, <3>1, LeastNat
    <2>3. PICK d \in A \ S : k = r[d] - r[e]
      BY <2>2
    <2>4. \A c \in A : c \notin S => r[d] <= r[c]
      <3>1. ASSUME NEW c \in A, c \notin S PROVE r[c] - r[e] \in T
        BY <1>0, <3>1 DEF Ranks
      <3>2. QED BY <1>0, <2>2, <2>3, <3>1 DEF Ranks
    <2> HIDE DEF T
    <2>5. RightBefore(L, r, d, h.prev[d]) /\ h.prev[d] # nil
      BY <1>0, <1>1, <2>3 DEF RightBefore, Ranks
    <2> DEFINE c == h.prev[d]
    <2>6. c \in L /\ r[c] < r[d] /\ \A i \in L : r[i] < r[d] => r[i] <= r[c]
      BY <2>5 DEF RightBefore
    <2> HIDE DEF c
    <2>7. h.next[c] = d
      BY <1>0, <1>1, <2>3, <2>6 DEF RightAfter, Ranks
    <2>8. c = e \/ c \in A
      BY <1>0, <2>3, <2>6 DEF Ranks
    <2>9. CASE c = e
      BY <1>0, <1>4, <2>3, <2>7, <2>9
    <2>10. CASE c \in A
      <3>1. c \in S
        BY <1>0, <2>3, <2>4, <2>6, <2>10 DEF Ranks
      <3>2. QED BY <1>0, <1>4, <2>3, <2>7, <3>1 DEF Follows
    <2>11. QED BY <2>8, <2>9, <2>10
  <1>5. ASSUME NEW m \in B, NEW S \in SUBSET Node,
               h.prev[e] \in S \cup {nil}, Follows(h.prev, S), m \notin S
        PROVE  FALSE
    <2> DEFINE T == {k \in Nat : \E d \in B \ S : k = r[e] - r[d]}
    <2>1. r[e] - r[m] \in T
      BY <1>0, <1>5 DEF Ranks
    <2>2. PICK k \in T : \A i \in T : k <= i
      <3> HIDE DEF T
      <3>1. T \in SUBSET Nat
        BY DEF T
      <3>2. QED BY <2>1, <3>1, LeastNat
    <2>3. PICK d \in B \ S : k = r[e] - r[d]
      BY <2>2
    <2>4. \A c \in B : c \notin S => r[c] <= r[d]
      <3>1. ASSUME NEW c \in B, c \notin S PROVE r[e] - r[c] \in T
        BY <1>0, <3>1 DEF Ranks
      <3>2. QED BY <1>0, <2>2, <2>3, <3>1 DEF Ranks
    <2> HIDE DEF T
    <2>5. RightAfter(L, r, d, h.next[d]) /\ h.next[d] # nil
      BY <1>0, <1>1, <2>3 DEF RightAfter, Ranks
    <2> DEFINE c == h.next[d]
    <2>6. c \in L /\ r[d] < r[c] /\ \A i \in L : r[d] < r[i] => r[c] <= r[i]
      BY <2>5 DEF RightAfter
    <2> HIDE DEF c
    <2>7. h.prev[c] = d
      BY <1>0, <1>1, <2>3, <2>6 DEF RightBefore, Ranks
    <2>8. c = e \/ c \in B
      BY <1>0, <2>3, <2>6 DEF Ranks
    <2>9. CASE c = e
      BY <1>0, <1>5, <2>3, <2>7, <2>9
    <2>10. CASE c \in B
      <3>1. c \in S
        BY <1>0, <2>3, <2>4, <2>6, <2>10 DEF Ranks
      <3>2. QED BY <1>0, <1>5, <2>3, <2>7, <3>1 DEF Follows
    <2>11. QED BY <2>8, <2>9, <2>10
  <1>6. Reach(h.next, e) = A
    <2> HIDE DEF A
    <2>1. A \subseteq Reach(h.next, e)
      BY <1>2, <1>4 DEF Reach
    <2>2. Reach(h.next, e) \subseteq A
      BY <1>2 DEF Reach
    <2>3. QED BY <2>1, <2>2
  <1>7. Reach(h.prev, e) = B
    <2> HIDE DEF B
    <2>1. B \subseteq Reach(h.prev, e)
      BY <1>3, <1>5 DEF Reach
    <2>2. Reach(h.prev, e) \subseteq B
      BY <1>3 DEF Reach
    <2>3. QED BY <2>1, <2>2
  <1>8. QED BY <1>6, <1>7

-----------------------------------------------------------------------------
(* The map and the list.                                                   *)

(* The map leads from each key to an entry with that key and a page, and   *)
(* size counts the entries.                                                *)
Filed(h) ==
  /\ h \in HeapType
  /\ \A k \in Key : h.items[k] # nil => h.key[h.items[k]] = k /\ h.value[h.items[k]] \in Value
  /\ IsFiniteSet(Live(h)) /\ h.size = Cardinality(Live(h))

LEMMA LiveIs ==
  ASSUME NEW h \in HeapType
  PROVE  /\ Live(h) \subseteq Node
         /\ \A e : e \in Live(h) <=> e # nil /\ \E k \in Key : h.items[k] = e
  BY DEF Live, HeapType, Pointer

LEMMA FiledIs ==
  ASSUME NEW h, Filed(h), NEW e \in Live(h)
  PROVE  e \in Node /\ h.key[e] \in Key /\ h.items[h.key[e]] = e /\ h.value[e] \in Value
         /\ \A k \in Key : h.items[k] = e => k = h.key[e]
  BY LiveIs DEF Filed

(* remove forgets one entry, and no more. *)
LEMMA RemoveIs ==
  ASSUME NEW h, Filed(h), NEW r, Threaded(h, Live(h), r), NEW e \in Live(h)
  PROVE  LET u == remove(h, e) IN
         /\ Filed(u) /\ Live(u) = Live(h) \ {e} /\ Threaded(u, Live(u), r)
         /\ \A k \in Key : u.items[k] = IF h.items[k] = e THEN nil ELSE h.items[k]
         /\ \A d \in Live(u) : u.value[d] = h.value[d] /\ u.exp[d] = h.exp[d]
  <1> DEFINE g == unlink(h, e)
             c == h.key[e]
             u == remove(h, e)
  <1>0. h \in HeapType /\ e \in Node /\ c \in Key /\ Live(h) \subseteq Node
    BY FiledIs, LiveIs DEF Filed
  <1>1. /\ g \in HeapType
        /\ g.items = h.items /\ g.size = h.size
        /\ g.key = h.key /\ g.value = h.value /\ g.exp = h.exp
    BY <1>0, UnlinkIs
  <1>2. Threaded(g, Live(h) \ {e}, r)
    BY <1>0, UnlinkKeeps
  <1>3. u = [g EXCEPT !.items[c] = nil, !.size = @ - 1,
                      !.key[e] = nil, !.value[e] = NoValue, !.exp[e] = 0]
    BY DEF remove
  <1> HIDE DEF g, u, c
  <1>4. /\ u.items = [h.items EXCEPT ![c] = nil] /\ u.size = h.size - 1
        /\ u.key = [h.key EXCEPT ![e] = nil] /\ u.value = [h.value EXCEPT ![e] = NoValue]
        /\ u.exp = [h.exp EXCEPT ![e] = 0]
        /\ u.next = g.next /\ u.prev = g.prev /\ u.head = g.head /\ u.tail = g.tail
    BY <1>1, <1>3 DEF HeapType
  <1>5. \A k \in Key : u.items[k] = IF h.items[k] = e THEN nil ELSE h.items[k]
    BY <1>0, <1>4, FiledIs DEF c, HeapType
  <1>6. \A n \in Node \ {e} : u.key[n] = h.key[n] /\ u.value[n] = h.value[n] /\ u.exp[n] = h.exp[n]
    BY <1>0, <1>4 DEF HeapType
  <1>7. Live(u) = Live(h) \ {e}
    BY <1>5, <1>0 DEF Live
  <1>8. Threaded(u, Live(u), r)
    BY <1>2, <1>4, <1>7 DEF Threaded
  <1>9. /\ IsFiniteSet(Live(u)) /\ Cardinality(Live(u)) = h.size - 1
        /\ Cardinality(Live(u)) \in Nat
    <2>1. IsFiniteSet(Live(h)) /\ Cardinality(Live(h)) = h.size
      BY DEF Filed
    <2>2. IsFiniteSet(Live(u)) /\ Cardinality(Live(u)) = h.size - 1
      BY <1>7, <2>1, FS_RemoveElement
    <2>3. QED BY <2>2, FS_CardinalityType
  <1>10. u \in HeapType
    <2>1. /\ [h.items EXCEPT ![c] = nil] \in [Key -> Pointer]
          /\ h.size - 1 \in Nat
          /\ [h.key EXCEPT ![e] = nil] \in [Node -> Key \cup {nil}]
          /\ [h.value EXCEPT ![e] = NoValue] \in [Node -> Value \cup {NoValue}]
          /\ [h.exp EXCEPT ![e] = 0] \in [Node -> Nat]
      BY <1>0, <1>9 DEF HeapType, Pointer
    <2>2. u = [g EXCEPT !.items = [h.items EXCEPT ![c] = nil], !.size = h.size - 1,
                        !.key = [h.key EXCEPT ![e] = nil],
                        !.value = [h.value EXCEPT ![e] = NoValue],
                        !.exp = [h.exp EXCEPT ![e] = 0]]
      BY <1>1, <1>3 DEF HeapType
    <2>3. QED BY <1>1, <2>1, <2>2 DEF HeapType
  <1>11. Filed(u)
    <2>1. ASSUME NEW k \in Key, u.items[k] # nil
          PROVE  u.key[u.items[k]] = k /\ u.value[u.items[k]] \in Value
      <3>1. u.items[k] = h.items[k] /\ h.items[k] \in Node \ {e}
        BY <1>0, <1>5, <2>1 DEF HeapType, Pointer
      <3>2. QED BY <1>6, <3>1, <2>1 DEF Filed
    <2>2. QED BY <1>4, <1>9, <1>10, <2>1 DEF Filed
  <1>12. QED BY <1>5, <1>6, <1>7, <1>0, <1>8, <1>11 DEF u

(* Using an entry puts it before all others. *)
LEMMA MoveIs ==
  ASSUME NEW h, Filed(h), NEW r, Threaded(h, Live(h), r), NEW e \in Live(h)
  PROVE  LET u == moveToFront(h, e) IN
         /\ Filed(u) /\ Live(u) = Live(h)
         /\ u.items = h.items /\ u.value = h.value /\ u.exp = h.exp
         /\ \E s : /\ Threaded(u, Live(u), s)
                   /\ \A d \in Live(h) \ {e} : s[e] < s[d] /\ s[d] = r[d]
  <1> DEFINE g == unlink(h, e)
             p == pushFront(g, e)
             u == moveToFront(h, e)
  <1>0. h \in HeapType /\ e \in Node /\ Live(h) \subseteq Node
    BY FiledIs, LiveIs DEF Filed
  <1>1. CASE h.head = e
    <2>1. u = h
      BY <1>1 DEF moveToFront
    <2>2. \A d \in Live(h) \ {e} : r[e] < r[d] /\ r[d] = r[d]
      BY <1>0, <1>1 DEF Threaded, First, Ranks
    <2>3. QED BY <2>1, <2>2
  <1>2. CASE h.head # e
    <2>1. u = p
      BY <1>2 DEF moveToFront
    <2>2. /\ g \in HeapType
          /\ g.items = h.items /\ g.size = h.size
          /\ g.key = h.key /\ g.value = h.value /\ g.exp = h.exp
      BY <1>0, UnlinkIs
    <2>3. Threaded(g, Live(h) \ {e}, r)
      BY <1>0, UnlinkKeeps
    <2> DEFINE s == [r EXCEPT ![e] = IF g.head = nil THEN 0 ELSE r[g.head] - 1]
    <2> HIDE DEF g
    <2>4. /\ p \in HeapType
          /\ p.items = g.items /\ p.size = g.size
          /\ p.key = g.key /\ p.value = g.value /\ p.exp = g.exp
      BY <1>0, <2>2, PushIs
    <2>5. /\ Threaded(p, (Live(h) \ {e}) \cup {e}, s)
          /\ \A d \in Live(h) \ {e} : s[e] < s[d] /\ s[d] = r[d]
      BY <1>0, <2>2, <2>3, PushKeeps
    <2> HIDE DEF p, s, u
    <2>6. Live(u) = Live(h) /\ (Live(h) \ {e}) \cup {e} = Live(h)
      BY <2>1, <2>2, <2>4 DEF Live
    <2>7. Filed(u)
      BY <2>1, <2>2, <2>4, <2>6 DEF Filed
    <2>8. QED BY <2>1, <2>2, <2>4, <2>5, <2>6, <2>7 DEF u
  <1>3. QED BY <1>1, <1>2

LEMMA StoreIs ==
  ASSUME NEW h, Filed(h), NEW r, Threaded(h, Live(h), r), NEW e \in Live(h),
         NEW v \in Value, now \in Nat
  PROVE  LET u == store(h, e, v) IN
         /\ Filed(u) /\ Live(u) = Live(h) /\ Threaded(u, Live(u), r)
         /\ u.items = h.items
         /\ u.value[e] = v /\ u.exp[e] = now + TTL
         /\ \A d \in Live(h) \ {e} : u.value[d] = h.value[d] /\ u.exp[d] = h.exp[d]
  <1> DEFINE u == store(h, e, v)
  <1>0. h \in HeapType /\ e \in Node /\ Live(h) \subseteq Node /\ now + TTL \in Nat
    BY FiledIs, LiveIs DEF Filed
  <1>1. u = [h EXCEPT !.value[e] = v, !.exp[e] = now + TTL]
    BY DEF store
  <1> HIDE DEF u
  <1>2. /\ u.items = h.items /\ u.size = h.size /\ u.key = h.key
        /\ u.next = h.next /\ u.prev = h.prev /\ u.head = h.head /\ u.tail = h.tail
        /\ u.value = [h.value EXCEPT ![e] = v] /\ u.exp = [h.exp EXCEPT ![e] = now + TTL]
    BY <1>0, <1>1 DEF HeapType
  <1>3. u \in HeapType
    <2>1. /\ [h.value EXCEPT ![e] = v] \in [Node -> Value \cup {NoValue}]
          /\ [h.exp EXCEPT ![e] = now + TTL] \in [Node -> Nat]
      BY <1>0 DEF HeapType
    <2>2. u = [h EXCEPT !.value = [h.value EXCEPT ![e] = v], !.exp = [h.exp EXCEPT ![e] = now + TTL]]
      BY <1>0, <1>1 DEF HeapType
    <2>3. QED BY <1>0, <2>1, <2>2 DEF HeapType
  <1>4. /\ u.value[e] = v /\ u.exp[e] = now + TTL
        /\ \A d \in Node \ {e} : u.value[d] = h.value[d] /\ u.exp[d] = h.exp[d]
    BY <1>0, <1>2 DEF HeapType
  <1>5. Live(u) = Live(h)
    BY <1>2 DEF Live
  <1>6. Threaded(u, Live(u), r)
    BY <1>2, <1>5 DEF Threaded
  <1>7. \A d \in Live(h) : u.value[d] \in Value
    BY <1>0, <1>4, FiledIs
  <1>8. \A k \in Key : h.items[k] # nil => h.items[k] \in Live(h)
    BY <1>0, LiveIs
  <1>9. Filed(u)
    BY <1>2, <1>3, <1>5, <1>7, <1>8 DEF Filed
  <1>10. QED BY <1>0, <1>2, <1>4, <1>5, <1>6, <1>9 DEF u

(* A new entry is the first of the list. *)
LEMMA InsertIs ==
  ASSUME NEW h, Filed(h), NEW r, Threaded(h, Live(h), r), now \in Nat,
         NEW k \in Key, h.items[k] = nil, NEW e \in Node \ Live(h), NEW v \in Value
  PROVE  LET u == Insert(h, k, e, v) IN
         /\ Filed(u) /\ Live(u) = Live(h) \cup {e} /\ u.size = h.size + 1
         /\ \A j \in Key : u.items[j] = IF j = k THEN e ELSE h.items[j]
         /\ u.value[e] = v /\ u.exp[e] = now + TTL
         /\ \A d \in Live(h) : u.value[d] = h.value[d] /\ u.exp[d] = h.exp[d]
         /\ \E s : /\ Threaded(u, Live(u), s)
                   /\ \A d \in Live(h) : s[e] < s[d] /\ s[d] = r[d]
  <1> DEFINE f == [h EXCEPT !.key[e] = k, !.items[k] = e]
             g == store(f, e, v)
             p == pushFront(g, e)
             u == Insert(h, k, e, v)
             s == [r EXCEPT ![e] = IF g.head = nil THEN 0 ELSE r[g.head] - 1]
  <1>0. h \in HeapType /\ Live(h) \subseteq Node /\ now + TTL \in Nat /\ e # nil
    BY LiveIs DEF Filed
  <1>1. /\ f.items = [h.items EXCEPT ![k] = e] /\ f.key = [h.key EXCEPT ![e] = k]
        /\ f.value = h.value /\ f.exp = h.exp /\ f.size = h.size
        /\ f.next = h.next /\ f.prev = h.prev /\ f.head = h.head /\ f.tail = h.tail
    BY <1>0 DEF HeapType
  <1>2. f \in HeapType
    <2>1. /\ [h.items EXCEPT ![k] = e] \in [Key -> Pointer]
          /\ [h.key EXCEPT ![e] = k] \in [Node -> Key \cup {nil}]
      BY <1>0 DEF HeapType, Pointer
    <2>2. f = [h EXCEPT !.key = [h.key EXCEPT ![e] = k], !.items = [h.items EXCEPT ![k] = e]]
      BY <1>0 DEF HeapType
    <2>3. QED BY <1>0, <2>1, <2>2 DEF HeapType
  <1>3. g = [f EXCEPT !.value[e] = v, !.exp[e] = now + TTL]
    BY DEF store
  <1> HIDE DEF f, g
  <1>4. /\ g.items = f.items /\ g.size = f.size /\ g.key = f.key
        /\ g.next = f.next /\ g.prev = f.prev /\ g.head = f.head /\ g.tail = f.tail
        /\ g.value = [f.value EXCEPT ![e] = v] /\ g.exp = [f.exp EXCEPT ![e] = now + TTL]
    BY <1>2, <1>3 DEF HeapType
  <1>5. g \in HeapType
    <2>1. /\ [f.value EXCEPT ![e] = v] \in [Node -> Value \cup {NoValue}]
          /\ [f.exp EXCEPT ![e] = now + TTL] \in [Node -> Nat]
      BY <1>0, <1>2 DEF HeapType
    <2>2. g = [f EXCEPT !.value = [f.value EXCEPT ![e] = v], !.exp = [f.exp EXCEPT ![e] = now + TTL]]
      BY <1>2, <1>3 DEF HeapType
    <2>3. QED BY <1>2, <2>1, <2>2 DEF HeapType
  <1>6. Threaded(g, Live(h), r)
    BY <1>1, <1>4 DEF Threaded
  <1>7. /\ p \in HeapType
        /\ p.items = g.items /\ p.size = g.size
        /\ p.key = g.key /\ p.value = g.value /\ p.exp = g.exp
    BY <1>5, PushIs
  <1>8. /\ Threaded(p, Live(h) \cup {e}, s)
        /\ \A d \in Live(h) : s[e] < s[d] /\ s[d] = r[d]
    BY <1>5, <1>6, PushKeeps
  <1>9. u = [p EXCEPT !.size = @ + 1]
    BY DEF Insert, f, g
  <1> HIDE DEF p, s, u
  <1>10. /\ u.items = p.items /\ u.size = p.size + 1 /\ u.key = p.key
         /\ u.value = p.value /\ u.exp = p.exp
         /\ u.next = p.next /\ u.prev = p.prev /\ u.head = p.head /\ u.tail = p.tail
         /\ u \in HeapType
    BY <1>7, <1>9 DEF HeapType
  <1>11. \A j \in Key : u.items[j] = IF j = k THEN e ELSE h.items[j]
    BY <1>0, <1>1, <1>4, <1>7, <1>10 DEF HeapType
  <1>12. /\ u.value[e] = v /\ u.exp[e] = now + TTL /\ u.key[e] = k
         /\ \A d \in Node \ {e} : u.value[d] = h.value[d] /\ u.exp[d] = h.exp[d] /\ u.key[d] = h.key[d]
    BY <1>0, <1>1, <1>2, <1>4, <1>7, <1>10 DEF HeapType
  <1>13. Live(u) = Live(h) \cup {e}
    BY <1>0, <1>11 DEF Live
  <1>14. Threaded(u, Live(u), s)
    BY <1>8, <1>10, <1>13 DEF Threaded
  <1>15. u.size = h.size + 1 /\ IsFiniteSet(Live(u)) /\ Cardinality(Live(u)) = h.size + 1
    BY <1>1, <1>4, <1>7, <1>10, <1>13, FS_AddElement DEF Filed
  <1>16. ASSUME NEW j \in Key, u.items[j] # nil
         PROVE  u.key[u.items[j]] = j /\ u.value[u.items[j]] \in Value
    <2>1. CASE j = k
      BY <1>11, <1>12, <2>1
    <2>2. CASE j # k
      <3>1. u.items[j] = h.items[j] /\ h.items[j] \in Live(h)
        BY <1>0, <1>11, <1>16, <2>2, LiveIs
      <3>2. QED BY <1>0, <1>12, <1>16, <3>1 DEF Filed
    <2>3. QED BY <2>1, <2>2
  <1>17. Filed(u)
    BY <1>10, <1>15, <1>16 DEF Filed
  <1>18. QED BY <1>0, <1>8, <1>11, <1>12, <1>13, <1>14, <1>15, <1>17 DEF u

(* A key for each entry. *)
LEMMA KeysAreEntries ==
  ASSUME NEW h, Filed(h)
  PROVE  LET K == {k \in Key : h.items[k] # nil}
         IN  IsFiniteSet(K) /\ Cardinality(K) = h.size
  <1> DEFINE K == {k \in Key : h.items[k] # nil}
             f == [e \in Live(h) |-> h.key[e]]
  <1>1. /\ f \in [Live(h) -> K]
        /\ \A d, e \in Live(h) : f[d] = f[e] => d = e
        /\ \A k \in K : \E e \in Live(h) : f[e] = k
    <2>1. ASSUME NEW e \in Live(h) PROVE h.key[e] \in K /\ h.items[h.key[e]] = e
      BY FiledIs
    <2>2. ASSUME NEW k \in K PROVE h.items[k] \in Live(h) /\ h.key[h.items[k]] = k
      BY LiveIs DEF Filed
    <2>3. QED BY <2>1, <2>2
  <1> HIDE DEF f, K
  <1>2. f \in Bijection(Live(h), K)
    BY <1>1 DEF Bijection, Injection, Surjection, IsInjective
  <1>3. QED BY <1>2, FS_Bijection DEF Filed, ExistsBijection, K

-----------------------------------------------------------------------------
(* What the heap stands for, while InvalidateByPath has still to remove D. *)

EntryOf(h, D) == [k \in Key |-> IF h.items[k] # nil /\ h.items[k] \notin D
                                THEN [value |-> h.value[h.items[k]], exp |-> h.exp[h.items[k]]]
                                ELSE NoEntry]

NewerOf(h, D) == {jk \in Key \X Key :
                    /\ h.items[jk[1]] # nil /\ h.items[jk[1]] \notin D
                    /\ h.items[jk[2]] # nil /\ h.items[jk[2]] \notin D
                    /\ h.items[jk[2]] \in Reach(h.next, h.items[jk[1]])}

LEMMA Mapping ==
  /\ entry = EntryOf(heap, doomed) /\ entry' = EntryOf(heap', doomed')
  /\ newer = NewerOf(heap, doomed) /\ newer' = NewerOf(heap', doomed')
  BY DEF entry, newer, EntryOf, NewerOf, Cached

LEMMA EntryIs ==
  ASSUME NEW h, Filed(h), NEW D, NEW k \in Key
  PROVE  /\ EntryOf(h, D)[k] = IF h.items[k] # nil /\ h.items[k] \notin D
                               THEN [value |-> h.value[h.items[k]], exp |-> h.exp[h.items[k]]]
                               ELSE NoEntry
         /\ EntryOf(h, D)[k] # NoEntry <=> h.items[k] # nil /\ h.items[k] \notin D
  <1>1. EntryOf(h, D)[k] = IF h.items[k] # nil /\ h.items[k] \notin D
                           THEN [value |-> h.value[h.items[k]], exp |-> h.exp[h.items[k]]]
                           ELSE NoEntry
    BY DEF EntryOf
  <1>2. ASSUME h.items[k] # nil
        PROVE  [value |-> h.value[h.items[k]], exp |-> h.exp[h.items[k]]] \in Entry
    <2>1. h.value[h.items[k]] \in Value /\ h.exp[h.items[k]] \in Nat
      BY <1>2 DEF Filed, HeapType, Pointer
    <2>2. QED BY <2>1 DEF Entry
  <1>3. QED BY <1>1, <1>2

LEMMA NewerIs ==
  ASSUME NEW h, Filed(h), NEW r, Threaded(h, Live(h), r), NEW D
  PROVE  /\ NewerOf(h, D) \subseteq Key \X Key
         /\ \A j, k \in Key : <<j, k>> \in NewerOf(h, D) <=>
              /\ h.items[j] # nil /\ h.items[j] \notin D
              /\ h.items[k] # nil /\ h.items[k] \notin D
              /\ r[h.items[j]] < r[h.items[k]]
  <1>1. ASSUME NEW j \in Key, NEW k \in Key, h.items[j] # nil, h.items[k] # nil
        PROVE  h.items[k] \in Reach(h.next, h.items[j]) <=> r[h.items[j]] < r[h.items[k]]
    <2>1. h.items[j] \in Live(h) /\ h.items[k] \in Live(h) /\ h \in HeapType
      BY <1>1, LiveIs DEF Filed
    <2>2. QED BY <2>1, ReachIs
  <1>2. QED BY <1>1 DEF NewerOf

LEMMA SamePairs ==
  ASSUME NEW A \in SUBSET (Key \X Key), NEW B \in SUBSET (Key \X Key),
         \A j, k \in Key : <<j, k>> \in A <=> <<j, k>> \in B
  PROVE  A = B
  OBVIOUS

LEMMA WithoutIs ==
  ASSUME NEW o \in SUBSET (Key \X Key), NEW K
  PROVE  /\ Lru!Without(o, K) \in SUBSET (Key \X Key)
         /\ \A i, j \in Key : <<i, j>> \in Lru!Without(o, K) <=> <<i, j>> \in o /\ i \notin K /\ j \notin K
  BY DEF Lru!Without

LEMMA TouchedIs ==
  ASSUME NEW o \in SUBSET (Key \X Key), NEW k \in Key, NEW P \in SUBSET Key
  PROVE  /\ Lru!Touched(o, k, P) \in SUBSET (Key \X Key)
         /\ \A i, j \in Key : <<i, j>> \in Lru!Touched(o, k, P) <=>
               \/ i = k /\ j \in P /\ j # k
               \/ <<i, j>> \in o /\ i # k /\ j # k
  BY DEF Lru!Touched, Lru!Without

-----------------------------------------------------------------------------
(* The invariant, and the step of LruCache for each step of LinkedCache.   *)

CacheInv ==
  /\ now \in Nat /\ ret \in Value \cup {NoValue}
  /\ Filed(heap) /\ heap.size <= MaxSize
  /\ \E r : Threaded(heap, Live(heap), r)
  /\ doomed \subseteq Live(heap)

LEMMA EmptyIs ==
  /\ Filed(Empty) /\ Live(Empty) = {} /\ Empty.size = 0
  /\ \E r : Threaded(Empty, Live(Empty), r)
  /\ \A D : EntryOf(Empty, D) = [k \in Key |-> NoEntry] /\ NewerOf(Empty, D) = {}
  <1>1. /\ Empty.items = [k \in Key |-> nil] /\ Empty.head = nil /\ Empty.tail = nil
        /\ Empty.size = 0 /\ Empty.prev = [n \in Node |-> nil] /\ Empty.next = [n \in Node |-> nil]
    BY DEF Empty
  <1>2. Empty \in HeapType
    BY DEF Empty, HeapType, Pointer
  <1>3. Live(Empty) = {}
    BY <1>1 DEF Live
  <1>4. Filed(Empty)
    BY <1>1, <1>2, <1>3, FS_EmptySet DEF Filed
  <1>5. Threaded(Empty, Live(Empty), [n \in Node |-> 0])
    BY <1>1, <1>3 DEF Threaded, Ranks, First, Last
  <1>6. \A D : EntryOf(Empty, D) = [k \in Key |-> NoEntry] /\ NewerOf(Empty, D) = {}
    BY <1>1 DEF EntryOf, NewerOf
  <1>7. QED BY <1>1, <1>3, <1>4, <1>5, <1>6

LEMMA CacheInitInv == CacheInit => CacheInv /\ Lru!Init
  <1> SUFFICES ASSUME CacheInit PROVE CacheInv /\ Lru!Init
    OBVIOUS
  <1>1. CacheInv
    BY EmptyIs DEF CacheInit, CacheInv
  <1>2. Lru!Init
    BY EmptyIs, Mapping DEF CacheInit, Lru!Init
  <1>3. QED BY <1>1, <1>2

(* What the map says of a key is what the heap says of its entry. *)
LEMMA MapIs ==
  ASSUME CacheInv
  PROVE  /\ \A k \in Key : entry[k] # NoEntry <=> heap.items[k] # nil /\ heap.items[k] \notin doomed
         /\ \A k \in Key : heap.items[k] # nil /\ heap.items[k] \notin doomed =>
              entry[k] = [value |-> heap.value[heap.items[k]], exp |-> heap.exp[heap.items[k]]]
         /\ entry \in [Key -> Entry \cup {NoEntry}]
         /\ newer \in SUBSET (Key \X Key)
  <1>1. Filed(heap)
    BY DEF CacheInv
  <1>2. ASSUME NEW k \in Key
        PROVE  /\ entry[k] # NoEntry <=> heap.items[k] # nil /\ heap.items[k] \notin doomed
               /\ heap.items[k] # nil /\ heap.items[k] \notin doomed =>
                  entry[k] = [value |-> heap.value[heap.items[k]], exp |-> heap.exp[heap.items[k]]]
    BY <1>1, Mapping, EntryIs
  <1>3. ASSUME NEW k \in Key, heap.items[k] # nil
        PROVE  [value |-> heap.value[heap.items[k]], exp |-> heap.exp[heap.items[k]]] \in Entry
    <2>1. heap.value[heap.items[k]] \in Value /\ heap.exp[heap.items[k]] \in Nat
      BY <1>1, <1>3 DEF Filed, HeapType, Pointer
    <2>2. QED BY <2>1 DEF Entry
  <1>4. entry \in [Key -> Entry \cup {NoEntry}]
    BY <1>3, Mapping DEF EntryOf
  <1>5. newer \in SUBSET (Key \X Key)
    BY DEF newer
  <1>6. QED BY <1>2, <1>4, <1>5

LEMMA TickImplements == ASSUME CacheInv, Tick PROVE CacheInv' /\ Lru!Tick
  <1>1. CacheInv'
    BY DEF Tick, CacheInv
  <1>2. entry' = entry /\ newer' = newer
    BY Mapping DEF Tick
  <1>3. QED BY <1>1, <1>2 DEF Tick, Lru!Tick

LEMMA FlushImplements == ASSUME CacheInv, Flush PROVE CacheInv' /\ Lru!Flush
  <1>1. CacheInv'
    BY EmptyIs DEF Flush, Does, CacheInv
  <1>2. entry' = [k \in Key |-> NoEntry] /\ newer' = {}
    BY EmptyIs, Mapping DEF Flush, Does
  <1>3. newer \in SUBSET (Key \X Key)
    BY MapIs
  <1>4. Lru!Without(newer, Key) = {}
    BY <1>3 DEF Lru!Without
  <1>5. QED BY <1>1, <1>2, <1>4 DEF Flush, Does, Lru!Flush, Lru!Drop

LEMMA GetMissImplements ==
  ASSUME CacheInv, NEW k \in Key, GetMiss(k) PROVE CacheInv' /\ Lru!GetMiss(k)
  <1>1. CacheInv'
    BY DEF GetMiss, Does, CacheInv
  <1>2. entry' = entry /\ newer' = newer
    BY Mapping DEF GetMiss, Does
  <1>3. entry[k] = NoEntry
    BY MapIs DEF GetMiss
  <1>4. QED BY <1>1, <1>2, <1>3 DEF GetMiss, Does, Lru!GetMiss

(* The map without one more entry. *)
LEMMA RemoveMaps ==
  ASSUME NEW h, Filed(h), NEW r, Threaded(h, Live(h), r), NEW e \in Live(h), NEW D
  PROVE  LET u == remove(h, e)
             C == D \ {e}
         IN  /\ EntryOf(u, C) = [k \in Key |-> IF h.items[k] = e THEN NoEntry ELSE EntryOf(h, D)[k]]
             /\ NewerOf(u, C) \in SUBSET (Key \X Key)
             /\ \A j, k \in Key : <<j, k>> \in NewerOf(u, C) <=>
                  <<j, k>> \in NewerOf(h, D) /\ h.items[j] # e /\ h.items[k] # e
  <1> DEFINE u == remove(h, e)
             C == D \ {e}
  <1>1. /\ Filed(u) /\ Threaded(u, Live(u), r) /\ Live(u) = Live(h) \ {e}
        /\ \A k \in Key : u.items[k] = IF h.items[k] = e THEN nil ELSE h.items[k]
        /\ \A d \in Live(u) : u.value[d] = h.value[d] /\ u.exp[d] = h.exp[d]
    BY RemoveIs
  <1> HIDE DEF u
  <1>2. ASSUME NEW k \in Key
        PROVE  EntryOf(u, C)[k] = IF h.items[k] = e THEN NoEntry ELSE EntryOf(h, D)[k]
    <2>1. CASE h.items[k] = e
      BY <1>1, <2>1 DEF EntryOf
    <2>2. CASE h.items[k] # e
      <3>1. u.items[k] = h.items[k]
        BY <1>1, <2>2
      <3>2. h.items[k] # nil => h.items[k] \in Live(u)
        BY <1>1, <2>2, LiveIs DEF Filed
      <3>3. h.items[k] # nil => u.value[u.items[k]] = h.value[h.items[k]] /\ u.exp[u.items[k]] = h.exp[h.items[k]]
        BY <1>1, <3>1, <3>2
      <3>4. h.items[k] \notin C <=> h.items[k] \notin D
        BY <2>2
      <3> HIDE DEF C
      <3>5. QED BY <2>2, <3>1, <3>3, <3>4 DEF EntryOf
    <2>3. QED BY <2>1, <2>2
  <1>3. ASSUME NEW j \in Key, NEW k \in Key
        PROVE  <<j, k>> \in NewerOf(u, C) <=>
                 <<j, k>> \in NewerOf(h, D) /\ h.items[j] # e /\ h.items[k] # e
    <2>1. <<j, k>> \in NewerOf(u, C) <=>
            /\ u.items[j] # nil /\ u.items[j] \notin C
            /\ u.items[k] # nil /\ u.items[k] \notin C
            /\ r[u.items[j]] < r[u.items[k]]
      <3> HIDE DEF C
      <3>1. QED BY <1>1, NewerIs
    <2>2. <<j, k>> \in NewerOf(h, D) <=>
            /\ h.items[j] # nil /\ h.items[j] \notin D
            /\ h.items[k] # nil /\ h.items[k] \notin D
            /\ r[h.items[j]] < r[h.items[k]]
      BY NewerIs
    <2>3. QED BY <1>1, <2>1, <2>2
  <1>4. NewerOf(u, C) \in SUBSET (Key \X Key)
    BY <1>1, NewerIs
  <1>5. EntryOf(u, C) = [k \in Key |-> IF h.items[k] = e THEN NoEntry ELSE EntryOf(h, D)[k]]
    BY <1>2 DEF EntryOf
  <1>6. QED BY <1>3, <1>4, <1>5 DEF u

LEMMA GetExpiredImplements ==
  ASSUME CacheInv, NEW k \in Key, GetExpired(k) PROVE CacheInv' /\ Lru!GetExpired(k)
  <1> DEFINE e == heap.items[k]
  <1>1. PICK r : Threaded(heap, Live(heap), r)
    BY DEF CacheInv
  <1>2. e # nil /\ ~Fresh(e) /\ doomed = {} /\ heap' = remove(heap, e) /\ ret' = NoValue
        /\ now' = now /\ doomed' = {}
    BY DEF GetExpired, Does
  <1>3. Filed(heap) /\ e \in Live(heap)
    BY <1>2, LiveIs DEF CacheInv, Filed
  <1>4. \A j \in Key : heap.items[j] = e <=> j = k
    BY <1>2, <1>3 DEF Filed
  <1>5. /\ Filed(heap') /\ Threaded(heap', Live(heap'), r) /\ heap'.size <= MaxSize
    <2>1. Filed(heap') /\ Threaded(heap', Live(heap'), r) /\ Live(heap') = Live(heap) \ {e}
      BY <1>1, <1>2, <1>3, RemoveIs
    <2>2. heap'.size <= heap.size /\ heap'.size \in Nat /\ heap.size \in Nat
      BY <1>3, <2>1, FS_Subset, FS_CardinalityType DEF Filed
    <2>3. QED BY <2>1, <2>2 DEF CacheInv
  <1>6. CacheInv'
    BY <1>2, <1>5 DEF CacheInv
  <1>7. /\ entry' = [j \in Key |-> IF j \in {k} THEN NoEntry ELSE entry[j]]
        /\ newer' \in SUBSET (Key \X Key)
        /\ \A i, j \in Key : <<i, j>> \in newer' <=> <<i, j>> \in newer /\ i # k /\ j # k
    <2>1. doomed' = doomed \ {e}
      BY <1>2
    <2> HIDE DEF e
    <2>2. entry' = EntryOf(remove(heap, e), doomed \ {e}) /\ newer' = NewerOf(remove(heap, e), doomed \ {e})
          /\ entry = EntryOf(heap, doomed) /\ newer = NewerOf(heap, doomed)
      BY <1>2, <2>1, Mapping
    <2>3. /\ entry' = [j \in Key |-> IF heap.items[j] = e THEN NoEntry ELSE entry[j]]
          /\ newer' \in SUBSET (Key \X Key)
          /\ \A i, j \in Key : <<i, j>> \in newer' <=>
               <<i, j>> \in newer /\ heap.items[i] # e /\ heap.items[j] # e
      BY <1>1, <1>3, <2>2, RemoveMaps
    <2>4. QED BY <1>4, <2>3
  <1>8. newer' = Lru!Without(newer, {k})
    <2>1. newer \in SUBSET (Key \X Key)
      BY MapIs
    <2>2. /\ Lru!Without(newer, {k}) \in SUBSET (Key \X Key)
          /\ \A i, j \in Key : <<i, j>> \in newer' <=> <<i, j>> \in Lru!Without(newer, {k})
      BY <1>7, <2>1, WithoutIs
    <2>3. QED BY <1>7, <2>2, SamePairs
  <1>9. entry[k] # NoEntry /\ ~Lru!Fresh(entry[k])
    BY <1>2, MapIs DEF Fresh, Lru!Fresh
  <1>10. QED BY <1>2, <1>6, <1>7, <1>8, <1>9 DEF Lru!GetExpired, Lru!Drop

LEMMA RemoveListedImplements ==
  ASSUME CacheInv, RemoveListed PROVE CacheInv' /\ UNCHANGED Lru!vars
  <1>1. PICK r : Threaded(heap, Live(heap), r)
    BY DEF CacheInv
  <1>2. PICK e \in doomed : heap' = remove(heap, e) /\ doomed' = doomed \ {e} /\ UNCHANGED <<now, ret>>
    BY DEF RemoveListed
  <1>3. Filed(heap) /\ e \in Live(heap) /\ doomed \subseteq Live(heap)
    BY <1>2 DEF CacheInv
  <1>4. Filed(heap') /\ Threaded(heap', Live(heap'), r) /\ Live(heap') = Live(heap) \ {e}
    BY <1>1, <1>2, <1>3, RemoveIs
  <1>5. heap'.size <= MaxSize
    <2>1. heap'.size <= heap.size /\ heap'.size \in Nat /\ heap.size \in Nat
      BY <1>3, <1>4, FS_Subset, FS_CardinalityType DEF Filed
    <2>2. QED BY <2>1 DEF CacheInv
  <1>6. CacheInv'
    BY <1>2, <1>3, <1>4, <1>5 DEF CacheInv
  <1>7. /\ entry' = [k \in Key |-> IF heap.items[k] = e THEN NoEntry ELSE entry[k]]
        /\ newer' \in SUBSET (Key \X Key)
        /\ \A j, k \in Key : <<j, k>> \in newer' <=>
             <<j, k>> \in newer /\ heap.items[j] # e /\ heap.items[k] # e
    BY <1>1, <1>2, <1>3, Mapping, RemoveMaps
  <1>8. entry' = entry
    <2>1. \A k \in Key : heap.items[k] = e => entry[k] = NoEntry
      BY <1>2, MapIs
    <2>2. entry \in [Key -> Entry \cup {NoEntry}]
      BY MapIs
    <2>3. QED BY <1>7, <2>1, <2>2
  <1>9. newer' = newer
    <2>1. \A j, k \in Key : <<j, k>> \in newer => heap.items[j] # e /\ heap.items[k] # e
      BY <1>1, <1>2, <1>3, Mapping, NewerIs
    <2>2. newer \in SUBSET (Key \X Key)
      BY MapIs
    <2>3. QED BY <1>7, <2>1, <2>2, SamePairs
  <1>10. QED BY <1>2, <1>6, <1>8, <1>9 DEF Lru!vars

LEMMA InvalidateImplements ==
  ASSUME CacheInv, NEW p \in Path, InvalidateByPath(p) PROVE CacheInv' /\ Lru!InvalidateByPath(p)
  <1>1. PICK r : Threaded(heap, Live(heap), r)
    BY DEF CacheInv
  <1>2. /\ doomed = {} /\ doomed' = {e \in Live(heap) : p \in pathsOf[heap.value[e]]}
        /\ ret' = NoValue /\ now' = now /\ heap' = heap
    BY DEF InvalidateByPath
  <1>3. CacheInv'
    BY <1>2 DEF CacheInv
  <1> DEFINE K == {k \in Key : Lru!Lists(entry[k], p)}
  <1>4. Filed(heap)
    BY DEF CacheInv
  <1>5. \A k \in Key : k \in K <=> heap.items[k] # nil /\ heap.items[k] \in doomed'
    <2>1. ASSUME NEW k \in Key
          PROVE  Lru!Lists(entry[k], p) <=> heap.items[k] # nil /\ heap.items[k] \in doomed'
      <3>1. CASE heap.items[k] = nil
        BY <1>2, <3>1, MapIs DEF Lru!Lists
      <3>2. CASE heap.items[k] # nil
        <4>1. heap.items[k] \in Live(heap)
          BY <1>4, <3>2, LiveIs DEF Filed
        <4>2. entry[k] # NoEntry /\ entry[k].value = heap.value[heap.items[k]]
          BY <1>2, <3>2, MapIs
        <4>3. QED BY <1>2, <3>2, <4>1, <4>2 DEF Lru!Lists
      <3>3. QED BY <3>1, <3>2
    <2>2. QED BY <2>1
  <1> HIDE DEF K
  <1>6. entry' = [k \in Key |-> IF k \in K THEN NoEntry ELSE entry[k]]
    BY <1>2, <1>5, Mapping DEF EntryOf
  <1>7. newer' = Lru!Without(newer, K)
    <2>1. newer \in SUBSET (Key \X Key)
      BY MapIs
    <2>2. /\ newer' \in SUBSET (Key \X Key)
          /\ \A j, k \in Key : <<j, k>> \in newer' <=> <<j, k>> \in newer /\ j \notin K /\ k \notin K
      BY <1>2, <1>5, Mapping DEF NewerOf
    <2>3. /\ Lru!Without(newer, K) \in SUBSET (Key \X Key)
          /\ \A j, k \in Key : <<j, k>> \in newer' <=> <<j, k>> \in Lru!Without(newer, K)
      BY <2>1, <2>2, WithoutIs
    <2>4. QED BY <2>2, <2>3, SamePairs
  <1>8. QED BY <1>2, <1>3, <1>6, <1>7 DEF Lru!InvalidateByPath, Lru!Drop, K

(* The order in which k, whose entry is now the first, has just been used. *)
LEMMA FrontMaps ==
  ASSUME NEW h, Filed(h), NEW r, Threaded(h, Live(h), r),
         NEW u, Filed(u), NEW s, Threaded(u, Live(u), s),
         NEW k \in Key, u.items[k] # nil,
         \A j \in Key \ {k} : u.items[j] = h.items[j],
         \A d \in Live(h) \ {u.items[k]} : s[u.items[k]] < s[d] /\ s[d] = r[d]
  PROVE  NewerOf(u, {}) = Lru!Touched(NewerOf(h, {}), k, Lru!Present(EntryOf(h, {})))
  <1> DEFINE e == u.items[k]
             P == Lru!Present(EntryOf(h, {}))
             o == NewerOf(h, {})
             T == Lru!Touched(o, k, P)
  <1>1. P \in SUBSET Key /\ \A j \in Key : j \in P <=> h.items[j] # nil
    <2>1. ASSUME NEW j \in Key PROVE EntryOf(h, {})[j] # NoEntry <=> h.items[j] # nil
      <3> DEFINE none == {}
      <3> HIDE DEF none
      <3>1. EntryOf(h, none)[j] # NoEntry <=> h.items[j] # nil /\ h.items[j] \notin none
        BY EntryIs
      <3>2. QED BY <3>1 DEF none
    <2>2. QED BY <2>1 DEF Lru!Present
  <1>2. o \in SUBSET (Key \X Key)
    BY NewerIs
  <1> HIDE DEF P, o
  <1>3. /\ T \in SUBSET (Key \X Key)
        /\ \A i, j \in Key : <<i, j>> \in T <=>
             \/ i = k /\ j \in P /\ j # k
             \/ <<i, j>> \in o /\ i # k /\ j # k
    <2>1. P \in SUBSET Key
      BY <1>1
    <2>2. QED BY <1>2, <2>1, TouchedIs
  <1> HIDE DEF T
  <1>4. NewerOf(u, {}) \in SUBSET (Key \X Key)
    BY NewerIs
  <1>5. \A j \in Key \ {k} : /\ u.items[j] # e /\ u.items[j] = h.items[j]
                             /\ h.items[j] # nil => h.items[j] \in Live(h) \ {e}
    <2>1. ASSUME NEW j \in Key \ {k}, u.items[j] = e PROVE FALSE
      BY <2>1 DEF Filed
    <2>2. QED BY <2>1, LiveIs DEF Filed
  <1>6. e \in Node /\ r \in [Node -> Int] /\ s \in [Node -> Int] /\ Live(h) \subseteq Node
    BY LiveIs DEF Filed, HeapType, Pointer, Threaded, Ranks
  <1>7. ASSUME NEW i \in Key, NEW j \in Key
        PROVE  <<i, j>> \in NewerOf(u, {}) <=> <<i, j>> \in T
    <2>1. <<i, j>> \in NewerOf(u, {}) <=> /\ u.items[i] # nil /\ u.items[j] # nil
                                          /\ s[u.items[i]] < s[u.items[j]]
      BY NewerIs
    <2>2. <<i, j>> \in o <=> /\ h.items[i] # nil /\ h.items[j] # nil
                             /\ r[h.items[i]] < r[h.items[j]]
      BY NewerIs DEF o
    <2>3. CASE i = k /\ j = k
      BY <1>3, <1>6, <2>1, <2>3
    <2>4. CASE i = k /\ j # k
      <3>1. h.items[j] # nil => s[e] < s[u.items[j]]
        BY <1>5, <2>4
      <3>2. u.items[i] = e /\ e # nil /\ u.items[j] = h.items[j]
        BY <1>5, <2>4
      <3>3. <<i, j>> \in NewerOf(u, {}) <=> h.items[j] # nil
        BY <2>1, <3>1, <3>2
      <3>4. QED BY <1>1, <1>3, <2>4, <3>3
    <2>5. CASE i # k /\ j = k
      <3>1. h.items[i] # nil => s[e] < s[u.items[i]]
        BY <1>5, <2>5
      <3>2. QED BY <1>3, <1>5, <1>6, <2>1, <2>5, <3>1
    <2>6. CASE i # k /\ j # k
      <3>1. /\ h.items[i] # nil => s[u.items[i]] = r[h.items[i]]
            /\ h.items[j] # nil => s[u.items[j]] = r[h.items[j]]
        BY <1>5, <2>6
      <3>2. QED BY <1>3, <1>5, <2>1, <2>2, <2>6, <3>1
    <2>7. QED BY <2>3, <2>4, <2>5, <2>6
  <1>8. NewerOf(u, {}) = T
    BY <1>3, <1>4, <1>7, SamePairs
  <1>9. QED BY <1>8 DEF T, P, o

LEMMA GetHitImplements ==
  ASSUME CacheInv, NEW k \in Key, GetHit(k) PROVE CacheInv' /\ Lru!GetHit(k)
  <1> DEFINE e == heap.items[k]
  <1>1. PICK r : Threaded(heap, Live(heap), r)
    BY DEF CacheInv
  <1>2. /\ e # nil /\ Fresh(e) /\ doomed = {} /\ heap' = moveToFront(heap, e)
        /\ ret' = heap.value[e] /\ now' = now /\ doomed' = {}
    BY DEF GetHit, Does
  <1>3. Filed(heap) /\ e \in Live(heap)
    BY <1>2, LiveIs DEF CacheInv, Filed
  <1>4. /\ Filed(heap') /\ Live(heap') = Live(heap)
        /\ heap'.items = heap.items /\ heap'.value = heap.value /\ heap'.exp = heap.exp
        /\ \E s : /\ Threaded(heap', Live(heap'), s)
                  /\ \A d \in Live(heap) \ {e} : s[e] < s[d] /\ s[d] = r[d]
    BY <1>1, <1>2, <1>3, MoveIs
  <1>5. CacheInv'
    <2>1. heap.value[e] \in Value
      BY <1>3, FiledIs
    <2>2. heap'.size = heap.size
      BY <1>3, <1>4 DEF Filed
    <2>3. QED BY <1>2, <1>4, <2>1, <2>2 DEF CacheInv
  <1>6. entry' = entry
    BY <1>2, <1>4, Mapping DEF EntryOf
  <1>7. newer' = Lru!Touched(newer, k, Lru!Present(entry))
    <2>1. PICK s : /\ Threaded(heap', Live(heap'), s)
                   /\ \A d \in Live(heap) \ {e} : s[e] < s[d] /\ s[d] = r[d]
      BY <1>4
    <2>2. heap'.items[k] = e
      BY <1>4
    <2>3. NewerOf(heap', {}) = Lru!Touched(NewerOf(heap, {}), k, Lru!Present(EntryOf(heap, {})))
      BY <1>1, <1>2, <1>3, <1>4, <2>1, <2>2, FrontMaps
    <2>4. QED BY <1>2, <2>3, Mapping
  <1>8. entry[k] # NoEntry /\ entry[k].value = heap.value[e] /\ Lru!Fresh(entry[k])
    BY <1>2, MapIs DEF Fresh, Lru!Fresh
  <1>9. QED BY <1>2, <1>5, <1>6, <1>7, <1>8 DEF Lru!GetHit

LEMMA SetPresentImplements ==
  ASSUME CacheInv, NEW k \in Key, NEW v \in Value, SetPresent(k, v)
  PROVE  CacheInv' /\ Lru!SetRoom(k, v)
  <1> DEFINE e == heap.items[k]
             g == store(heap, e, v)
  <1>1. PICK r : Threaded(heap, Live(heap), r)
    BY DEF CacheInv
  <1>2. /\ e # nil /\ doomed = {} /\ heap' = moveToFront(g, e)
        /\ ret' = NoValue /\ now' = now /\ doomed' = {}
    BY DEF SetPresent, Does
  <1>3. Filed(heap) /\ e \in Live(heap) /\ now \in Nat
    BY <1>2, LiveIs DEF CacheInv, Filed
  <1>4. /\ Filed(g) /\ Live(g) = Live(heap) /\ Threaded(g, Live(g), r)
        /\ g.items = heap.items
        /\ g.value[e] = v /\ g.exp[e] = now + TTL
        /\ \A d \in Live(heap) \ {e} : g.value[d] = heap.value[d] /\ g.exp[d] = heap.exp[d]
    BY <1>1, <1>3, StoreIs
  <1> HIDE DEF g
  <1>5. /\ Filed(heap') /\ Live(heap') = Live(heap)
        /\ heap'.items = heap.items /\ heap'.value = g.value /\ heap'.exp = g.exp
        /\ \E s : /\ Threaded(heap', Live(heap'), s)
                  /\ \A d \in Live(heap) \ {e} : s[e] < s[d] /\ s[d] = r[d]
    <2>1. e \in Live(g)
      BY <1>3, <1>4
    <2> HIDE DEF e
    <2>2. QED BY <1>2, <1>4, <2>1, MoveIs
  <1>6. CacheInv'
    <2>1. heap'.size = heap.size
      BY <1>3, <1>5 DEF Filed
    <2>2. QED BY <1>2, <1>5, <2>1 DEF CacheInv
  <1>7. entry' = [entry EXCEPT ![k] = Lru!New(v)]
    <2>1. ASSUME NEW j \in Key PROVE entry'[j] = IF j = k THEN Lru!New(v) ELSE entry[j]
      <3>1. CASE j = k
        BY <1>2, <1>4, <1>5, <3>1, Mapping DEF EntryOf, Lru!New
      <3>2. CASE j # k
        <4>1. heap.items[j] # nil => heap.items[j] \in Live(heap) \ {e}
          BY <1>2, <1>3, <3>2, LiveIs DEF Filed
        <4>2. QED BY <1>2, <1>4, <1>5, <3>2, <4>1, Mapping DEF EntryOf
      <3>3. QED BY <3>1, <3>2
    <2>2. entry' = [j \in Key |-> entry'[j]] /\ entry \in [Key -> Entry \cup {NoEntry}]
      BY Mapping, MapIs DEF EntryOf
    <2>3. QED BY <2>1, <2>2
  <1>8. newer' = Lru!Touched(newer, k, Lru!Present(entry))
    <2>1. PICK s : /\ Threaded(heap', Live(heap'), s)
                   /\ \A d \in Live(heap) \ {e} : s[e] < s[d] /\ s[d] = r[d]
      BY <1>5
    <2>2. heap'.items[k] = e
      BY <1>5
    <2>3. NewerOf(heap', {}) = Lru!Touched(NewerOf(heap, {}), k, Lru!Present(EntryOf(heap, {})))
      BY <1>1, <1>2, <1>3, <1>5, <2>1, <2>2, FrontMaps
    <2>4. QED BY <1>2, <2>3, Mapping
  <1>9. entry[k] # NoEntry
    BY <1>2, MapIs
  <1>10. QED BY <1>2, <1>6, <1>7, <1>8, <1>9 DEF Lru!SetRoom

LEMMA SameCardinality == ASSUME NEW S PROVE Lru!Cardinality(S) = Cardinality(S)
  BY DEF Lru!Cardinality, Cardinality

(* Of the entries before a new one, the last is the one never used since.  *)
LEMMA SetNewImplements ==
  ASSUME CacheInv, NEW k \in Key, NEW v \in Value, SetNew(k, v)
  PROVE  CacheInv' /\ (Lru!SetRoom(k, v) \/ Lru!SetEvict(k, v))
  <1>1. PICK r : Threaded(heap, Live(heap), r)
    BY DEF CacheInv
  <1>2. PICK e \in Node \ Live(heap) :
          LET h == Insert(heap, k, e, v) IN
          Does(IF h.size > MaxSize THEN evict(h) ELSE h, NoValue)
    BY DEF SetNew
  <1> DEFINE g == Insert(heap, k, e, v)
  <1>3. /\ heap.items[k] = nil /\ doomed = {} /\ doomed' = {} /\ ret' = NoValue /\ now' = now
        /\ heap' = IF g.size > MaxSize THEN evict(g) ELSE g
    BY <1>2 DEF SetNew, Does
  <1>4. Filed(heap) /\ now \in Nat /\ heap.size \in Nat /\ heap.size <= MaxSize
        /\ Live(heap) \subseteq Node /\ e # nil
    BY LiveIs DEF CacheInv, Filed, HeapType
  <1>5. /\ Filed(g) /\ Live(g) = Live(heap) \cup {e} /\ g.size = heap.size + 1
        /\ \A j \in Key : g.items[j] = IF j = k THEN e ELSE heap.items[j]
        /\ g.value[e] = v /\ g.exp[e] = now + TTL
        /\ \A d \in Live(heap) : g.value[d] = heap.value[d] /\ g.exp[d] = heap.exp[d]
        /\ \E s : /\ Threaded(g, Live(g), s)
                  /\ \A d \in Live(heap) : s[e] < s[d] /\ s[d] = r[d]
    BY <1>1, <1>3, <1>4, InsertIs
  <1>6. PICK s : /\ Threaded(g, Live(g), s)
                 /\ \A d \in Live(heap) : s[e] < s[d] /\ s[d] = r[d]
    BY <1>5
  <1> HIDE DEF g
  <1>7. Filed(g) /\ Threaded(g, Live(g), s)
    BY <1>5, <1>6
  <1>8. \A j \in Key : heap.items[j] # nil => heap.items[j] \in Live(heap)
    BY <1>4, LiveIs DEF Filed
  <1>9. \A j \in Key : EntryOf(g, {})[j] = IF j = k THEN Lru!New(v) ELSE entry[j]
    <2>1. ASSUME NEW j \in Key PROVE EntryOf(g, {})[j] = IF j = k THEN Lru!New(v) ELSE entry[j]
      <3>1. CASE j = k
        BY <1>4, <1>5, <3>1 DEF EntryOf, Lru!New
      <3>2. CASE j # k
        <4>1. g.items[j] = heap.items[j]
          BY <1>5, <3>2
        <4>2. heap.items[j] # nil =>
                g.value[heap.items[j]] = heap.value[heap.items[j]] /\ g.exp[heap.items[j]] = heap.exp[heap.items[j]]
          BY <1>5, <1>8
        <4>3. QED BY <1>3, <3>2, <4>1, <4>2, Mapping DEF EntryOf
      <3>3. QED BY <3>1, <3>2
    <2>2. QED BY <2>1
  <1>10. NewerOf(g, {}) = Lru!Touched(newer, k, Lru!Present(entry))
    <2>1. /\ g.items[k] # nil
          /\ \A j \in Key \ {k} : g.items[j] = heap.items[j]
          /\ \A d \in Live(heap) \ {g.items[k]} : s[g.items[k]] < s[d] /\ s[d] = r[d]
      BY <1>4, <1>5, <1>6
    <2>2. Filed(heap)
      BY <1>4
    <2>3. NewerOf(g, {}) = Lru!Touched(NewerOf(heap, {}), k, Lru!Present(EntryOf(heap, {})))
      BY <1>1, <1>7, <2>1, <2>2, FrontMaps
    <2>4. QED BY <1>3, <2>3, Mapping
  <1>11. entry[k] = NoEntry /\ entry \in [Key -> Entry \cup {NoEntry}] /\ newer \in SUBSET (Key \X Key)
    BY <1>3, MapIs
  <1>12. /\ Lru!Present(entry) \in SUBSET Key
         /\ \A j \in Key : j \in Lru!Present(entry) <=> heap.items[j] # nil
    BY <1>3, MapIs DEF Lru!Present
  <1>13. Cardinality(Lru!Present(entry)) = heap.size
    <2>1. Lru!Present(entry) = {j \in Key : heap.items[j] # nil}
      BY <1>12
    <2>2. QED BY <1>4, <2>1, KeysAreEntries
  <1>14. CASE g.size <= MaxSize
    <2>1. heap' = g
      BY <1>3, <1>4, <1>5, <1>14
    <2>2. CacheInv'
      BY <1>3, <1>4, <1>5, <1>6, <1>14, <2>1 DEF CacheInv
    <2>3. entry' = [entry EXCEPT ![k] = Lru!New(v)]
      <3>1. entry' = EntryOf(g, {})
        BY <1>3, <2>1, Mapping
      <3>2. EntryOf(g, {}) = [j \in Key |-> EntryOf(g, {})[j]]
        BY DEF EntryOf
      <3>3. QED BY <1>9, <1>11, <3>1, <3>2
    <2>4. newer' = Lru!Touched(newer, k, Lru!Present(entry))
      BY <1>3, <1>10, <2>1, Mapping
    <2>5. Lru!Cardinality(Lru!Present(entry)) < MaxSize
      BY <1>4, <1>5, <1>13, <1>14, SameCardinality
    <2>6. QED BY <1>3, <2>2, <2>3, <2>4, <2>5 DEF Lru!SetRoom
  <1>15. CASE g.size > MaxSize
    <2> DEFINE t == g.tail
               old == heap.key[t]
               u == remove(g, t)
               P == Lru!Present(entry)
    <2>1. heap.size = MaxSize /\ Live(heap) # {}
      <3>1. heap.size = MaxSize
        BY <1>4, <1>5, <1>15
      <3>2. QED BY <1>4, <3>1, FS_EmptySet DEF Filed
    <2>2. t \in Live(g) /\ t # nil /\ \A d \in Live(g) : s[d] <= s[t]
      BY <1>4, <1>5, <1>6 DEF Threaded, Last
    <2>3. t \in Live(heap) /\ t # e
      <3>1. PICK d \in Live(heap) : TRUE
        BY <2>1
      <3>2. s[e] < s[d] /\ s[d] <= s[t] /\ s \in [Node -> Int] /\ d \in Node
        BY <1>4, <1>5, <1>6, <2>2 DEF Threaded, Ranks
      <3>3. t # e
        BY <3>2
      <3>4. QED BY <1>5, <2>2, <3>3
    <2>4. old \in Key /\ heap.items[old] = t /\ \A j \in Key : heap.items[j] = t => j = old
      BY <1>4, <2>3, FiledIs
    <2>5. heap' = u
      BY <1>3, <1>15, <2>2 DEF evict
    <2>6. Filed(u) /\ Live(u) = Live(g) \ {t} /\ Threaded(u, Live(u), s)
      <3>1. t \in Live(g)
        BY <2>2
      <3> HIDE DEF t
      <3>2. QED BY <1>7, <3>1, RemoveIs
    <2>7. u.size <= MaxSize
      <3> HIDE DEF t, u
      <3>0. /\ IsFiniteSet(Live(g)) /\ Cardinality(Live(g)) = g.size
            /\ u.size = Cardinality(Live(u)) /\ Live(u) = Live(g) \ {t} /\ t \in Live(g)
        BY <1>7, <2>2, <2>6 DEF Filed
      <3>1. u.size = Cardinality(Live(g)) - 1 /\ Cardinality(Live(g)) = g.size
        <4> DEFINE N == Live(g)
        <4> HIDE DEF N
        <4>1. IsFiniteSet(N) /\ t \in N
          BY <3>0 DEF N
        <4>2. Cardinality(N \ {t}) = Cardinality(N) - 1
          BY <4>1, FS_RemoveElement
        <4>3. QED BY <3>0, <4>2 DEF N
      <3>2. QED BY <1>4, <1>5, <3>1
    <2> DEFINE none == {}
    <2>8. none \ {t} = none
      OBVIOUS
    <2> HIDE DEF none
    <2>9. /\ EntryOf(u, none) = [j \in Key |-> IF g.items[j] = t THEN NoEntry ELSE EntryOf(g, none)[j]]
          /\ NewerOf(u, none) \in SUBSET (Key \X Key)
          /\ \A i, j \in Key : <<i, j>> \in NewerOf(u, none) <=>
               <<i, j>> \in NewerOf(g, none) /\ g.items[i] # t /\ g.items[j] # t
      <3>1. t \in Live(g)
        BY <2>2
      <3> HIDE DEF t
      <3>2. LET C == none \ {t} IN
            /\ EntryOf(remove(g, t), C) = [j \in Key |-> IF g.items[j] = t THEN NoEntry ELSE EntryOf(g, none)[j]]
            /\ NewerOf(remove(g, t), C) \in SUBSET (Key \X Key)
            /\ \A i, j \in Key : <<i, j>> \in NewerOf(remove(g, t), C) <=>
                 <<i, j>> \in NewerOf(g, none) /\ g.items[i] # t /\ g.items[j] # t
        BY <1>7, <3>1, RemoveMaps
      <3>3. QED BY <2>8, <3>2
    <2> HIDE DEF t, old, u, P
    <2>10. CacheInv'
      BY <1>3, <1>4, <2>5, <2>6, <2>7 DEF CacheInv
    <2>11. \A j \in Key : g.items[j] = t <=> j = old
      BY <1>3, <1>5, <2>2, <2>3, <2>4
    <2>12. old # k /\ old \in P
      BY <1>3, <1>12, <2>2, <2>4 DEF P
    <2>13. entry' = [entry EXCEPT ![k] = Lru!New(v), ![old] = NoEntry]
      <3>1. entry' = EntryOf(u, none)
        BY <1>3, <2>5, Mapping DEF none
      <3>2. \A j \in Key : EntryOf(g, none)[j] = IF j = k THEN Lru!New(v) ELSE entry[j]
        BY <1>9 DEF none
      <3>3. QED BY <1>11, <2>9, <2>11, <2>12, <3>1, <3>2
    <2>14. newer' = Lru!Touched(Lru!Without(newer, {old}), k, P \ {old})
      <3> DEFINE W == Lru!Without(newer, {old})
                 Q == P \ {old}
                 T == Lru!Touched(W, k, Q)
      <3>1. /\ W \in SUBSET (Key \X Key)
            /\ \A i, j \in Key : <<i, j>> \in W <=> <<i, j>> \in newer /\ i # old /\ j # old
        BY <1>11 DEF Lru!Without
      <3>2. Q \in SUBSET Key
        BY <1>12 DEF P
      <3> HIDE DEF W, Q
      <3>3. /\ T \in SUBSET (Key \X Key)
            /\ \A i, j \in Key : <<i, j>> \in T <=>
                 \/ i = k /\ j \in Q /\ j # k
                 \/ <<i, j>> \in W /\ i # k /\ j # k
        BY <3>1, <3>2, TouchedIs
      <3>4. \A i, j \in Key : <<i, j>> \in NewerOf(g, none) <=>
                 \/ i = k /\ j \in P /\ j # k
                 \/ <<i, j>> \in newer /\ i # k /\ j # k
        <4>1. P \in SUBSET Key /\ newer \in SUBSET (Key \X Key)
          BY <1>11, <1>12 DEF P
        <4>2. NewerOf(g, none) = Lru!Touched(newer, k, P)
          BY <1>10 DEF none, P
        <4>3. \A i, j \in Key : <<i, j>> \in Lru!Touched(newer, k, P) <=>
                 \/ i = k /\ j \in P /\ j # k
                 \/ <<i, j>> \in newer /\ i # k /\ j # k
          BY <4>1, TouchedIs
        <4>4. QED BY <4>2, <4>3
      <3>5. newer' = NewerOf(u, none)
        BY <1>3, <2>5, Mapping DEF none
      <3> HIDE DEF T
      <3>6. \A i, j \in Key : <<i, j>> \in newer' <=> <<i, j>> \in T
        BY <2>9, <2>11, <2>12, <3>1, <3>3, <3>4, <3>5 DEF Q
      <3>7. newer' = T
        BY <2>9, <3>3, <3>5, <3>6, SamePairs
      <3>8. QED BY <3>7 DEF T, W, Q
    <2>15. Lru!IsOldest(old)
      <3>1. ASSUME NEW j \in P \ {old} PROVE <<j, old>> \in newer
        <4>1. j \in Key /\ heap.items[j] # nil /\ heap.items[j] # t /\ heap.items[j] \in Live(heap)
          BY <1>8, <1>12, <2>4, <3>1 DEF P
        <4>2. r[heap.items[j]] <= r[t] /\ r[heap.items[j]] # r[t] /\ r[t] \in Int /\ r[heap.items[j]] \in Int
          BY <1>1, <1>5, <1>6, <2>2, <2>3, <4>1 DEF Threaded, Ranks
        <4>3. heap.items[old] = t /\ t # nil
          BY <2>2, <2>4
        <4>4. <<j, old>> \in NewerOf(heap, doomed)
          BY <1>1, <1>3, <1>4, <2>4, <4>1, <4>2, <4>3, NewerIs
        <4>5. QED BY <4>4, Mapping
      <3>2. QED BY <3>1 DEF Lru!IsOldest, P
    <2>16. Lru!SetEvict(k, v)
      <3>1. Lru!Cardinality(Lru!Present(entry)) = MaxSize
        BY <1>13, <2>1, SameCardinality
      <3>2. QED BY <1>3, <1>11, <2>12, <2>13, <2>14, <2>15, <3>1 DEF Lru!SetEvict, P
    <2>17. QED BY <2>10, <2>16
  <1>16. QED BY <1>4, <1>5, <1>14, <1>15

LEMMA CacheNextImplements == CacheInv /\ [CacheNext]_cacheVars => CacheInv' /\ [Lru!Next]_Lru!vars
  <1> SUFFICES ASSUME CacheInv, [CacheNext]_cacheVars
               PROVE  CacheInv' /\ [Lru!Next]_Lru!vars
    OBVIOUS
  <1>1. CASE Tick
    BY <1>1, TickImplements DEF Lru!Next
  <1>2. CASE Flush
    BY <1>2, FlushImplements DEF Lru!Next
  <1>3. CASE RemoveListed
    BY <1>3, RemoveListedImplements
  <1>4. ASSUME NEW k \in Key, GetHit(k) PROVE CacheInv' /\ [Lru!Next]_Lru!vars
    BY <1>4, GetHitImplements DEF Lru!Next
  <1>5. ASSUME NEW k \in Key, GetMiss(k) PROVE CacheInv' /\ [Lru!Next]_Lru!vars
    BY <1>5, GetMissImplements DEF Lru!Next
  <1>6. ASSUME NEW k \in Key, GetExpired(k) PROVE CacheInv' /\ [Lru!Next]_Lru!vars
    BY <1>6, GetExpiredImplements DEF Lru!Next
  <1>7. ASSUME NEW k \in Key, NEW v \in Value, SetPresent(k, v)
        PROVE  CacheInv' /\ [Lru!Next]_Lru!vars
    BY <1>7, SetPresentImplements DEF Lru!Next
  <1>8. ASSUME NEW k \in Key, NEW v \in Value, SetNew(k, v)
        PROVE  CacheInv' /\ [Lru!Next]_Lru!vars
    BY <1>8, SetNewImplements DEF Lru!Next
  <1>9. ASSUME NEW p \in Path, InvalidateByPath(p) PROVE CacheInv' /\ [Lru!Next]_Lru!vars
    BY <1>9, InvalidateImplements DEF Lru!Next
  <1>10. CASE UNCHANGED cacheVars
    <2>1. CacheInv'
      BY <1>10 DEF cacheVars, CacheInv
    <2>2. UNCHANGED Lru!vars
      BY <1>10, Mapping DEF cacheVars, Lru!vars
    <2>3. QED BY <2>1, <2>2
  <1>11. QED BY <1>1, <1>2, <1>3, <1>4, <1>5, <1>6, <1>7, <1>8, <1>9, <1>10 DEF CacheNext

(* cache.go is the LRU map it promises to be: each hit, miss, expiry,      *)
(* eviction, invalidation and flush of the linked list answers and forgets *)
(* as LruCache says.                                                       *)
THEOREM ListImplementsLru == CacheSpec => ImplementsLru
  BY CacheInitInv, CacheNextImplements, PTL DEF CacheSpec, ImplementsLru, Lru!Spec

-----------------------------------------------------------------------------
(* The invariant implies the one TLC checks.                               *)

LEMMA InvIsWellFormed == CacheInv => WellFormed
  <1> SUFFICES ASSUME CacheInv PROVE WellFormed
    OBVIOUS
  <1> DEFINE L == Live(heap)
  <1>1. Filed(heap) /\ L \subseteq Node /\ heap \in HeapType
    BY LiveIs DEF CacheInv, Filed
  <1>2. PICK r : Threaded(heap, L, r)
    BY DEF CacheInv
  <1>3. Ranks(L, r) /\ First(L, r, heap.head) /\ Last(L, r, heap.tail)
    BY <1>2 DEF Threaded
  <1>4. \A e \in L : RightAfter(L, r, e, heap.next[e]) /\ RightBefore(L, r, e, heap.prev[e])
    BY <1>2 DEF Threaded
  <1>5. \A e \in Node \ L : heap.next[e] = nil /\ heap.prev[e] = nil
    BY <1>2 DEF Threaded
  <1>6. \A e \in L : /\ Reach(heap.next, e) = {m \in L : r[e] < r[m]}
                    /\ Reach(heap.prev, e) = {m \in L : r[m] < r[e]}
    BY <1>1, <1>2, ReachIs
  <1> HIDE DEF L
  <1>7. /\ \A k \in Key : heap.items[k] # nil => heap.key[heap.items[k]] = k
        /\ heap.size = Cardinality(L) /\ heap.size <= MaxSize
    BY <1>1 DEF CacheInv, Filed, L
  <1>8. (heap.head = nil <=> L = {}) /\ (heap.tail = nil <=> L = {})
    BY <1>1, <1>3 DEF First, Last
  <1>9. ASSUME L # {}
        PROVE  /\ L = {heap.head} \cup Reach(heap.next, heap.head)
               /\ L = {heap.tail} \cup Reach(heap.prev, heap.tail)
               /\ heap.prev[heap.head] = nil /\ heap.next[heap.tail] = nil
    <2>1. heap.head \in L /\ \A m \in L : r[heap.head] <= r[m]
      BY <1>3, <1>9 DEF First
    <2>2. heap.tail \in L /\ \A m \in L : r[m] <= r[heap.tail]
      BY <1>3, <1>9 DEF Last
    <2>3. L = {heap.head} \cup Reach(heap.next, heap.head)
      BY <1>3, <1>6, <2>1 DEF Ranks
    <2>4. L = {heap.tail} \cup Reach(heap.prev, heap.tail)
      BY <1>3, <1>6, <2>2 DEF Ranks
    <2>5. heap.prev[heap.head] = nil
      BY <1>3, <1>4, <2>1 DEF RightBefore, Ranks
    <2>6. heap.next[heap.tail] = nil
      BY <1>3, <1>4, <2>2 DEF RightAfter, Ranks
    <2>7. QED BY <2>3, <2>4, <2>5, <2>6
  <1>10. ASSUME NEW e \in L
         PROVE  /\ e \notin Reach(heap.next, e)
                /\ heap.next[e] # nil => heap.prev[heap.next[e]] = e
    <2>1. e \notin Reach(heap.next, e)
      BY <1>3, <1>6 DEF Ranks
    <2>2. ASSUME heap.next[e] # nil PROVE heap.prev[heap.next[e]] = e
      BY <1>1, <1>3, <1>4, <2>2 DEF RightAfter, RightBefore, Ranks
    <2>3. QED BY <2>1, <2>2
  <1>11. QED BY <1>1, <1>5, <1>7, <1>8, <1>9, <1>10 DEF WellFormed, L

(* Map and list hold the same entries, from either end, without a cycle,   *)
(* and size counts them, after any sequence of operations.                 *)
THEOREM ListIsWellFormed == CacheSpec => []WellFormed
  <1>1. CacheInit => CacheInv
    BY CacheInitInv
  <1>2. CacheInv /\ [CacheNext]_cacheVars => CacheInv'
    BY CacheNextImplements
  <1>3. QED BY <1>1, <1>2, InvIsWellFormed, PTL DEF CacheSpec

-----------------------------------------------------------------------------
(* What LruCache promises, so that cache.go keeps it too.  entry and newer *)
(* stand for themselves here: nothing is said of the heap they come from.  *)

LEMMA SameFinite == ASSUME NEW S PROVE Lru!IsFiniteSet(S) = IsFiniteSet(S)
  BY DEF Lru!IsFiniteSet, IsFiniteSet

(* Lru!TypeOK and Lru!Bounded. *)
Typed == /\ now \in Nat
         /\ entry \in [Key -> Entry \cup {NoEntry}]
         /\ newer \subseteq Key \X Key
         /\ ret \in Value \cup {NoValue}

Small == IsFiniteSet(Lru!Present(entry)) /\ Cardinality(Lru!Present(entry)) <= MaxSize

LEMMA TypedIs == Typed <=> Lru!TypeOK
  BY DEF Typed, Lru!TypeOK, Entry, Lru!Entry

LEMMA SmallIs == Small <=> Lru!Bounded
  BY SameFinite, SameCardinality DEF Small, Lru!Bounded

LruInv == Typed /\ Small /\ Lru!RecencyIsOrder

LEMMA InitLru == Lru!Init => LruInv
  <1> SUFFICES ASSUME Lru!Init PROVE LruInv
    OBVIOUS
  <1>1. Lru!Present(entry) = {}
    BY DEF Lru!Init, Lru!Present
  <1>2. QED
    BY <1>1, FS_EmptySet DEF Lru!Init, LruInv, Typed, Small, Lru!RecencyIsOrder

(* Dropping keys keeps the rest in order and can only make room. *)
LEMMA DropKeeps ==
  ASSUME LruInv, NEW K \in SUBSET Key, Lru!Drop(K)
  PROVE  /\ entry' \in [Key -> Entry \cup {NoEntry}]
         /\ newer' \subseteq Key \X Key
         /\ Small' /\ Lru!RecencyIsOrder'
  <1> USE DEF LruInv, Lru!Drop
  <1>1. entry' \in [Key -> Entry \cup {NoEntry}] /\ newer' \subseteq Key \X Key
    BY DEF Typed, Lru!Without
  <1>2. Lru!Present(entry)' = Lru!Present(entry) \ K
    BY DEF Lru!Present, Typed
  <1>3. Small'
    <2>1. Lru!Present(entry)' \subseteq Lru!Present(entry)
      BY <1>2
    <2>2. /\ IsFiniteSet(Lru!Present(entry)')
          /\ Cardinality(Lru!Present(entry)') <= Cardinality(Lru!Present(entry))
      BY <2>1, FS_Subset DEF Small
    <2>3. /\ Cardinality(Lru!Present(entry)') \in Nat
          /\ Cardinality(Lru!Present(entry)) \in Nat
      BY <2>2, FS_CardinalityType DEF Small
    <2>4. QED BY <2>2, <2>3 DEF Small
  <1>4. Lru!RecencyIsOrder'
    <2>1. \A j, k \in Key : <<j, k>> \in newer' <=> <<j, k>> \in newer /\ j \notin K /\ k \notin K
      BY DEF Lru!Without
    <2>2. newer' \subseteq Lru!Present(entry)' \X Lru!Present(entry)'
      BY <1>2 DEF Lru!RecencyIsOrder, Lru!Without, Typed
    <2>3. QED BY <1>2, <2>1, <2>2 DEF Lru!RecencyIsOrder, Lru!Present
  <1>5. QED BY <1>1, <1>3, <1>4

(* Using a key makes it newer than all others and keeps their order. *)
LEMMA TouchedIsOrder ==
  ASSUME NEW P \in SUBSET Key, NEW order, order \subseteq P \X P, NEW k \in Key,
         \A j \in P : <<j, j>> \notin order,
         \A i, j \in P : i # j => (<<i, j>> \in order <=> <<j, i>> \notin order),
         \A h, i, j \in P : <<h, i>> \in order /\ <<i, j>> \in order => <<h, j>> \in order
  PROVE  LET Q == P \cup {k}
             new == Lru!Touched(order, k, P)
         IN  /\ new \subseteq Q \X Q
             /\ \A j \in Q : <<j, j>> \notin new
             /\ \A i, j \in Q : i # j => (<<i, j>> \in new <=> <<j, i>> \notin new)
             /\ \A h, i, j \in Q : <<h, i>> \in new /\ <<i, j>> \in new => <<h, j>> \in new
  <1> DEFINE Q == P \cup {k}
             new == Lru!Touched(order, k, P)
  <1>1. \A i, j : <<i, j>> \in new <=> \/ i = k /\ j \in P \ {k}
                                       \/ <<i, j>> \in order /\ i # k /\ j # k
    BY DEF Lru!Touched, Lru!Without
  <1>2. new \subseteq Q \X Q
    BY DEF Lru!Touched, Lru!Without
  <1> HIDE DEF new
  <1>3. \A j \in Q : <<j, j>> \notin new
    BY <1>1
  <1>4. \A i, j \in Q : i # j => (<<i, j>> \in new <=> <<j, i>> \notin new)
    BY <1>1
  <1>5. \A h, i, j \in Q : <<h, i>> \in new /\ <<i, j>> \in new => <<h, j>> \in new
    BY <1>1
  <1>6. QED BY <1>2, <1>3, <1>4, <1>5 DEF new

LEMMA SetRoomKeeps ==
  ASSUME LruInv, NEW k \in Key, NEW v \in Value, Lru!SetRoom(k, v)
  PROVE  LruInv'
  <1> USE DEF LruInv, Lru!SetRoom
  <1>1. Lru!New(v) \in Entry
    BY DEF Lru!New, Entry, Typed
  <1>2. Lru!Present(entry)' = Lru!Present(entry) \cup {k}
    BY <1>1 DEF Lru!Present, Typed
  <1>3. Lru!RecencyIsOrder'
    <2> DEFINE P == Lru!Present(entry)
    <2>1. P \in SUBSET Key
      BY DEF Lru!Present
    <2>2. newer' = Lru!Touched(newer, k, P)
      OBVIOUS
    <2>3. /\ newer \subseteq P \X P
          /\ \A j \in P : <<j, j>> \notin newer
          /\ \A i, j \in P : i # j => (<<i, j>> \in newer <=> <<j, i>> \notin newer)
          /\ \A h, i, j \in P : <<h, i>> \in newer /\ <<i, j>> \in newer => <<h, j>> \in newer
      BY DEF Lru!RecencyIsOrder
    <2> HIDE DEF P
    <2>4. LET Q == P \cup {k} IN
          /\ newer' \subseteq Q \X Q
          /\ \A j \in Q : <<j, j>> \notin newer'
          /\ \A i, j \in Q : i # j => (<<i, j>> \in newer' <=> <<j, i>> \notin newer')
          /\ \A h, i, j \in Q : <<h, i>> \in newer' /\ <<i, j>> \in newer' => <<h, j>> \in newer'
      BY <2>1, <2>2, <2>3, TouchedIsOrder
    <2> HIDE DEF Lru!SetRoom
    <2>5. Lru!Present(entry)' = P \cup {k}
      BY <1>2 DEF P
    <2>6. QED BY <2>4, <2>5 DEF Lru!RecencyIsOrder
  <1>4. Small'
    <2>1. CASE k \in Lru!Present(entry)
      <3>1. Lru!Present(entry)' = Lru!Present(entry)
        BY <1>2, <2>1
      <3>2. QED BY <3>1 DEF Small
    <2>2. CASE k \notin Lru!Present(entry)
      <3>1. Cardinality(Lru!Present(entry)) < MaxSize
        BY <2>2, SameCardinality DEF Lru!Present
      <3> DEFINE P == Lru!Present(entry)
      <3>2. IsFiniteSet(P) /\ Cardinality(P) \in Nat
        BY FS_CardinalityType DEF Small
      <3>3. IsFiniteSet(P \cup {k}) /\ Cardinality(P \cup {k}) = Cardinality(P) + 1
        BY <2>2, <3>2, FS_AddElement
      <3>4. Cardinality(P) + 1 <= MaxSize
        BY <3>1, <3>2
      <3>5. IsFiniteSet(Lru!Present(entry)') /\ Cardinality(Lru!Present(entry)') <= MaxSize
        BY <1>2, <3>3, <3>4
      <3>6. QED BY <3>5 DEF Small
    <2>3. QED BY <2>1, <2>2
  <1>5. Typed'
    BY <1>1, <1>3 DEF Typed, Lru!RecencyIsOrder, Lru!Present
  <1>6. QED BY <1>3, <1>4, <1>5

LEMMA SetEvictKeeps ==
  ASSUME LruInv, NEW k \in Key, NEW v \in Value, Lru!SetEvict(k, v)
  PROVE  LruInv'
  <1> USE DEF LruInv
  <1>1. Lru!New(v) \in Entry
    BY DEF Lru!New, Entry, Typed
  <1>2. PICK old \in Lru!Present(entry) :
          /\ entry' = [entry EXCEPT ![k] = Lru!New(v), ![old] = NoEntry]
          /\ newer' = Lru!Touched(Lru!Without(newer, {old}), k, Lru!Present(entry) \ {old})
    BY DEF Lru!SetEvict
  <1>3. /\ entry[k] = NoEntry /\ Cardinality(Lru!Present(entry)) = MaxSize
        /\ old \in Key /\ k # old /\ k \notin Lru!Present(entry)
    BY <1>2, SameCardinality DEF Lru!SetEvict, Lru!Present
  <1> DEFINE P == Lru!Present(entry) \ {old}
             order == Lru!Without(newer, {old})
  <1>4. Lru!Present(entry)' = P \cup {k}
    BY <1>1, <1>2, <1>3 DEF Lru!Present, Typed
  <1>5. \A i, j : <<i, j>> \in order <=> <<i, j>> \in newer /\ i # old /\ j # old
    BY DEF Lru!Without
  <1>6. order \subseteq P \X P
    BY DEF Lru!Without, Lru!RecencyIsOrder
  <1>7. P \in SUBSET Key
    BY DEF Lru!Present
  <1>8. Lru!RecencyIsOrder'
    <2> HIDE DEF order
    <2>1. /\ \A j \in P : <<j, j>> \notin order
          /\ \A i, j \in P : i # j => (<<i, j>> \in order <=> <<j, i>> \notin order)
          /\ \A h, i, j \in P : <<h, i>> \in order /\ <<i, j>> \in order => <<h, j>> \in order
      BY <1>5 DEF Lru!RecencyIsOrder
    <2>2. newer' = Lru!Touched(order, k, P)
      BY <1>2 DEF order
    <2> HIDE DEF P
    <2>3. QED BY <1>4, <1>6, <1>7, <2>1, <2>2, TouchedIsOrder DEF Lru!RecencyIsOrder
  <1>9. Small'
    <2>1. IsFiniteSet(P) /\ Cardinality(P) = MaxSize - 1
      BY <1>3, FS_RemoveElement DEF Small
    <2>2. IsFiniteSet(P \cup {k}) /\ Cardinality(P \cup {k}) = MaxSize
      <3>1. k \notin P
        BY <1>3
      <3> HIDE DEF P
      <3>2. QED BY <2>1, <3>1, FS_AddElement
    <2>3. QED BY <1>4, <2>2 DEF Small
  <1>10. Typed'
    <2>1. entry' \in [Key -> Entry \cup {NoEntry}]
      BY <1>1, <1>2 DEF Typed
    <2>2. newer' \subseteq Key \X Key
      BY <1>3, <1>4, <1>7, <1>8 DEF Lru!RecencyIsOrder
    <2>3. now' = now /\ ret' = NoValue
      BY DEF Lru!SetEvict
    <2>4. QED BY <2>1, <2>2, <2>3 DEF Typed
  <1>11. QED BY <1>8, <1>9, <1>10

LEMMA NextLru == LruInv /\ [Lru!Next]_Lru!vars => LruInv'
  <1> SUFFICES ASSUME LruInv, [Lru!Next]_Lru!vars PROVE LruInv'
    OBVIOUS
  <1>1. CASE Lru!Tick
    BY <1>1 DEF Lru!Tick, LruInv, Typed, Small, Lru!RecencyIsOrder, Lru!Present
  <1>2. ASSUME NEW k \in Key, Lru!GetHit(k) PROVE LruInv'
    <2>1. k \in Lru!Present(entry) /\ Lru!Present(entry)' = Lru!Present(entry) \cup {k}
      BY <1>2 DEF Lru!GetHit, Lru!Present
    <2>2. Lru!RecencyIsOrder'
      BY <1>2, <2>1, TouchedIsOrder DEF Lru!GetHit, LruInv, Lru!RecencyIsOrder, Lru!Present
    <2>3. Small'
      BY <1>2 DEF Lru!GetHit, LruInv, Small, Lru!Present
    <2>4. Typed'
      BY <1>2, <2>2 DEF Lru!GetHit, LruInv, Typed, Lru!RecencyIsOrder, Lru!Present, Entry
    <2>5. QED BY <2>2, <2>3, <2>4 DEF LruInv
  <1>3. ASSUME NEW k \in Key, Lru!GetMiss(k) PROVE LruInv'
    BY <1>3 DEF Lru!GetMiss, LruInv, Typed, Small, Lru!RecencyIsOrder, Lru!Present
  <1>4. ASSUME NEW k \in Key, Lru!GetExpired(k) PROVE LruInv'
    BY <1>4, DropKeeps DEF Lru!GetExpired, LruInv, Typed
  <1>5. ASSUME NEW p \in Path, Lru!InvalidateByPath(p) PROVE LruInv'
    BY <1>5, DropKeeps DEF Lru!InvalidateByPath, LruInv, Typed
  <1>6. CASE Lru!Flush
    BY <1>6, DropKeeps DEF Lru!Flush, LruInv, Typed
  <1>7. CASE UNCHANGED Lru!vars
    BY <1>7 DEF Lru!vars, LruInv, Typed, Small, Lru!RecencyIsOrder, Lru!Present
  <1>8. QED
    BY <1>1, <1>2, <1>3, <1>4, <1>5, <1>6, <1>7, SetRoomKeeps, SetEvictKeeps DEF Lru!Next

(* The cache never holds more than maxSize entries. *)
THEOREM CacheIsBounded == Lru!Spec => []Lru!Bounded
  <1>1. LruInv => Lru!Bounded
    BY SmallIs DEF LruInv
  <1>2. QED BY <1>1, InitLru, NextLru, PTL DEF Lru!Spec

(* Which of two cached pages was used later is always decided, and no      *)
(* evicted key lingers in the order.                                       *)
THEOREM CacheRecencyIsOrder == Lru!Spec => [](Lru!TypeOK /\ Lru!RecencyIsOrder)
  <1>1. LruInv => Lru!TypeOK /\ Lru!RecencyIsOrder
    BY TypedIs DEF LruInv
  <1>2. QED BY <1>1, InitLru, NextLru, PTL DEF Lru!Spec

(* So it is of cache.go: its list holds at most maxSize pages, and who is  *)
(* evicted next is always decided.                                         *)
THEOREM ListIsBounded == CacheSpec => [](Lru!Bounded /\ Lru!RecencyIsOrder)
  BY ListImplementsLru, CacheIsBounded, CacheRecencyIsOrder, PTL DEF ImplementsLru
=============================================================================
