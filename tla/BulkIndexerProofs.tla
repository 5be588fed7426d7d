-------------------------- MODULE BulkIndexerProofs --------------------------
(***************************************************************************)
(* For any tree, any number of runs and any number of workers: the pool is *)
(* bounded, what Run returns is final and complete, a run that was         *)
(* cancelled begins at most one more file, and the status page is right.   *)
(***************************************************************************)
EXTENDS BulkIndexer, FiniteSetTheorems, TLAPS

(* What the walk has not come to is untouched, the directory it has just   *)
(* entered too: a failing ReadDir is counted once.                         *)
Fresh(r, i) == work[r][i] = "none" /\ fate[r][i] = "unseen"

Ahead(r) ==
  /\ \A i \in Entries : i >= at[r] => Fresh(r, i)
  /\ \A d \in Entries : d = at[r] - 1 /\ d >= Root[r] /\ Tree[d].kind = "dir"
                          /\ Tree[d].after > at[r] => Fresh(r, d)

(* A goroutine knows its file's fate when it counts it, not before. *)
Known(r) == \A i \in Entries : /\ work[r][i] = "index" => fate[r][i] = "unseen"
                               /\ work[r][i] \in {"count", "release", "leave"} =>
                                    fate[r][i] \in {"indexed", "error"}

Tallied(r, f) == {i \in Entries : fate[r][i] = f /\ work[r][i] # "count"}

Agree(r) == /\ sem[r] = Cardinality(InSlot(r))
            /\ wg[r] = Cardinality(Going(r))
            /\ \A f \in Outcomes : stats[r][f] = Cardinality(Tallied(r, f))
            /\ Fate(r, "indexed") \subseteq index

(* Where the run is, and what that says. *)
Placed(r) ==
  /\ at[r] >= Root[r]
  /\ pc[r] = "acquire" => ~Ended(r) /\ Tree[at[r]].kind = "text" /\ late[r] = 0
  /\ late[r] <= 1 /\ (late[r] > 0 => cancelled)
  /\ pc[r] \in {"idle", "stat", "returned", "over"} => Going(r) = {}

RunInv(r) == Ahead(r) /\ Known(r) /\ Agree(r) /\ Placed(r)

UnderWay == {r \in Runs : pc[r] \notin {"idle", "over"}}

IndInv == TypeOK /\ (\A r \in Runs : RunInv(r)) /\ indexing = Cardinality(UnderWay)

(* What belongs to run r. *)
own(r) == <<pc[r], at[r], work[r], fate[r], sem[r], wg[r], stats[r], late[r]>>

-----------------------------------------------------------------------------
LEMMA EntriesAre == Entries = 1 .. Len(Tree) /\ IsFiniteSet(Entries)
  <1>1. Tree \in Seq([kind : Kinds, after : Nat]) /\ Len(Tree) \in Nat
    BY TreeAssumption
  <1>2. Entries = 1 .. Len(Tree)
    BY <1>1 DEF Entries
  <1>3. QED BY <1>1, <1>2, FS_Interval

LEMMA ElementOf == ASSUME NEW S, NEW s \in Seq(S), NEW i \in 1 .. Len(s) PROVE s[i] \in S
  OBVIOUS

LEMMA TreeShape ==
  ASSUME NEW i \in Entries
  PROVE  Tree[i].kind \in Kinds /\ Tree[i].after \in Nat /\ i < Tree[i].after
         /\ Tree[i].after <= Len(Tree) + 1
  <1>1. Tree[i] \in [kind : Kinds, after : Nat]
    <2>1. Tree \in Seq([kind : Kinds, after : Nat]) /\ i \in 1 .. Len(Tree)
      BY TreeAssumption, EntriesAre
    <2>2. QED BY <2>1, ElementOf
  <1>2. Tree[i].kind \in Kinds /\ Tree[i].after \in Nat
    BY <1>1
  <1>3. i < Tree[i].after /\ Tree[i].after <= Len(Tree) + 1
    BY TreeAssumption DEF Entries
  <1>4. QED BY <1>2, <1>3

LEMMA RootShape ==
  ASSUME NEW r \in Runs
  PROVE  Root[r] \in Entries /\ Tree[Root[r]].after \in Nat
         /\ Tree[Root[r]].after <= Len(Tree) + 1
  BY RunsAssumption, TreeShape DEF Entries

(* One element more, one less. *)
LEMMA OneMore ==
  ASSUME NEW S, IsFiniteSet(S), NEW x, x \notin S
  PROVE  Cardinality(S \cup {x}) = Cardinality(S) + 1 /\ Cardinality(S) \in Nat
  BY FS_AddElement, FS_CardinalityType

LEMMA OneLess ==
  ASSUME NEW S, IsFiniteSet(S), NEW x \in S
  PROVE  Cardinality(S \ {x}) = Cardinality(S) - 1 /\ Cardinality(S) \in Nat
         /\ Cardinality(S) > 0
  BY FS_RemoveElement, FS_CardinalityType, FS_EmptySet

LEMMA SetsFinite ==
  ASSUME NEW r \in Runs
  PROVE  /\ IsFiniteSet(InSlot(r)) /\ IsFiniteSet(Going(r))
         /\ \A f : IsFiniteSet(Tallied(r, f))
         /\ IsFiniteSet(UnderWay)
  <1>1. InSlot(r) \subseteq Entries /\ Going(r) \subseteq Entries
        /\ (\A f : Tallied(r, f) \subseteq Entries) /\ UnderWay \subseteq Runs
    BY DEF InSlot, Going, Tallied, UnderWay
  <1>2. QED BY <1>1, EntriesAre, RunsAssumption, FS_Subset

-----------------------------------------------------------------------------
(* A step that touches no goroutine of a run and counts nothing. *)
LEMMA CountsKeep ==
  ASSUME NEW q \in Runs, Known(q), Agree(q), index \subseteq index',
         UNCHANGED <<work[q], fate[q], sem[q], wg[q], stats[q]>>
  PROVE  Known(q)' /\ Agree(q)' /\ Going(q)' = Going(q)
  <1>1. InSlot(q)' = InSlot(q) /\ Going(q)' = Going(q) /\ Fate(q, "indexed")' = Fate(q, "indexed")
    BY DEF InSlot, Going, Fate
  <1>2. \A f : Tallied(q, f)' = Tallied(q, f)
    BY DEF Tallied
  <1>3. Agree(q)'
    BY <1>1, <1>2 DEF Agree
  <1>4. Known(q)'
    BY DEF Known
  <1>5. QED BY <1>1, <1>3, <1>4

(* A step of one run leaves the others alone. *)
LEMMA OthersKeep ==
  ASSUME NEW q \in Runs, RunInv(q), UNCHANGED own(q), index \subseteq index',
         cancelled => cancelled'
  PROVE  RunInv(q)'
  <1> USE DEF own
  <1>1. Ahead(q)'
    BY DEF RunInv, Ahead, Fresh
  <1>2. Known(q)' /\ Agree(q)' /\ Going(q)' = Going(q)
    BY CountsKeep DEF RunInv
  <1>3. Placed(q)'
    BY <1>2 DEF RunInv, Placed, Ended
  <1>4. QED BY <1>1, <1>2, <1>3 DEF RunInv

LEMMA InitInv == Init => IndInv
  <1> SUFFICES ASSUME Init PROVE IndInv
    OBVIOUS
  <1> USE DEF Init
  <1>1. TypeOK
    <2>1. at \in [Runs -> 1 .. Len(Tree) + 1]
      BY RunsAssumption, TreeAssumption, EntriesAre DEF Entries
    <2>2. sem \in [Runs -> 0 .. Workers] /\ wg \in [Runs -> Nat]
      BY WorkersAssumption
    <2>3. QED BY <2>1, <2>2 DEF TypeOK
  <1>2. ASSUME NEW r \in Runs PROVE RunInv(r)
    <2>1. InSlot(r) = {} /\ Going(r) = {} /\ Fate(r, "indexed") = {}
          /\ \A f \in Outcomes : Tallied(r, f) = {}
      BY DEF InSlot, Going, Fate, Tallied, Outcomes
    <2>2. Agree(r)
      BY <2>1, FS_EmptySet DEF Agree
    <2>3. Ahead(r) /\ Known(r)
      BY EntriesAre DEF Ahead, Fresh, Known
    <2>4. Placed(r)
      BY <2>1, RootShape, EntriesAre DEF Placed
    <2>5. QED BY <2>2, <2>3, <2>4 DEF RunInv
  <1>3. UnderWay = {}
    BY DEF UnderWay
  <1>4. QED BY <1>1, <1>2, <1>3, FS_EmptySet DEF IndInv

LEMMA Compose ==
  ASSUME IndInv, NEW r \in Runs, TypeOK', RunInv(r)',
         \A q \in Runs \ {r} : UNCHANGED own(q),
         index \subseteq index', cancelled' = cancelled,
         indexing' = Cardinality(UnderWay)'
  PROVE  IndInv'
  <1>1. ASSUME NEW q \in Runs \ {r} PROVE RunInv(q)'
    BY <1>1, OthersKeep DEF IndInv
  <1>2. QED BY <1>1 DEF IndInv

-----------------------------------------------------------------------------
(* The steps that only move the run on: who may go where. *)
LEMMA GoInv ==
  ASSUME IndInv, NEW r \in Runs, NEW to, Go(r, to), pc[r] \notin {"idle", "over"},
         to \in {"walk", "acquire", "wait", "returned"},
         to = "acquire" => ~Ended(r) /\ Tree[at[r]].kind = "text" /\ ~cancelled,
         to = "returned" => Going(r) = {}
  PROVE  IndInv'
  <1> USE DEF Go
  <1>1. TypeOK'
    BY DEF IndInv, TypeOK
  <1>2. pc'[r] = to /\ (\A q \in Runs \ {r} : UNCHANGED own(q))
    BY DEF IndInv, TypeOK, own
  <1>3. Ahead(r)'
    BY DEF IndInv, RunInv, Ahead, Fresh
  <1>4. Going(r)' = Going(r) /\ Known(r)' /\ Agree(r)'
    BY CountsKeep DEF IndInv, RunInv
  <1>5. Placed(r)'
    <2>1. Placed(r) /\ late[r] \in Nat
      BY DEF IndInv, RunInv, TypeOK
    <2>2. to = "acquire" => late[r] = 0
      BY <2>1 DEF Placed
    <2>3. pc'[r] \in {"idle", "stat", "returned", "over"} => Going(r) = {}
      BY <1>2
    <2>4. QED BY <1>2, <1>4, <2>1, <2>2, <2>3 DEF Placed, Ended
  <1>6. UnderWay' = UnderWay
    BY <1>2 DEF UnderWay, IndInv, TypeOK
  <1>7. QED BY <1>1, <1>2, <1>3, <1>4, <1>5, <1>6, Compose DEF IndInv, RunInv

(* Where the walk is when the callback is called. *)
LEMMA CalledAt ==
  ASSUME IndInv, NEW r \in Runs, pc[r] \in {"walk", "acquire"}, ~Ended(r)
  PROVE  /\ at[r] \in Entries /\ Root[r] \in Nat /\ at[r] >= Root[r] /\ at[r] <= Len(Tree)
         /\ Fresh(r, at[r])
  <1>1. at[r] \in 1 .. Len(Tree) + 1 /\ at[r] < Tree[Root[r]].after /\ Len(Tree) \in Nat
    BY RootShape, TreeAssumption DEF IndInv, TypeOK, Ended
  <1>2. at[r] \in Entries /\ at[r] <= Len(Tree)
    BY <1>1, RootShape, EntriesAre
  <1>3. Root[r] \in Nat /\ at[r] >= Root[r]
    BY RootShape, EntriesAre DEF IndInv, RunInv, Placed
  <1>4. Fresh(r, at[r])
    BY <1>1, <1>2 DEF IndInv, RunInv, Ahead
  <1>5. QED BY <1>2, <1>3, <1>4

(* No directory just entered is where a subtree ends. *)
LEMMA SubtreeEnds ==
  ASSUME NEW i \in Entries, NEW d \in Entries, d = Tree[i].after - 1, Tree[d].after > Tree[i].after
  PROVE  FALSE
  <1>1. i \in Nat /\ d \in Nat /\ Tree[i].after \in Nat /\ Tree[d].after \in Nat /\ i < Tree[i].after
    BY TreeShape, EntriesAre
  <1>2. CASE i = d
    BY <1>1, <1>2
  <1>3. CASE i # d
    <2>1. i < d /\ d < Tree[i].after
      BY <1>1, <1>3
    <2>2. Tree[d].after <= Tree[i].after
      BY <2>1, TreeAssumption DEF Entries
    <2>3. QED BY <1>1, <2>2
  <1>4. QED BY <1>2, <1>3

LEMMA PassByInv ==
  ASSUME IndInv, NEW r \in Runs, pc[r] = "walk", NEW i \in Entries, Fresh(r, i),
         NEW f \in {"skipped", "error"}, NEW n \in 1 .. Len(Tree) + 1, PassBy(r, i, f, n),
         i < n, at[r] <= n,
         \A d \in Entries : d = n - 1 => Tree[d].kind # "dir" \/ ~(Tree[d].after > n)
  PROVE  IndInv'
  <1> USE DEF PassBy
  <1>1. TypeOK'
    <2>1. stats' \in [Runs -> [Outcomes -> Nat]]
      BY DEF IndInv, TypeOK, Counted, Outcomes
    <2>2. fate' \in [Runs -> [Entries -> Outcomes \cup {"unseen"}]]
      BY DEF IndInv, TypeOK, Outcomes
    <2>3. at' \in [Runs -> 1 .. Len(Tree) + 1]
      BY DEF IndInv, TypeOK
    <2>4. QED BY <2>1, <2>2, <2>3 DEF IndInv, TypeOK
  <1>2. /\ at'[r] = n /\ (\A j \in Entries : fate'[r][j] = IF j = i THEN f ELSE fate[r][j])
        /\ (\A g \in Outcomes : stats'[r][g] = IF g = f THEN stats[r][g] + 1 ELSE stats[r][g])
    BY DEF IndInv, TypeOK, Counted, Outcomes
  <1>3. \A q \in Runs \ {r} : UNCHANGED own(q)
    BY DEF IndInv, TypeOK, Counted, own
  <1>4. Ahead(r)'
    <2>1. ASSUME NEW j \in Entries, j >= n PROVE Fresh(r, j)'
      <3>1. j # i /\ j >= at[r]
        BY <2>1, EntriesAre DEF IndInv, TypeOK
      <3>2. QED BY <1>2, <3>1 DEF IndInv, RunInv, Ahead, Fresh
    <2>2. QED BY <1>2, <2>1 DEF Ahead
  <1>5. Known(r)'
    BY <1>2 DEF IndInv, RunInv, Known, Fresh
  <1>6. Agree(r)'
    <2>1. InSlot(r)' = InSlot(r) /\ Going(r)' = Going(r)
          /\ Fate(r, "indexed")' \subseteq Fate(r, "indexed")
      BY <1>2 DEF InSlot, Going, Fate
    <2>2. \A g \in Outcomes : Tallied(r, g)' = IF g = f THEN Tallied(r, g) \cup {i} ELSE Tallied(r, g)
      BY <1>2 DEF Tallied, Fresh, Outcomes
    <2>3. i \notin Tallied(r, f)
      BY DEF Tallied, Fresh
    <2>4. ASSUME NEW g \in Outcomes PROVE stats'[r][g] = Cardinality(Tallied(r, g))'
      BY <1>2, <2>2, <2>3, SetsFinite, OneMore DEF IndInv, RunInv, Agree
    <2>5. QED BY <2>1, <2>4 DEF IndInv, RunInv, Agree
  <1>7. Placed(r)'
    <2>1. at'[r] >= Root[r]
      BY <1>2, RootShape, EntriesAre DEF IndInv, RunInv, Placed, TypeOK
    <2>2. QED BY <2>1 DEF IndInv, RunInv, Placed
  <1>8. UnderWay' = UnderWay
    BY DEF UnderWay
  <1>9. QED BY <1>1, <1>3, <1>4, <1>5, <1>6, <1>7, <1>8, Compose DEF IndInv, RunInv

LEMMA CallbackInv ==
  ASSUME IndInv, NEW r \in Runs, Skip(r) \/ CannotStat(r) \/ CannotList(r)
  PROVE  IndInv'
  <1>1. pc[r] = "walk" /\ ~Ended(r)
    BY DEF Skip, CannotStat, CannotList, Called
  <1>2. /\ at[r] \in Entries /\ Root[r] \in Nat /\ at[r] >= Root[r] /\ at[r] <= Len(Tree)
        /\ Fresh(r, at[r])
    BY <1>1, CalledAt
  <1>3. at[r] \in Nat /\ Len(Tree) \in Nat /\ at[r] >= 1
    BY <1>2, EntriesAre, TreeAssumption
  <1>4. CASE Skip(r)
    <2>1. PassBy(r, at[r], "skipped", at[r] + 1) /\ Tree[at[r]].kind = "skipped"
      BY <1>4 DEF Skip
    <2>2. \A d \in Entries : d = (at[r] + 1) - 1 => Tree[d].kind # "dir"
      BY <2>1, <1>3
    <2>3. at[r] + 1 \in 1 .. Len(Tree) + 1 /\ at[r] < at[r] + 1 /\ at[r] <= at[r] + 1
      BY <1>2, <1>3
    <2>4. QED BY <1>1, <1>2, <2>1, <2>2, <2>3, PassByInv
  <1>5. CASE CannotStat(r)
    <2> DEFINE n == Tree[at[r]].after
    <2>1. PassBy(r, at[r], "error", n)
      BY <1>5 DEF CannotStat
    <2>2. n \in 1 .. Len(Tree) + 1 /\ at[r] < n /\ at[r] <= n
      BY <1>2, <1>3, TreeShape
    <2>3. \A d \in Entries : d = n - 1 => ~(Tree[d].after > n)
      BY <1>2, SubtreeEnds
    <2> HIDE DEF n
    <2>4. QED BY <1>1, <1>2, <2>1, <2>2, <2>3, PassByInv
  <1>6. CASE CannotList(r)
    <2> DEFINE e == at[r] - 1
               n == Tree[e].after
    <2>1. PassBy(r, e, "error", n) /\ at[r] > Root[r] /\ Tree[e].kind = "dir" /\ n > at[r]
      BY <1>6 DEF CannotList
    <2>2. e \in Entries /\ e >= Root[r] /\ e < at[r]
      BY <1>2, <1>3, <2>1, EntriesAre, RootShape
    <2>3. n \in Nat /\ n <= Len(Tree) + 1
      BY <2>2, TreeShape
    <2>4. n \in 1 .. Len(Tree) + 1 /\ e < n /\ at[r] <= n
      BY <1>3, <2>1, <2>2, <2>3
    <2>5. \A d \in Entries : d = n - 1 => ~(Tree[d].after > n)
      BY <2>2, SubtreeEnds
    <2>6. Fresh(r, e)
      BY <2>1, <2>2 DEF IndInv, RunInv, Ahead
    <2> HIDE DEF e, n
    <2>7. QED BY <1>1, <2>1, <2>2, <2>4, <2>5, <2>6, PassByInv
  <1>7. QED BY <1>4, <1>5, <1>6

LEMMA EnterOrPruneInv == ASSUME IndInv, NEW r \in Runs, EnterOrPrune(r) PROVE IndInv'
  <1> USE DEF EnterOrPrune
  <1> DEFINE a == at[r]
             n == IF Tree[a].kind = "dir" THEN a + 1 ELSE Tree[a].after
  <1>1. pc[r] = "walk" /\ ~Ended(r) /\ a \in Entries /\ Root[r] \in Nat /\ a >= Root[r]
        /\ a <= Len(Tree)
    BY CalledAt DEF Called
  <1>2. a \in Nat /\ Len(Tree) \in Nat /\ a >= 1
    BY <1>1, EntriesAre, TreeAssumption
  <1>3. n \in 1 .. Len(Tree) + 1 /\ a < n
    BY <1>1, <1>2, TreeShape
  <1>4. at' = [at EXCEPT ![r] = n]
    OBVIOUS
  <1>5. \A d \in Entries : d = n - 1 /\ Tree[d].kind = "dir" /\ Tree[d].after > n => d = a
    <2>1. CASE Tree[a].kind = "dir"
      BY <1>2, <2>1
    <2>2. CASE Tree[a].kind # "dir"
      BY <1>1, <2>2, SubtreeEnds
    <2>3. QED BY <2>1, <2>2
  <1> HIDE DEF n
  <1>6. at'[r] = n /\ TypeOK'
    BY <1>3, <1>4 DEF IndInv, TypeOK
  <1>7. \A q \in Runs \ {r} : UNCHANGED own(q)
    BY <1>4 DEF IndInv, TypeOK, own
  <1>8. Ahead(r)'
    <2>1. \A i \in Entries : i >= a => Fresh(r, i)
      BY DEF IndInv, RunInv, Ahead
    <2>2. \A i \in Entries : i >= n => Fresh(r, i)
      BY <1>2, <1>3, <2>1, EntriesAre
    <2>3. Fresh(r, a)
      BY <1>1, <1>2, <2>1
    <2>4. QED BY <1>5, <1>6, <2>2, <2>3 DEF Ahead, Fresh
  <1>9. Known(r)' /\ Agree(r)' /\ Going(r)' = Going(r)
    BY CountsKeep DEF IndInv, RunInv
  <1>10. Placed(r)'
    BY <1>1, <1>2, <1>3, <1>6, <1>9 DEF IndInv, RunInv, Placed
  <1>11. UnderWay' = UnderWay
    BY DEF UnderWay
  <1>12. QED BY <1>6, <1>7, <1>8, <1>9, <1>10, <1>11, Compose DEF IndInv, RunInv

LEMMA AcquireInv == ASSUME IndInv, NEW r \in Runs, Acquire(r) PROVE IndInv'
  <1> USE DEF Acquire
  <1> DEFINE a == at[r]
  <1>1. /\ ~Ended(r) /\ a \in Entries /\ Root[r] \in Nat /\ a >= Root[r] /\ a <= Len(Tree)
        /\ Fresh(r, a) /\ Tree[a].kind = "text" /\ late[r] = 0
    BY CalledAt DEF IndInv, RunInv, Placed
  <1>2. a \in Nat /\ Len(Tree) \in Nat /\ a >= 1
    BY <1>1, EntriesAre, TreeAssumption
  <1>3. /\ at'[r] = a + 1 /\ pc'[r] = "walk"
        /\ late'[r] = IF cancelled THEN 1 ELSE 0
        /\ \A i \in Entries : work'[r][i] = IF i = a THEN "index" ELSE work[r][i]
    BY <1>1, <1>2 DEF IndInv, TypeOK
  <1>4. InSlot(r)' = InSlot(r) \cup {a} /\ Going(r)' = Going(r) \cup {a}
        /\ a \notin InSlot(r) /\ a \notin Going(r)
    BY <1>1, <1>3 DEF InSlot, Going, Fresh
  <1>5. \A f \in Outcomes : Tallied(r, f)' = Tallied(r, f)
    BY <1>1, <1>3 DEF Tallied, Fresh, Outcomes
  <1>6. sem'[r] = sem[r] + 1 /\ wg'[r] = wg[r] + 1 /\ sem[r] \in Nat /\ sem[r] < Workers
    BY WorkersAssumption DEF IndInv, TypeOK, HasSlot
  <1>7. TypeOK'
    <2>1. sem' \in [Runs -> 0 .. Workers]
      BY <1>6, WorkersAssumption DEF IndInv, TypeOK
    <2>2. at' \in [Runs -> 1 .. Len(Tree) + 1]
      BY <1>1, <1>2 DEF IndInv, TypeOK
    <2>3. wg' \in [Runs -> Nat] /\ late' \in [Runs -> Nat]
      BY DEF IndInv, TypeOK
    <2>4. pc' \in [Runs -> {"idle", "stat", "walk", "acquire", "wait", "returned", "over"}]
          /\ work' \in [Runs -> [Entries -> {"none", "index", "count", "release", "leave"}]]
      BY DEF IndInv, TypeOK
    <2>5. QED BY <2>1, <2>2, <2>3, <2>4 DEF IndInv, TypeOK
  <1>8. \A q \in Runs \ {r} : UNCHANGED own(q)
    BY DEF IndInv, TypeOK, own
  <1>9. Ahead(r)'
    <2>1. ASSUME NEW i \in Entries, i >= a + 1 PROVE Fresh(r, i)'
      BY <2>1, <1>2, <1>3, EntriesAre DEF IndInv, RunInv, Ahead, Fresh
    <2>2. \A d \in Entries : d = (a + 1) - 1 => d = a
      BY <1>2
    <2>3. QED BY <1>1, <1>3, <2>1, <2>2 DEF Ahead
  <1>10. Known(r)'
    BY <1>1, <1>3 DEF IndInv, RunInv, Known, Fresh
  <1>11. Agree(r)'
    <2>1. sem'[r] = Cardinality(InSlot(r))' /\ wg'[r] = Cardinality(Going(r))'
      BY <1>4, <1>6, SetsFinite, OneMore DEF IndInv, RunInv, Agree
    <2>2. \A f \in Outcomes : stats'[r][f] = Cardinality(Tallied(r, f))'
      BY <1>5 DEF IndInv, RunInv, Agree
    <2>3. QED BY <2>1, <2>2 DEF IndInv, RunInv, Agree, Fate
  <1>12. Placed(r)'
    BY <1>1, <1>2, <1>3 DEF IndInv, RunInv, Placed
  <1>13. UnderWay' = UnderWay
    BY <1>3 DEF UnderWay, IndInv, TypeOK
  <1>14. QED BY <1>7, <1>8, <1>9, <1>10, <1>11, <1>12, <1>13, Compose DEF IndInv, RunInv

LEMMA StartInv == ASSUME IndInv, NEW r \in Runs, Start(r) PROVE IndInv'
  <1> USE DEF Start
  <1>1. pc'[r] = "stat" /\ (\A q \in Runs \ {r} : UNCHANGED own(q))
    BY DEF IndInv, TypeOK, own
  <1>2. UnderWay' = UnderWay \cup {r} /\ r \notin UnderWay
    BY DEF UnderWay, IndInv, TypeOK
  <1>3. indexing' = Cardinality(UnderWay)'
    BY <1>2, SetsFinite, OneMore DEF IndInv
  <1>4. TypeOK'
    BY DEF IndInv, TypeOK
  <1>5. Ahead(r)' /\ Known(r)' /\ Going(r)' = Going(r) /\ Agree(r)'
    BY CountsKeep DEF IndInv, RunInv, Ahead, Fresh
  <1>6. Placed(r)'
    BY <1>1, <1>5 DEF IndInv, RunInv, Placed
  <1>7. QED BY <1>1, <1>3, <1>4, <1>5, <1>6, Compose DEF RunInv

LEMMA LeaveInv == ASSUME IndInv, NEW r \in Runs, Leave(r) PROVE IndInv'
  <1> USE DEF Leave
  <1>1. pc'[r] = "over" /\ (\A q \in Runs \ {r} : UNCHANGED own(q))
    BY DEF IndInv, TypeOK, own
  <1>2. UnderWay' = UnderWay \ {r} /\ r \in UnderWay
    BY DEF UnderWay, IndInv, TypeOK
  <1>3. indexing' = Cardinality(UnderWay)' /\ indexing > 0
    BY <1>2, SetsFinite, OneLess DEF IndInv
  <1>4. TypeOK'
    BY <1>3 DEF IndInv, TypeOK
  <1>5. Ahead(r)' /\ Known(r)' /\ Going(r)' = Going(r) /\ Agree(r)'
    BY CountsKeep DEF IndInv, RunInv, Ahead, Fresh
  <1>6. Placed(r)'
    BY <1>1, <1>5 DEF IndInv, RunInv, Placed
  <1>7. QED BY <1>1, <1>3, <1>4, <1>5, <1>6, Compose DEF RunInv

LEMMA SignalInv == ASSUME IndInv, Signal PROVE IndInv'
  <1> USE DEF Signal
  <1>1. ASSUME NEW r \in Runs PROVE RunInv(r)'
    BY <1>1, OthersKeep DEF IndInv, own
  <1>2. TypeOK' /\ UnderWay' = UnderWay
    BY DEF IndInv, TypeOK, UnderWay
  <1>3. QED BY <1>1, <1>2 DEF IndInv

-----------------------------------------------------------------------------
(* The goroutines.  What each step does to the sets that are counted.      *)
LEMMA WorkerAt ==
  ASSUME IndInv, NEW r \in Runs, NEW i \in Entries, work[r][i] # "none"
  PROVE  ~Fresh(r, i) /\ pc[r] \in {"walk", "acquire", "wait"} /\ i \in Going(r)
  <1>1. i \in Going(r) /\ ~Fresh(r, i)
    BY DEF Going, Fresh
  <1>2. pc[r] \notin {"idle", "stat", "returned", "over"}
    BY <1>1 DEF IndInv, RunInv, Placed
  <1>3. pc[r] \in {"idle", "stat", "walk", "acquire", "wait", "returned", "over"}
    BY DEF IndInv, TypeOK
  <1>4. QED BY <1>1, <1>2, <1>3

(* A step of goroutine i that changes its own work and fate only. *)
LEMMA WorkerInv ==
  ASSUME IndInv, NEW r \in Runs, NEW i \in Entries, work[r][i] # "none",
         Worker(r, i), TypeOK', Known(r)', Agree(r)', index \subseteq index'
  PROVE  IndInv'
  <1> USE DEF Worker, IndexFile, Count, Release, Done
  <1>1. UNCHANGED <<pc, at, indexing, cancelled, late>>
    OBVIOUS
  <1>2. \A q \in Runs \ {r} : UNCHANGED own(q)
    BY DEF IndInv, TypeOK, own, Counted
  <1>3. \A j \in Entries \ {i} : work'[r][j] = work[r][j] /\ fate'[r][j] = fate[r][j]
    BY DEF IndInv, TypeOK
  <1>4. Ahead(r)'
    BY <1>1, <1>3, WorkerAt DEF IndInv, RunInv, Ahead, Fresh
  <1>5. Placed(r)'
    BY <1>1, WorkerAt DEF IndInv, RunInv, Placed, Ended
  <1>6. UnderWay' = UnderWay
    BY <1>1 DEF UnderWay
  <1>7. QED BY <1>1, <1>2, <1>4, <1>5, <1>6, Compose DEF IndInv, RunInv

LEMMA IndexFileInv ==
  ASSUME IndInv, NEW r \in Runs, NEW i \in Entries, IndexFile(r, i) PROVE IndInv'
  <1>0. work[r][i] = "index" /\ work' = [work EXCEPT ![r][i] = "count"]
        /\ UNCHANGED <<pc, at, sem, wg, stats, indexing, cancelled, late>>
    BY DEF IndexFile
  <1> PICK f \in {"indexed", "error"} :
             /\ fate' = [fate EXCEPT ![r][i] = f]
             /\ (f = "indexed" => index' = index \cup {i})
             /\ (f = "error" => index' = index)
    BY DEF IndexFile
  <1>1. /\ \A j \in Entries : work'[r][j] = IF j = i THEN "count" ELSE work[r][j]
        /\ \A j \in Entries : fate'[r][j] = IF j = i THEN f ELSE fate[r][j]
        /\ work[r][i] = "index" /\ fate[r][i] = "unseen"
    BY <1>0 DEF IndInv, TypeOK, RunInv, Known
  <1>2. TypeOK'
    <2>1. work' \in [Runs -> [Entries -> {"none", "index", "count", "release", "leave"}]]
      BY <1>0 DEF IndInv, TypeOK
    <2>2. fate' \in [Runs -> [Entries -> Outcomes \cup {"unseen"}]]
      BY DEF IndInv, TypeOK, Outcomes
    <2>3. index' = index \cup {i} \/ index' = index
      OBVIOUS
    <2>4. index' \subseteq Entries
      BY <2>3 DEF IndInv, TypeOK
    <2>5. QED BY <1>0, <2>1, <2>2, <2>4 DEF IndInv, TypeOK
  <1>3. Known(r)'
    BY <1>1 DEF IndInv, RunInv, Known
  <1>4. InSlot(r)' = InSlot(r) /\ Going(r)' = Going(r)
    BY <1>1 DEF InSlot, Going
  <1>4a. ASSUME NEW g \in Outcomes PROVE Tallied(r, g)' = Tallied(r, g)
    BY <1>1 DEF Tallied, Outcomes
  <1>5. Fate(r, "indexed")' \subseteq index'
    <2>1. Fate(r, "indexed") \subseteq index
      BY DEF IndInv, RunInv, Agree
    <2>2. CASE f = "indexed"
      BY <1>1, <2>1, <2>2 DEF Fate
    <2>3. CASE f = "error"
      BY <1>1, <2>1, <2>3 DEF Fate
    <2>4. QED BY <2>2, <2>3
  <1>6. Agree(r)'
    BY <1>0, <1>4, <1>4a, <1>5 DEF IndInv, RunInv, Agree
  <1>7. QED BY <1>1, <1>2, <1>3, <1>6, WorkerInv DEF Worker

LEMMA CountInv ==
  ASSUME IndInv, NEW r \in Runs, NEW i \in Entries, Count(r, i) PROVE IndInv'
  <1> USE DEF Count
  <1> DEFINE f == fate[r][i]
  <1>1. /\ \A j \in Entries : work'[r][j] = IF j = i THEN "release" ELSE work[r][j]
        /\ work[r][i] = "count" /\ f \in {"indexed", "error"}
    BY DEF IndInv, TypeOK, RunInv, Known
  <1>2. \A g \in Outcomes : stats'[r][g] = IF g = f THEN stats[r][g] + 1 ELSE stats[r][g]
    BY <1>1 DEF IndInv, TypeOK, Counted, Outcomes
  <1>3. TypeOK'
    BY <1>1 DEF IndInv, TypeOK, Outcomes, Counted
  <1>4. Known(r)'
    BY <1>1 DEF IndInv, RunInv, Known
  <1>5. InSlot(r)' = InSlot(r) /\ Going(r)' = Going(r) /\ Fate(r, "indexed")' = Fate(r, "indexed")
    BY <1>1 DEF InSlot, Going, Fate
  <1>6. \A g \in Outcomes : Tallied(r, g)' = IF g = f THEN Tallied(r, g) \cup {i} ELSE Tallied(r, g)
    BY <1>1 DEF Tallied
  <1>7. i \notin Tallied(r, f)
    BY <1>1 DEF Tallied
  <1>8. ASSUME NEW g \in Outcomes PROVE stats'[r][g] = Cardinality(Tallied(r, g))'
    BY <1>2, <1>6, <1>7, SetsFinite, OneMore DEF IndInv, RunInv, Agree
  <1>9. Agree(r)'
    BY <1>5, <1>8 DEF IndInv, RunInv, Agree
  <1>10. QED BY <1>1, <1>3, <1>4, <1>9, WorkerInv DEF Worker

LEMMA ReleaseInv ==
  ASSUME IndInv, NEW r \in Runs, NEW i \in Entries, Release(r, i) PROVE IndInv'
  <1> USE DEF Release
  <1>1. /\ \A j \in Entries : work'[r][j] = IF j = i THEN "leave" ELSE work[r][j]
        /\ work[r][i] = "release"
    BY DEF IndInv, TypeOK
  <1>2. InSlot(r)' = InSlot(r) \ {i} /\ i \in InSlot(r) /\ Going(r)' = Going(r)
    BY <1>1 DEF InSlot, Going
  <1>3. sem'[r] = Cardinality(InSlot(r))' /\ sem[r] > 0 /\ sem[r] \in 0 .. Workers
    BY <1>2, SetsFinite, OneLess DEF IndInv, TypeOK, RunInv, Agree
  <1>4. TypeOK'
    <2>1. sem' \in [Runs -> 0 .. Workers]
      BY <1>3, WorkersAssumption DEF IndInv, TypeOK
    <2>2. work' \in [Runs -> [Entries -> {"none", "index", "count", "release", "leave"}]]
      BY DEF IndInv, TypeOK
    <2>3. QED BY <2>1, <2>2 DEF IndInv, TypeOK
  <1>5. Known(r)'
    BY <1>1 DEF IndInv, RunInv, Known
  <1>6. \A f \in Outcomes : Tallied(r, f)' = Tallied(r, f)
    BY <1>1 DEF Tallied
  <1>7. Agree(r)'
    BY <1>2, <1>3, <1>6 DEF IndInv, RunInv, Agree, Fate
  <1>8. QED BY <1>1, <1>4, <1>5, <1>7, WorkerInv DEF Worker

LEMMA DoneInv ==
  ASSUME IndInv, NEW r \in Runs, NEW i \in Entries, Done(r, i) PROVE IndInv'
  <1> USE DEF Done
  <1>1. /\ \A j \in Entries : work'[r][j] = IF j = i THEN "none" ELSE work[r][j]
        /\ work[r][i] = "leave"
    BY DEF IndInv, TypeOK
  <1>2. Going(r)' = Going(r) \ {i} /\ i \in Going(r) /\ InSlot(r)' = InSlot(r)
    BY <1>1 DEF InSlot, Going
  <1>3. wg'[r] = Cardinality(Going(r))' /\ wg[r] > 0 /\ wg[r] \in Nat
    BY <1>2, SetsFinite, OneLess DEF IndInv, TypeOK, RunInv, Agree
  <1>4. TypeOK'
    <2>1. wg' \in [Runs -> Nat]
      BY <1>3 DEF IndInv, TypeOK
    <2>2. work' \in [Runs -> [Entries -> {"none", "index", "count", "release", "leave"}]]
      BY DEF IndInv, TypeOK
    <2>3. QED BY <2>1, <2>2 DEF IndInv, TypeOK
  <1>5. Known(r)'
    BY <1>1 DEF IndInv, RunInv, Known
  <1>6. \A f \in Outcomes : Tallied(r, f)' = Tallied(r, f)
    BY <1>1 DEF Tallied
  <1>7. Agree(r)'
    BY <1>2, <1>3, <1>6 DEF IndInv, RunInv, Agree, Fate
  <1>8. QED BY <1>1, <1>4, <1>5, <1>7, WorkerInv DEF Worker

-----------------------------------------------------------------------------
LEMMA WalkInv == ASSUME IndInv, NEW r \in Runs, Walk(r) PROVE IndInv'
  <1>1. CASE StatRoot(r)
    <2>1. Going(r) = {}
      BY <1>1 DEF StatRoot, IndInv, RunInv, Placed
    <2>2. QED BY <1>1, <2>1, GoInv DEF StatRoot
  <1>2. CASE WalkEnds(r)
    BY <1>2, GoInv DEF WalkEnds
  <1>3. CASE WalkStops(r)
    BY <1>3, GoInv DEF WalkStops
  <1>4. CASE Choose(r)
    BY <1>4, GoInv DEF Choose, Called
  <1>5. CASE Wait(r)
    <2>1. Going(r) = {}
      BY <1>5, SetsFinite, FS_EmptySet DEF Wait, IndInv, RunInv, Agree
    <2>2. QED BY <1>5, <2>1, GoInv DEF Wait
  <1>6. CASE Skip(r) \/ CannotStat(r) \/ CannotList(r)
    BY <1>6, CallbackInv
  <1>7. CASE EnterOrPrune(r)
    BY <1>7, EnterOrPruneInv
  <1>8. CASE Acquire(r)
    BY <1>8, AcquireInv
  <1>9. CASE Leave(r)
    BY <1>9, LeaveInv
  <1>10. QED
    BY <1>1, <1>2, <1>3, <1>4, <1>5, <1>6, <1>7, <1>8, <1>9 DEF Walk

LEMMA StutterInv == ASSUME IndInv, UNCHANGED vars PROVE IndInv'
  <1> USE DEF vars
  <1>1. TypeOK' /\ UnderWay' = UnderWay
    BY DEF IndInv, TypeOK, UnderWay
  <1>2. ASSUME NEW r \in Runs PROVE RunInv(r)'
    BY <1>2, OthersKeep DEF IndInv, own
  <1>3. QED BY <1>1, <1>2 DEF IndInv

LEMMA NextInv == IndInv /\ [Next]_vars => IndInv'
  <1> SUFFICES ASSUME IndInv, [Next]_vars PROVE IndInv'
    OBVIOUS
  <1>1. CASE Signal
    BY <1>1, SignalInv
  <1>2. ASSUME NEW r \in Runs, Start(r) PROVE IndInv'
    BY <1>2, StartInv
  <1>3. ASSUME NEW r \in Runs, Walk(r) PROVE IndInv'
    BY <1>3, WalkInv
  <1>4. ASSUME NEW r \in Runs, NEW i \in Entries, Worker(r, i) PROVE IndInv'
    BY <1>4, IndexFileInv, CountInv, ReleaseInv, DoneInv DEF Worker
  <1>5. CASE UNCHANGED vars
    BY <1>5, StutterInv
  <1>6. QED
    BY <1>1, <1>2, <1>3, <1>4, <1>5 DEF Next, Goroutines

LEMMA Inductive == Spec => []IndInv
  BY InitInv, NextInv, PTL DEF Spec

-----------------------------------------------------------------------------
(* Every variable stays within its type. *)
THEOREM TypeCorrect == Spec => []TypeOK
  BY Inductive, PTL DEF IndInv

(* The semaphore bounds the files open at a time (indexer.go:302), and the *)
(* WaitGroup counts exactly the goroutines that are left.                  *)
THEOREM PoolIsBounded == Spec => []Pool
  <1>1. IndInv => Pool
    <2> SUFFICES ASSUME IndInv, NEW r \in Runs
                 PROVE  Cardinality(InSlot(r)) <= Workers /\ wg[r] = Cardinality(Going(r))
      BY DEF Pool
    <2>1. sem[r] \in 0 .. Workers
      BY DEF IndInv, TypeOK
    <2>2. sem[r] = Cardinality(InSlot(r)) /\ wg[r] = Cardinality(Going(r))
      BY DEF IndInv, RunInv, Agree
    <2>3. QED BY <2>1, <2>2, WorkersAssumption
  <1>2. QED BY <1>1, Inductive, PTL

(* The Stats of a run that returned are final: each file is counted once,  *)
(* under what became of it (indexer.go:316).                               *)
THEOREM ReportsAreFinal == Spec => []ReportIsFinal
  <1>1. IndInv => ReportIsFinal
    <2> SUFFICES ASSUME IndInv, NEW r \in Runs, pc[r] \in {"returned", "over"}
                 PROVE  /\ Going(r) = {} /\ Fate(r, "indexed") \subseteq index
                        /\ \A f \in Outcomes : stats[r][f] = Cardinality(Fate(r, f))
      BY DEF ReportIsFinal
    <2>1. Going(r) = {} /\ Agree(r)
      BY DEF IndInv, RunInv, Placed
    <2>2. \A f : Tallied(r, f) = Fate(r, f)
      BY <2>1 DEF Tallied, Fate, Going
    <2>3. QED BY <2>1, <2>2 DEF Agree
  <1>2. QED BY <1>1, Inductive, PTL

(* After the signal a run begins at most one more file. *)
THEOREM RunsStopSoon == Spec => []StopsSoon
  <1>1. IndInv => StopsSoon
    BY DEF IndInv, RunInv, Placed, StopsSoon
  <1>2. QED BY <1>1, Inductive, PTL

(* The counter behind the status page is the number of runs under way, and *)
(* not zero while a file is being read (server.go:89).                     *)
THEOREM StatusIsRight == Spec => []IndexingIsTold
  <1>1. IndInv => IndexingIsTold
    <2> SUFFICES ASSUME IndInv PROVE IndexingIsTold
      OBVIOUS
    <2>1. indexing = Cardinality(UnderWay) /\ indexing \in Nat
      BY DEF IndInv, TypeOK
    <2>2. ASSUME NEW r \in Runs, Going(r) # {} PROVE indexing > 0
      <3>1. r \in UnderWay
        BY <2>2 DEF IndInv, RunInv, Placed, UnderWay
      <3>2. Cardinality(UnderWay) # 0
        BY <3>1, SetsFinite, FS_EmptySet
      <3>3. QED BY <2>1, <3>2
    <2>3. QED BY <2>1, <2>2 DEF IndexingIsTold, UnderWay
  <1>2. QED BY <1>1, Inductive, PTL

(* Both: the semaphore, the WaitGroup and the status counter are exact at  *)
(* every moment, whatever fails in a run.                                  *)
THEOREM CountersAreExact == Spec => []CountersAreRight
  BY PoolIsBounded, StatusIsRight, PTL DEF CountersAreRight

-----------------------------------------------------------------------------
(* Nothing is missed: what the walk has passed is handled, or below a      *)
(* directory it did not enter.                                             *)
Handled(r, i) == i \in Going(r) \/ fate[r][i] \in {"indexed", "error"}

Passed(r) == \A i \in Entries : /\ Root[r] <= i /\ i < at[r]
                                /\ Tree[i].kind = "text" /\ i \notin Missable(r)
                                => Handled(r, i)

(* What a step has to keep for that. *)
Keeps(r) ==
  /\ \A i \in Entries : fate[r][i] # "unseen" => fate'[r][i] = fate[r][i]
  /\ \A i \in Going(r) : Handled(r, i)'
  /\ \A i \in Entries : /\ at[r] <= i /\ i < at'[r] /\ Tree[i].kind = "text"
                         /\ i \notin Missable(r)'
                         => Handled(r, i)'

LEMMA Under ==
  ASSUME NEW r \in Runs, NEW d \in Entries, NEW i \in Entries, d < i, i < Tree[d].after,
         fate[r][d] = "error" \/ Tree[d].kind = "excluded"
  PROVE  i \in Missable(r)
  <1>1. i \in Below(d)
    BY TreeShape, EntriesAre DEF Below
  <1>2. QED BY <1>1 DEF Missable, Fate

LEMMA IdleKeeps ==
  ASSUME IndInv, NEW r \in Runs, UNCHANGED <<at[r], work[r], fate[r]>>
  PROVE  Keeps(r)
  <1>1. Going(r)' = Going(r)
    BY DEF Going
  <1>2. at[r] \in Int
    BY EntriesAre, TreeAssumption DEF IndInv, TypeOK
  <1>3. QED BY <1>1, <1>2, EntriesAre DEF Keeps, Handled

LEMMA WorkerKeeps ==
  ASSUME IndInv, NEW r \in Runs, NEW i \in Entries, Worker(r, i)
  PROVE  Keeps(r)
  <1>1. at' = at /\ at[r] \in Int
    BY TreeAssumption DEF Worker, IndexFile, Count, Release, Done, IndInv, TypeOK
  <1>2. \A j \in Entries : fate[r][j] # "unseen" => fate'[r][j] = fate[r][j]
    BY DEF Worker, IndexFile, Count, Release, Done, IndInv, TypeOK, RunInv, Known
  <1>3. ASSUME NEW j \in Going(r) PROVE Handled(r, j)'
    <2>1. CASE Done(r, i) /\ i = j
      BY <2>1 DEF Done, Handled, Going, IndInv, RunInv, Known
    <2>2. CASE ~(Done(r, i) /\ i = j)
      <3>1. work'[r][j] # "none"
        BY <2>2 DEF Worker, IndexFile, Count, Release, Done, Going, IndInv, TypeOK
      <3>2. QED BY <3>1 DEF Handled, Going
    <2>3. QED BY <2>1, <2>2
  <1>4. QED BY <1>1, <1>2, <1>3, EntriesAre DEF Keeps

LEMMA PassByKeeps ==
  ASSUME IndInv, NEW r \in Runs, NEW d \in Entries, NEW f \in {"skipped", "error"},
         NEW n \in 1 .. Len(Tree) + 1, PassBy(r, d, f, n), Fresh(r, d),
         \A i \in Entries : at[r] <= i /\ i < n /\ Tree[i].kind = "text" =>
            f = "error" /\ (i = d \/ (d < i /\ i < Tree[d].after))
  PROVE  Keeps(r)
  <1> USE DEF PassBy
  <1>1. at'[r] = n /\ (\A j \in Entries : fate'[r][j] = IF j = d THEN f ELSE fate[r][j])
    BY DEF IndInv, TypeOK
  <1>2. Going(r)' = Going(r)
    BY DEF Going
  <1>3. ASSUME NEW i \in Entries, at[r] <= i, i < n, Tree[i].kind = "text", i \notin Missable(r)'
        PROVE  Handled(r, i)'
    <2>1. fate'[r][d] = "error" /\ (i = d \/ (d < i /\ i < Tree[d].after))
      BY <1>1, <1>3
    <2>2. i = d
      <3>1. ASSUME d < i, i < Tree[d].after PROVE i \in Missable(r)'
        <4>1. i \in Below(d)
          BY <3>1, TreeShape, EntriesAre DEF Below
        <4>2. QED BY <4>1, <2>1 DEF Missable, Fate
      <3>2. QED BY <2>1, <3>1, <1>3
    <2>3. QED BY <2>1, <2>2 DEF Handled
  <1>4. QED BY <1>1, <1>2, <1>3 DEF Keeps, Handled, Fresh

LEMMA WalkKeeps == ASSUME IndInv, NEW r \in Runs, Walk(r) PROVE Keeps(r)
  <1>1. CASE StatRoot(r) \/ WalkEnds(r) \/ WalkStops(r) \/ Choose(r) \/ Wait(r) \/ Leave(r)
    <2>1. UNCHANGED <<at, work, fate>>
      BY <1>1 DEF StatRoot, WalkEnds, WalkStops, Choose, Wait, Leave, Go
    <2>2. QED BY <2>1, IdleKeeps
  <1>2. ASSUME Skip(r) \/ CannotStat(r) \/ CannotList(r) \/ EnterOrPrune(r) \/ Acquire(r)
        PROVE  /\ at[r] \in Entries /\ Root[r] \in Nat /\ at[r] >= Root[r] /\ at[r] <= Len(Tree)
               /\ Fresh(r, at[r]) /\ at[r] \in Nat /\ Len(Tree) \in Nat /\ at[r] >= 1
    <2>1. pc[r] \in {"walk", "acquire"} /\ ~Ended(r)
      BY <1>2 DEF Skip, CannotStat, CannotList, EnterOrPrune, Called, Acquire, IndInv, RunInv, Placed
    <2>2. QED BY <2>1, CalledAt, EntriesAre, TreeAssumption
  <1>3. CASE Skip(r)
    <2>1. PassBy(r, at[r], "skipped", at[r] + 1) /\ Tree[at[r]].kind = "skipped"
      BY <1>3 DEF Skip
    <2>2. \A i \in Entries : at[r] <= i /\ i < at[r] + 1 => i = at[r]
      BY <1>2, <1>3, EntriesAre
    <2>3. at[r] + 1 \in 1 .. Len(Tree) + 1
      BY <1>2, <1>3
    <2>4. QED BY <1>2, <1>3, <2>1, <2>2, <2>3, PassByKeeps
  <1>4. CASE CannotStat(r)
    <2> DEFINE n == Tree[at[r]].after
    <2>1. PassBy(r, at[r], "error", n)
      BY <1>4 DEF CannotStat
    <2>2. n \in 1 .. Len(Tree) + 1
      BY <1>2, <1>4, TreeShape
    <2>3. \A i \in Entries : at[r] <= i => i = at[r] \/ at[r] < i
      BY <1>2, <1>4, EntriesAre
    <2>4. QED BY <1>2, <1>4, <2>1, <2>2, <2>3, PassByKeeps
  <1>5. CASE CannotList(r)
    <2> DEFINE e == at[r] - 1
               n == Tree[e].after
    <2>1. PassBy(r, e, "error", n) /\ at[r] > Root[r] /\ Tree[e].kind = "dir" /\ n > at[r]
      BY <1>5 DEF CannotList
    <2>2. e \in Entries /\ e >= Root[r] /\ e < at[r]
      BY <1>2, <1>5, <2>1, EntriesAre, RootShape
    <2>3. n \in 1 .. Len(Tree) + 1
      BY <1>2, <1>5, <2>2, TreeShape
    <2>4. Fresh(r, e)
      BY <2>1, <2>2 DEF IndInv, RunInv, Ahead
    <2>5. \A i \in Entries : at[r] <= i => e < i
      BY <1>2, <1>5, EntriesAre
    <2> HIDE DEF e, n
    <2>6. n = Tree[e].after
      BY DEF n
    <2>7. QED BY <2>1, <2>2, <2>3, <2>4, <2>5, <2>6, PassByKeeps
  <1>6. CASE EnterOrPrune(r)
    <2>1. /\ Tree[at[r]].kind \in {"dir", "excluded"} /\ work' = work /\ fate' = fate
          /\ at'[r] = IF Tree[at[r]].kind = "dir" THEN at[r] + 1 ELSE Tree[at[r]].after
      BY <1>6 DEF EnterOrPrune, IndInv, TypeOK
    <2>2. Going(r)' = Going(r) /\ Missable(r)' = Missable(r)
      BY <2>1 DEF Going, Missable, Fate
    <2>3. ASSUME NEW i \in Entries, at[r] <= i, i < at'[r], Tree[i].kind = "text"
          PROVE  i \in Missable(r)
      <3>1. i # at[r] /\ at[r] < i
        BY <1>2, <1>6, <2>1, <2>3, EntriesAre
      <3>2. Tree[at[r]].kind = "excluded" /\ i < Tree[at[r]].after
        BY <1>2, <1>6, <2>1, <2>3, <3>1, EntriesAre
      <3>3. QED BY <1>2, <1>6, <3>1, <3>2, Under
    <2>4. QED BY <2>1, <2>2, <2>3 DEF Keeps, Handled
  <1>7. CASE Acquire(r)
    <2>1. /\ fate' = fate /\ at'[r] = at[r] + 1
          /\ \A i \in Entries : work'[r][i] = IF i = at[r] THEN "index" ELSE work[r][i]
      BY <1>2, <1>7 DEF Acquire, IndInv, TypeOK
    <2>2. Going(r) \subseteq Going(r)' /\ at[r] \in Going(r)'
      BY <1>2, <1>7, <2>1 DEF Going
    <2>3. \A i \in Entries : at[r] <= i /\ i < at'[r] => i = at[r]
      BY <1>2, <1>7, <2>1, EntriesAre
    <2>4. QED BY <2>1, <2>2, <2>3 DEF Keeps, Handled
  <1>8. QED BY <1>1, <1>3, <1>4, <1>5, <1>6, <1>7 DEF Walk

LEMMA Alone ==
  ASSUME IndInv, NEW q \in Runs, NEW r \in Runs \ {q}, Start(q) \/ Walk(q) \/ Goroutines(q)
  PROVE  UNCHANGED <<at[r], work[r], fate[r]>>
  <1> USE DEF IndInv, TypeOK
  <1>1. CASE Start(q) \/ Leave(q)
    BY <1>1 DEF Start, Leave
  <1>2. CASE StatRoot(q) \/ WalkEnds(q) \/ WalkStops(q) \/ Choose(q) \/ Wait(q)
    BY <1>2 DEF StatRoot, WalkEnds, WalkStops, Choose, Wait, Go
  <1>3. CASE Skip(q) \/ CannotStat(q) \/ CannotList(q)
    BY <1>3 DEF Skip, CannotStat, CannotList, PassBy
  <1>4. CASE EnterOrPrune(q) \/ Acquire(q)
    BY <1>4 DEF EnterOrPrune, Acquire
  <1>5. CASE Goroutines(q)
    BY <1>5 DEF Goroutines, Worker, IndexFile, Count, Release, Done
  <1>6. QED BY <1>1, <1>2, <1>3, <1>4, <1>5 DEF Walk

LEMMA AllKeep == ASSUME IndInv, [Next]_vars, NEW r \in Runs PROVE Keeps(r)
  <1>1. CASE Signal \/ UNCHANGED vars
    BY <1>1, IdleKeeps DEF Signal, vars
  <1>2. ASSUME NEW q \in Runs, Start(q) \/ Walk(q) \/ Goroutines(q) PROVE Keeps(r)
    <2>1. CASE q # r
      BY <1>2, <2>1, Alone, IdleKeeps
    <2>2. CASE q = r /\ Start(r)
      BY <2>2, IdleKeeps DEF Start
    <2>3. CASE q = r /\ Walk(r)
      BY <2>3, WalkKeeps
    <2>4. CASE q = r /\ Goroutines(r)
      BY <2>4, WorkerKeeps DEF Goroutines
    <2>5. QED BY <1>2, <2>1, <2>2, <2>3, <2>4
  <1>3. QED BY <1>1, <1>2 DEF Next

LEMMA PassedInv ==
  ASSUME IndInv, IndInv', [Next]_vars, NEW r \in Runs, Passed(r) PROVE Passed(r)'
  <1>1. Keeps(r) /\ at[r] \in Int /\ at'[r] \in Int
    BY AllKeep, TreeAssumption DEF IndInv, TypeOK
  <1>2. Missable(r) \subseteq Missable(r)'
    BY <1>1 DEF Keeps, Missable, Fate
  <1>3. ASSUME NEW i \in Entries, Handled(r, i) PROVE Handled(r, i)'
    BY <1>1, <1>3 DEF Keeps, Handled
  <1>4. QED BY <1>1, <1>2, <1>3, EntriesAre DEF Passed, Keeps

(* A walk that was not cancelled leaves out no file: one error does not    *)
(* cost the rest of the tree (indexer.go:219).                             *)
THEOREM WalksAreComplete == Spec => []NothingIsMissed
  <1> DEFINE J == IndInv /\ \A r \in Runs : Passed(r)
  <1>1. Init => J
    BY InitInv, RunsAssumption, EntriesAre DEF Init, Passed
  <1>2. J /\ [Next]_vars => J'
    BY NextInv, PassedInv
  <1>3. J => NothingIsMissed
    <2> SUFFICES ASSUME J, NEW r \in Runs, Ended(r),
                        NEW i \in Root[r] .. Tree[Root[r]].after - 1,
                        Tree[i].kind = "text", i \notin Missable(r)
                 PROVE  Handled(r, i)
      BY DEF NothingIsMissed, Handled
    <2>1. i \in Entries /\ Root[r] <= i /\ i < at[r]
      BY RootShape, EntriesAre, TreeAssumption DEF Ended, IndInv, TypeOK
    <2>2. QED BY <2>1 DEF Passed
  <1> HIDE DEF J
  <1>4. QED BY <1>1, <1>2, <1>3, PTL DEF Spec
=============================================================================
