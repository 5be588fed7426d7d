---------------------------- MODULE ProcessProofs ----------------------------
(***************************************************************************)
(* Theorems about four components that share no state with each other: how *)
(* the process ends (Lifecycle), the vectors of semantic search (Embedder),*)
(* the rotating log (LogRotation) and the rate limiter (RateLimiter).      *)
(***************************************************************************)
EXTENDS Lifecycle, Embedder, LogRotation, RateLimiter,
        SequenceTheorems, FiniteSetTheorems, TLAPS

-----------------------------------------------------------------------------
(* Lifecycle.  For any number of clients: the waiter of main.go closes the *)
(* database under no request it could have waited for, and until the       *)
(* signal every request is served.                                         *)

(* Once the waiter has left "wait", no request is accepted any more, or    *)
(* Run had not set httpSrv when it looked.                                 *)
NoneAfterShutdown == waiter \in {"drain", "checkpoint", "done"} => closing \/ early

(* Until the signal only a serving main has requests, and it has a         *)
(* database for them.                                                      *)
CalmBeforeSignal ==
  ~signalled =>
    /\ ~closing /\ waiter \in {"none", "wait"}
    /\ main \in {"wire", "run", "listen", "serving"} => db = "open"
    /\ main # "serving" => \A c \in Client : req[c] = "none"
    /\ \A c \in Client : req[c] \in {"none", "active", "answered"}

LifecycleInv == LifecycleTypeOK /\ NoneAfterShutdown /\ WaiterDrainsFirst /\ CalmBeforeSignal

LEMMA LifecycleInitInv == LifecycleInit => LifecycleInv
  BY DEF LifecycleInit, LifecycleInv, LifecycleTypeOK, NoneAfterShutdown, WaiterDrainsFirst, CalmBeforeSignal

LEMMA SignalInv == ASSUME LifecycleInv, Signal PROVE LifecycleInv'
  BY DEF Signal, LifecycleInv, LifecycleTypeOK, NoneAfterShutdown, WaiterDrainsFirst, CalmBeforeSignal, Active

(* The steps of main that do not end the process. *)
LEMMA MainInv ==
  ASSUME LifecycleInv,
         OpenDb \/ Wire \/ Register \/ Listen \/ ListenReturns \/ DeferredClose
  PROVE  LifecycleInv'
  <1> USE DEF OpenDb, Wire, Register, Listen, ListenReturns, DeferredClose, LifecycleInv
  <1>1. LifecycleTypeOK'
    BY DEF LifecycleTypeOK
  <1>2. UNCHANGED <<closing, req, timedOut, early>>
    OBVIOUS
  <1>3. waiter' = waiter \/ waiter' = "wait"
    OBVIOUS
  <1>4. NoneAfterShutdown' /\ WaiterDrainsFirst'
    BY <1>2, <1>3 DEF NoneAfterShutdown, WaiterDrainsFirst, Active
  <1>5. CalmBeforeSignal'
    BY DEF LifecycleTypeOK, CalmBeforeSignal
  <1>6. QED BY <1>1, <1>4, <1>5

(* The process ends: what was active is cut. *)
LEMMA ExitInv == ASSUME LifecycleInv, OpenDbFails \/ MainReturns PROVE LifecycleInv'
  <1> USE DEF OpenDbFails, MainReturns, Exit, LifecycleInv
  <1>1. \A c \in Client : req'[c] = IF req[c] = "active" THEN "cut" ELSE req[c]
    OBVIOUS
  <1>2. Active' = {}
    BY <1>1 DEF Active
  <1>3. LifecycleTypeOK'
    <2>1. req' \in [Client -> {"none", "active", "answered", "failed", "cut"}]
      BY DEF LifecycleTypeOK
    <2>2. QED BY <2>1 DEF LifecycleTypeOK
  <1>4. NoneAfterShutdown' /\ WaiterDrainsFirst'
    BY <1>2 DEF NoneAfterShutdown, WaiterDrainsFirst
  <1>5. CalmBeforeSignal'
    BY <1>1 DEF CalmBeforeSignal
  <1>6. QED BY <1>3, <1>4, <1>5

LEMMA WaiterInv == ASSUME LifecycleInv, Waiter PROVE LifecycleInv'
  <1> USE DEF Waiter, LifecycleInv
  <1>1. CASE Shutdown
    BY <1>1 DEF Shutdown, LifecycleTypeOK, NoneAfterShutdown, WaiterDrainsFirst, CalmBeforeSignal
  <1>2. CASE Drained
    BY <1>2 DEF Drained, LifecycleTypeOK, NoneAfterShutdown, WaiterDrainsFirst, CalmBeforeSignal, Active
  <1>3. CASE DrainTimesOut
    BY <1>3 DEF DrainTimesOut, LifecycleTypeOK, NoneAfterShutdown, WaiterDrainsFirst, CalmBeforeSignal
  <1>4. CASE CheckpointAndClose
    BY <1>4 DEF CheckpointAndClose, LifecycleTypeOK, NoneAfterShutdown, WaiterDrainsFirst,
                CalmBeforeSignal, Active
  <1>5. QED BY <1>1, <1>2, <1>3, <1>4

LEMMA RequestInv == ASSUME LifecycleInv, NEW c \in Client, Accept(c) \/ Finish(c) PROVE LifecycleInv'
  <1> USE DEF LifecycleInv
  <1>1. CASE Accept(c)
    <2>1. LifecycleTypeOK'
      BY <1>1 DEF Accept, LifecycleTypeOK
    <2>2. NoneAfterShutdown' /\ WaiterDrainsFirst'
      BY <1>1 DEF Accept, NoneAfterShutdown, WaiterDrainsFirst
    <2>3. CalmBeforeSignal'
      BY <1>1 DEF Accept, LifecycleTypeOK, CalmBeforeSignal
    <2>4. QED BY <2>1, <2>2, <2>3
  <1>2. CASE Finish(c)
    <2>1. LifecycleTypeOK'
      BY <1>2 DEF Finish, LifecycleTypeOK
    <2>2. Active' \subseteq Active
      BY <1>2 DEF Finish, LifecycleTypeOK, Active
    <2>3. NoneAfterShutdown' /\ WaiterDrainsFirst'
      BY <1>2, <2>2 DEF Finish, NoneAfterShutdown, WaiterDrainsFirst
    <2>4. CalmBeforeSignal'
      BY <1>2 DEF Finish, LifecycleTypeOK, CalmBeforeSignal
    <2>5. QED BY <2>1, <2>3, <2>4
  <1>3. QED BY <1>1, <1>2

LEMMA LifecycleNextInv == LifecycleInv /\ [LifecycleNext]_lifecycleVars => LifecycleInv'
  <1> SUFFICES ASSUME LifecycleInv, [LifecycleNext]_lifecycleVars PROVE LifecycleInv'
    OBVIOUS
  <1>1. CASE Main
    BY <1>1, MainInv, ExitInv DEF Main
  <1>2. CASE UNCHANGED lifecycleVars
    BY <1>2 DEF lifecycleVars, LifecycleInv, LifecycleTypeOK, NoneAfterShutdown, WaiterDrainsFirst, CalmBeforeSignal, Active
  <1>3. QED BY <1>1, <1>2, SignalInv, WaiterInv, RequestInv DEF LifecycleNext

LEMMA LifecycleInductive == LifecycleSpec => []LifecycleInv
  BY LifecycleInitInv, LifecycleNextInv, PTL DEF LifecycleSpec

-----------------------------------------------------------------------------
(* Every variable of Lifecycle keeps its type. *)
THEOREM LifecycleTypeCorrect == LifecycleSpec => []LifecycleTypeOK
  <1>1. LifecycleInv => LifecycleTypeOK
    BY DEF LifecycleInv
  <1>2. QED BY LifecycleInductive, <1>1, PTL

(* The waiter's Checkpoint and Close come when no request is active, but   *)
(* for the 10 seconds of Shutdown and the signal that came before Run.     *)
THEOREM WaiterWaits == LifecycleSpec => []WaiterDrainsFirst
  <1>1. LifecycleInv => WaiterDrainsFirst
    BY DEF LifecycleInv
  <1>2. QED BY LifecycleInductive, <1>1, PTL

(* No request fails or is cut before the signal. *)
THEOREM ServesUntilSignal == LifecycleSpec => []ServedWhileUp
  <1>1. LifecycleInv => ServedWhileUp
    BY DEF LifecycleInv, CalmBeforeSignal, ServedWhileUp
  <1>2. QED BY LifecycleInductive, <1>1, PTL

-----------------------------------------------------------------------------
(* Embedder.  For any files, cap on the vectors, number of attempts,       *)
(* failures, changes and restarts: no file is embedded while its vector is *)
(* one of those AllVectors returns.                                        *)

(* `path` is the primary key. *)
OneRowEach(s) == \A i, j \in 1 .. Len(s) : s[i] = s[j] => i = j

(* What Run is to embed has an attempt left. *)
ToEmbed == todo \cup ({cur} \ {None})

EmbedderInv ==
  /\ EmbedderTypeOK
  /\ pc \in {"embed", "store"} <=> cur # None
  /\ cur \notin todo
  /\ \A p \in ToEmbed : failed[p] < Attempts
  /\ OneRowEach(vectors)
  /\ StoredIsNotRedone

(* Without its i-th element a sequence is shorter by one, and in order. *)
LEMMA RemoveAtElements ==
  ASSUME NEW S, NEW s \in Seq(S), NEW i \in 1 .. Len(s)
  PROVE  /\ RemoveAt(s, i) \in Seq(S)
         /\ Len(RemoveAt(s, i)) = Len(s) - 1
         /\ \A j \in 1 .. Len(s) - 1 : RemoveAt(s, i)[j] = IF j < i THEN s[j] ELSE s[j + 1]
  <1> DEFINE a == SubSeq(s, 1, i - 1)
             b == SubSeq(s, i + 1, Len(s))
  <1>1. Len(s) \in Nat /\ i \in Nat /\ 1 <= i /\ i <= Len(s)
    OBVIOUS
  <1>2. a \in Seq(S) /\ Len(a) = i - 1 /\ \A j \in 1 .. i - 1 : a[j] = s[j]
    BY <1>1, SubSeqProperties, ElementOfSeq
  <1>3. b \in Seq(S) /\ Len(b) = Len(s) - i /\ \A j \in 1 .. Len(s) - i : b[j] = s[i + j]
    <2>1. \A j \in i + 1 .. Len(s) : s[j] \in S
      BY <1>1, ElementOfSeq
    <2>2. i + 1 \in Int /\ Len(s) \in Int
      BY <1>1
    <2>3. /\ b \in Seq(S)
          /\ Len(b) = IF i + 1 <= Len(s) THEN Len(s) - (i + 1) + 1 ELSE 0
          /\ \A j \in 1 .. Len(s) - (i + 1) + 1 : b[j] = s[i + 1 + j - 1]
      BY <2>1, <2>2, SubSeqProperties
    <2>4. QED BY <1>1, <2>3
  <1>4. RemoveAt(s, i) = a \o b
    BY DEF RemoveAt
  <1> HIDE DEF a, b
  <1>5. /\ a \o b \in Seq(S) /\ Len(a \o b) = Len(a) + Len(b)
        /\ \A j \in 1 .. Len(a) + Len(b) :
             (a \o b)[j] = IF j <= Len(a) THEN a[j] ELSE b[j - Len(a)]
    BY <1>2, <1>3, ConcatProperties
  <1>6. ASSUME NEW j \in 1 .. Len(s) - 1
        PROVE  (a \o b)[j] = IF j < i THEN s[j] ELSE s[j + 1]
    <2>1. j \in 1 .. Len(a) + Len(b) /\ (j < i <=> j <= Len(a))
      BY <1>1, <1>2, <1>3
    <2>2. CASE j < i
      <3>1. a[j] = s[j]
        BY <1>1, <1>2, <2>2
      <3>2. QED BY <1>5, <2>1, <2>2, <3>1
    <2>3. CASE ~(j < i)
      <3> DEFINE m == j - Len(a)
      <3>1. m \in 1 .. Len(s) - i /\ i + m = j + 1
        BY <1>1, <1>2, <2>3
      <3> HIDE DEF m
      <3>2. b[m] = s[j + 1]
        BY <1>3, <3>1
      <3>3. QED BY <1>5, <2>1, <2>3, <3>2 DEF m
    <2>4. QED BY <2>2, <2>3
  <1>7. Len(a) + Len(b) = Len(s) - 1
    BY <1>1, <1>2, <1>3
  <1>8. QED BY <1>4, <1>5, <1>6, <1>7

(* UpsertVector puts the path at the head of the table, once, and moves no *)
(* other row towards the head.                                             *)
LEMMA UpsertVectorRows ==
  ASSUME vectors \in Seq(File), OneRowEach(vectors), NEW p \in File
  PROVE  LET rows == <<p>> \o RowsBut(p) IN
         /\ rows \in Seq(File) /\ OneRowEach(rows)
         /\ \A j \in 1 .. Len(rows) :
              rows[j] = p \/ \E n \in 1 .. Len(vectors) : n <= j /\ rows[j] = vectors[n]
  <1> DEFINE rest == RowsBut(p)
             rows == <<p>> \o rest
  <1>1. /\ rest \in Seq(File) /\ OneRowEach(rest)
        /\ \A j \in 1 .. Len(rest) :
             rest[j] # p /\ \E n \in 1 .. Len(vectors) : n <= j + 1 /\ rest[j] = vectors[n]
    <2>1. CASE p \notin ToSet(vectors)
      <3>1. rest = vectors
        BY <2>1 DEF RowsBut
      <3>2. \A j \in 1 .. Len(vectors) : j <= j + 1 /\ vectors[j] # p
        BY <2>1 DEF ToSet
      <3>3. QED BY <3>1, <3>2
    <2>2. CASE p \in ToSet(vectors)
      <3> DEFINE i == CHOOSE n \in DOMAIN vectors : vectors[n] = p
      <3>1. i \in 1 .. Len(vectors) /\ vectors[i] = p
        BY <2>2 DEF ToSet
      <3>2. rest = RemoveAt(vectors, i)
        BY <2>2 DEF RowsBut
      <3> HIDE DEF i, rest
      <3>3. /\ rest \in Seq(File) /\ Len(rest) = Len(vectors) - 1
            /\ \A j \in 1 .. Len(vectors) - 1 :
                 rest[j] = IF j < i THEN vectors[j] ELSE vectors[j + 1]
        BY <3>1, <3>2, RemoveAtElements
      <3>4. OneRowEach(rest)
        <4> SUFFICES ASSUME NEW j \in 1 .. Len(rest), NEW n \in 1 .. Len(rest), rest[j] = rest[n]
                     PROVE  j = n
          BY DEF OneRowEach
        <4> DEFINE at(m) == IF m < i THEN m ELSE m + 1
        <4>1. /\ at(j) \in 1 .. Len(vectors) /\ rest[j] = vectors[at(j)]
              /\ at(n) \in 1 .. Len(vectors) /\ rest[n] = vectors[at(n)]
          BY <3>1, <3>3
        <4>2. at(j) = at(n)
          BY <4>1 DEF OneRowEach
        <4>3. QED BY <3>1, <3>3, <4>2
      <3>5. ASSUME NEW j \in 1 .. Len(rest)
            PROVE  rest[j] # p /\ \E n \in 1 .. Len(vectors) : n <= j + 1 /\ rest[j] = vectors[n]
        <4> DEFINE n == IF j < i THEN j ELSE j + 1
        <4>1. n \in 1 .. Len(vectors) /\ n <= j + 1 /\ n # i /\ rest[j] = vectors[n]
          BY <3>1, <3>3
        <4>2. rest[j] # p
          BY <3>1, <4>1 DEF OneRowEach
        <4>3. QED BY <4>1, <4>2
      <3>6. QED BY <3>3, <3>4, <3>5
    <2>3. QED BY <2>1, <2>2
  <1> HIDE DEF rest
  <1>2. /\ rows \in Seq(File) /\ Len(rows) = Len(rest) + 1
        /\ rows[1] = p /\ \A j \in 1 .. Len(rest) : rows[j + 1] = rest[j]
    BY <1>1
  <1>3. \A j \in 1 .. Len(rows) : j = 1 \/ (j - 1 \in 1 .. Len(rest) /\ rows[j] = rest[j - 1])
    BY <1>1, <1>2
  <1> HIDE DEF rows
  <1>4. OneRowEach(rows)
    <2> SUFFICES ASSUME NEW i \in 1 .. Len(rows), NEW j \in 1 .. Len(rows), rows[i] = rows[j]
                 PROVE  i = j
      BY DEF OneRowEach
    <2>1. \A n \in 1 .. Len(rows) : n # 1 => rows[n] # p
      BY <1>1, <1>3
    <2> SUFFICES ASSUME i # 1, j # 1 PROVE i = j
      BY <1>2, <2>1
    <2>2. i - 1 = j - 1
      <3>1. /\ i - 1 \in 1 .. Len(rest) /\ j - 1 \in 1 .. Len(rest)
            /\ rest[i - 1] = rest[j - 1]
        BY <1>3
      <3>2. QED BY <1>1, <3>1 DEF OneRowEach
    <2>3. QED BY <2>2
  <1>5. ASSUME NEW j \in 1 .. Len(rows)
        PROVE  rows[j] = p \/ \E n \in 1 .. Len(vectors) : n <= j /\ rows[j] = vectors[n]
    <2>1. CASE j = 1
      BY <1>2, <2>1
    <2>2. CASE j - 1 \in 1 .. Len(rest) /\ rows[j] = rest[j - 1]
      <3>1. PICK n \in 1 .. Len(vectors) : n <= (j - 1) + 1 /\ rest[j - 1] = vectors[n]
        BY <1>1, <2>2
      <3>2. QED BY <2>2, <3>1
    <2>3. QED BY <1>3, <2>1, <2>2
  <1>6. QED BY <1>2, <1>1, <1>4, <1>5 DEF rows, rest

LEMMA EmbedderInitInv == EmbedderInit => EmbedderInv
  <1> SUFFICES ASSUME EmbedderInit PROVE EmbedderInv
    OBVIOUS
  <1>1. 0 \in 0 .. Attempts
    BY EmbedderAssumption
  <1>2. failed \in [File -> 0 .. Attempts]
    BY <1>1 DEF EmbedderInit, NoFailures
  <1>3. Len(vectors) = 0 /\ vectors \in Seq(File)
    BY DEF EmbedderInit
  <1>4. EmbedderTypeOK
    BY <1>2, <1>3 DEF EmbedderInit, EmbedderTypeOK
  <1>5. OneRowEach(vectors)
    BY <1>3 DEF OneRowEach
  <1>6. QED BY <1>4, <1>5 DEF EmbedderInit, EmbedderInv, ToEmbed, StoredIsNotRedone

LEMMA EmbedderNextInv == EmbedderInv /\ [EmbedderNext]_embedderVars => EmbedderInv'
  <1> SUFFICES ASSUME EmbedderInv, [EmbedderNext]_embedderVars PROVE EmbedderInv'
    OBVIOUS
  <1> USE EmbedderAssumption
  <1>0. EmbedderTypeOK
    BY DEF EmbedderInv
  <1> DEFINE Attempt(p) == failed' = [failed EXCEPT ![p] = @ + 1]
  <1>1. ASSUME NEW p \in ToEmbed, Attempt(p)
        PROVE  failed' \in [File -> 0 .. Attempts] /\ \A q \in File \ {p} : failed'[q] = failed[q]
    <2>1. p \in File /\ failed[p] + 1 \in 0 .. Attempts
      BY <1>0 DEF EmbedderInv, EmbedderTypeOK, ToEmbed
    <2>2. QED BY <1>0, <1>1, <2>1 DEF EmbedderTypeOK
  <1> HIDE DEF Attempt
  <1>2. CASE Ping \/ GetPaths \/ QueryFails \/ Wake \/ Embed \/ StoreFails \/ RoundEnds
    BY <1>0, <1>2 DEF EmbedderInv, EmbedderTypeOK, ToEmbed, StoredIsNotRedone, Ping, GetPaths, QueryFails,
         Wake, Embed, StoreFails, RoundEnds, disk, round, bounds
  <1>3. CASE GetVectors
    <2>1. todo' \subseteq File /\ todo' \cap AllVectors = {} /\ \A p \in todo' : failed[p] < Attempts
      BY <1>0, <1>3 DEF GetVectors, Missing, EmbedderTypeOK
    <2>2. cur = None /\ cur' = None
      BY <1>3 DEF GetVectors, EmbedderInv
    <2>3. EmbedderTypeOK'
      BY <1>0, <1>3, <2>1 DEF GetVectors, EmbedderTypeOK, disk, bounds
    <2>4. StoredIsNotRedone'
      <3> SUFFICES ASSUME NEW i \in DOMAIN vectors, i <= MaxVectors
                   PROVE  vectors[i] \notin todo' \cup {None}
        BY <1>3, <2>2 DEF StoredIsNotRedone, GetVectors
      <3>1. vectors[i] \in AllVectors /\ vectors[i] \in File
        BY <1>0 DEF EmbedderTypeOK, AllVectors
      <3>2. QED BY <2>1, <3>1
    <2>5. QED BY <1>3, <2>1, <2>2, <2>3, <2>4 DEF GetVectors, EmbedderInv, EmbedderTypeOK, ToEmbed
  <1>4. ASSUME NEW p \in File, Read(p) PROVE EmbedderInv'
    BY <1>0, <1>4 DEF EmbedderInv, EmbedderTypeOK, ToEmbed, StoredIsNotRedone, Read, disk, bounds
  <1>5. ASSUME NEW p \in File, ReadFails(p) PROVE EmbedderInv'
    <2>1. p \in ToEmbed /\ Attempt(p)
      BY <1>5 DEF ReadFails, ToEmbed, Attempt
    <2>2. p \notin ToEmbed' /\ ToEmbed' \subseteq ToEmbed
      BY <1>5 DEF ReadFails, EmbedderInv, ToEmbed
    <2>3. \A q \in ToEmbed' : failed'[q] < Attempts
      BY <1>0, <1>1, <2>1, <2>2 DEF EmbedderInv, EmbedderTypeOK, ToEmbed
    <2>4. EmbedderTypeOK'
      BY <1>0, <1>1, <1>5, <2>1 DEF ReadFails, EmbedderTypeOK, disk, bounds
    <2>5. QED BY <1>5, <2>2, <2>3, <2>4 DEF ReadFails, EmbedderInv, StoredIsNotRedone, ToEmbed
  <1>6. CASE EmbedFails
    <2>1. cur \in ToEmbed /\ Attempt(cur)
      BY <1>6 DEF EmbedFails, EmbedderInv, ToEmbed, Attempt
    <2>2. cur \notin ToEmbed' /\ ToEmbed' \subseteq ToEmbed
      BY <1>6, <2>1 DEF EmbedFails, EmbedderInv, ToEmbed
    <2>3. \A q \in ToEmbed' : failed'[q] < Attempts
      BY <1>0, <1>1, <2>1, <2>2 DEF EmbedderInv, EmbedderTypeOK, ToEmbed
    <2>4. EmbedderTypeOK'
      BY <1>0, <1>1, <1>6, <2>1 DEF EmbedFails, EmbedderTypeOK, disk, bounds
    <2>5. QED BY <1>0, <1>6, <2>2, <2>3, <2>4 DEF EmbedFails, EmbedderInv, EmbedderTypeOK,
                                                  StoredIsNotRedone, ToEmbed
  <1>7. CASE Store
    <2>1. cur \in File /\ cur \notin todo
      BY <1>0, <1>7 DEF Store, EmbedderInv, EmbedderTypeOK
    <2>2. /\ vectors' \in Seq(File) /\ OneRowEach(vectors)'
          /\ \A j \in 1 .. Len(vectors') :
               \/ vectors'[j] = cur
               \/ \E n \in 1 .. Len(vectors) : n <= j /\ vectors'[j] = vectors[n]
      <3>1. vectors \in Seq(File) /\ OneRowEach(vectors)
        BY <1>0 DEF EmbedderInv, EmbedderTypeOK
      <3>2. vectors' = <<cur>> \o RowsBut(cur)
        BY <1>7 DEF Store
      <3>3. QED BY <2>1, <3>1, <3>2, UpsertVectorRows DEF OneRowEach
    <2>3. EmbedderTypeOK'
      BY <1>0, <1>7, <2>2 DEF Store, EmbedderTypeOK, disk, bounds
    <2>4. StoredIsNotRedone'
      <3> SUFFICES ASSUME NEW j \in 1 .. Len(vectors'), j <= MaxVectors
                   PROVE  vectors'[j] \notin todo \cup {None}
        BY <1>7, <2>2 DEF StoredIsNotRedone, Store
      <3>1. vectors'[j] \in File
        BY <2>2
      <3>2. ASSUME NEW n \in 1 .. Len(vectors), n <= j, vectors'[j] = vectors[n]
            PROVE  vectors'[j] \notin todo
        BY <1>0, <3>2 DEF EmbedderInv, EmbedderTypeOK, StoredIsNotRedone
      <3>3. QED BY <2>1, <2>2, <3>1, <3>2
    <2>5. QED BY <1>0, <1>7, <2>2, <2>3, <2>4 DEF Store, EmbedderInv, EmbedderTypeOK, ToEmbed
  <1>8. CASE Restart
    <2>1. failed' \in [File -> 0 .. Attempts]
      BY <1>8 DEF Restart, NoFailures
    <2>2. QED BY <1>0, <1>8, <2>1 DEF Restart, EmbedderInv, EmbedderTypeOK, ToEmbed, StoredIsNotRedone, disk
  <1>9. ASSUME NEW p \in File, FileChanges(p) \/ IndexAdds(p) \/ IndexDeletes(p) PROVE EmbedderInv'
    <2>1. EmbedderTypeOK'
      BY <1>0, <1>9 DEF EmbedderTypeOK, FileChanges, IndexAdds, IndexDeletes, Change, round
    <2>2. UNCHANGED <<vectors, pc, todo, cur, failed>>
      BY <1>9 DEF FileChanges, IndexAdds, IndexDeletes, Change, round
    <2>3. QED BY <2>1, <2>2 DEF EmbedderInv, ToEmbed, StoredIsNotRedone, OneRowEach
  <1>10. CASE UNCHANGED embedderVars
    BY <1>0, <1>10 DEF embedderVars, EmbedderInv, EmbedderTypeOK, ToEmbed, StoredIsNotRedone, OneRowEach
  <1>11. QED BY <1>2, <1>3, <1>4, <1>5, <1>6, <1>7, <1>8, <1>9, <1>10 DEF EmbedderNext, Run

LEMMA EmbedderInductive == EmbedderSpec => []EmbedderInv
  BY EmbedderInitInv, EmbedderNextInv, PTL DEF EmbedderSpec

(* Every variable keeps its type; no path fails more often than Run bears. *)
THEOREM EmbedderTypeCorrect == EmbedderSpec => []EmbedderTypeOK
  <1>1. EmbedderInv => EmbedderTypeOK
    BY DEF EmbedderInv
  <1>2. QED BY EmbedderInductive, <1>1, PTL

(* Run neither has in hand nor in its round a file whose vector is one of  *)
(* the maxVectors latest, however often it is restarted, whatever fails    *)
(* and however far the table has outgrown what AllVectors returns.         *)
THEOREM StoredIsLeftAlone == EmbedderSpec => []StoredIsNotRedone
  <1>1. EmbedderInv => StoredIsNotRedone
    BY DEF EmbedderInv
  <1>2. QED BY EmbedderInductive, <1>1, PTL

-----------------------------------------------------------------------------
(* LogRotation.  For any number of processes, any limit and any number of  *)
(* backups: no file outgrows the limit, what is kept is in order, and it   *)
(* is what was written last.                                               *)

LEMMA TextTyped ==
  ASSUME NEW f \in {NoFile} \cup Seq(0 .. MaxLine)
  PROVE  /\ Text(f) \in Seq(0 .. MaxLine) /\ Text(f) # NoFile
         /\ Len(Text(f)) \in Nat /\ Text(Text(f)) = Text(f)
  <1>1. Seq(0 .. MaxLine) \subseteq Seq(Nat)
    <2>1. 0 .. MaxLine \subseteq Nat
      BY SizeAssumption
    <2>2. QED BY <2>1, SeqMonotonic
  <1>2. <<>> \in Seq(0 .. MaxLine)
    OBVIOUS
  <1>3. Text(f) \in Seq(0 .. MaxLine)
    BY <1>2 DEF Text
  <1>4. Text(f) # NoFile
    BY <1>1, <1>3, SizeAssumption
  <1>5. QED BY <1>3, <1>4 DEF Text

(* A line written at an offset. *)
LEMMA AtTyped ==
  ASSUME NEW s \in Seq(0 .. MaxLine), NEW o \in Nat, NEW l \in 1 .. MaxLine
  PROVE  /\ At(s, o, l) \in Seq(0 .. MaxLine) /\ At(s, o, l) # NoFile
         /\ Len(At(s, o, l)) = IF o < Len(s) THEN Len(s) ELSE o + 1
  <1> DEFINE n == IF o < Len(s) THEN Len(s) ELSE o + 1
  <1>1. n \in Nat /\ 0 \in 0 .. MaxLine
    BY SizeAssumption
  <1> HIDE DEF n
  <1>2. ASSUME NEW i \in 1 .. n
        PROVE  (IF i = o + 1 THEN l ELSE IF i <= Len(s) THEN s[i] ELSE 0) \in 0 .. MaxLine
    <2>1. i <= Len(s) => s[i] \in 0 .. MaxLine
      <3> SUFFICES ASSUME i <= Len(s) PROVE s[i] \in 0 .. MaxLine
        OBVIOUS
      <3>1. i \in 1 .. Len(s)
        BY <1>1, LenProperties
      <3>2. QED BY <3>1, ElementOfSeq
    <2>2. l \in 0 .. MaxLine
      OBVIOUS
    <2>3. QED BY <1>1, <2>1, <2>2
  <1>3. At(s, o, l) \in [1 .. n -> 0 .. MaxLine]
    BY <1>2 DEF At, n
  <1>4. At(s, o, l) \in Seq(0 .. MaxLine) /\ Len(At(s, o, l)) = n
    <2>1. At(s, o, l) \in Seq(0 .. MaxLine) /\ DOMAIN At(s, o, l) = 1 .. n
      BY <1>1, <1>3, SeqDef
    <2>2. QED BY <1>1, <2>1
  <1>5. At(s, o, l) # NoFile
    BY <1>4, TextTyped, SizeAssumption DEF Text
  <1>6. QED BY <1>4, <1>5 DEF n

(* At the end of the file it is appended. *)
LEMMA AtAppends ==
  ASSUME NEW s \in Seq(0 .. MaxLine), NEW l \in 1 .. MaxLine
  PROVE  /\ Len(At(s, Len(s), l)) = Len(s) + 1
         /\ \A i \in 1 .. Len(s) : At(s, Len(s), l)[i] = s[i]
         /\ At(s, Len(s), l)[Len(s) + 1] = l
  <1>1. Len(s) \in Nat
    OBVIOUS
  <1>2. Len(At(s, Len(s), l)) = Len(s) + 1
    BY <1>1, AtTyped
  <1>3. QED BY <1>1, <1>2 DEF At

LEMMA LogInitType == LogInit => LogTypeOK
  <1> SUFFICES ASSUME LogInit PROVE LogTypeOK
    OBVIOUS
  <1>1. /\ file \in [0 .. MaxLogBackups -> {NoFile} \cup Seq(0 .. MaxLine)]
        /\ shift \in [Process -> 0 .. MaxLogBackups - 1]
        /\ pos \in [Process -> Nat] /\ size \in [Process -> Nat]
        /\ stage \in [Process -> {"out", "up", "put", "shift", "open", "fallback"}]
    BY SizeAssumption DEF LogInit
  <1>2. QED BY <1>1, SizeAssumption DEF LogInit, LogTypeOK

LEMMA LogNextType == LogTypeOK /\ [LogNext]_logVars => LogTypeOK'
  <1> SUFFICES ASSUME LogTypeOK, [LogNext]_logVars PROVE LogTypeOK'
    OBVIOUS
  <1> USE SizeAssumption
  <1>0. \A i \in 0 .. MaxLogBackups : /\ file[i] \in {NoFile} \cup Seq(0 .. MaxLine)
                                      /\ Text(file[i]) \in Seq(0 .. MaxLine)
                                      /\ Text(file[i]) # NoFile /\ Len(Text(file[i])) \in Nat
    BY TextTyped DEF LogTypeOK
  <1>a. 0 \in 0 .. MaxLogBackups
    OBVIOUS
  <1>1. CASE ReadLog \/ ReadEnds \/ UNCHANGED logVars
    BY <1>1 DEF LogTypeOK, ReadLog, ReadEnds, files, proc, ghost, logVars
  <1>2. ASSUME NEW p \in Process, Start(p) PROVE LogTypeOK'
    <2>1. file' \in [0 .. MaxLogBackups -> {NoFile} \cup Seq(0 .. MaxLine)] /\ file'[0] # NoFile
      BY <1>0, <1>a, <1>2 DEF Start, LogTypeOK
    <2>2. size' \in [Process -> Nat]
      BY <1>0, <1>a, <1>2 DEF Start, LogTypeOK
    <2>3. QED BY <1>2, <2>1, <2>2 DEF Start, LogTypeOK, ghost
  <1>3. ASSUME NEW p \in Process, Kill(p) PROVE LogTypeOK'
    BY <1>3 DEF Kill, LogTypeOK, files
  <1>4. ASSUME NEW p \in Process, Write(p) PROVE LogTypeOK'
    <2>0. FirstShifted \in 0 .. MaxLogBackups - 1
      BY DEF FirstShifted
    <2>1. /\ stage' \in [Process -> {"out", "up", "put", "shift", "open", "fallback"}]
          /\ shift' \in [Process -> 0 .. MaxLogBackups - 1]
      BY <1>4, <2>0 DEF Write, LogTypeOK
    <2>2. /\ append' \subseteq open' /\ open' \subseteq Process /\ open' \subseteq open
          /\ clashed' \in BOOLEAN
      BY <1>4 DEF Write, LogTypeOK
    <2>3. QED BY <1>4, <2>1, <2>2 DEF Write, LogTypeOK, files
  <1>5. ASSUME NEW p \in Process, Put(p) PROVE LogTypeOK'
    <2>1. CASE p \notin open
      BY <1>5, <2>1 DEF Put, LogTypeOK, files
    <2>2. CASE p \in open
      <3> DEFINE o == IF p \in append THEN Len(file[0]) ELSE pos[p]
      <3>1. file[0] # NoFile /\ file[0] \in Seq(0 .. MaxLine)
        BY <1>0, <1>a, <2>2 DEF LogTypeOK
      <3>2. o \in Nat /\ line + 1 \in 1 .. MaxLine
        BY <1>5, <2>2, <3>1 DEF Put, LogTypeOK
      <3>3. /\ file' = [file EXCEPT ![0] = At(@, o, line + 1)]
            /\ line' = line + 1 /\ pos' = [pos EXCEPT ![p] = o + 1]
            /\ shared' \in BOOLEAN /\ clashed' \in BOOLEAN
            /\ size' = [size EXCEPT ![p] = @ + 1]
        BY <1>5, <2>2 DEF Put
      <3> HIDE DEF o
      <3>4. At(file[0], o, line + 1) \in Seq(0 .. MaxLine)
        BY <3>1, <3>2, AtTyped
      <3>5. /\ file' \in [0 .. MaxLogBackups -> {NoFile} \cup Seq(0 .. MaxLine)]
            /\ pos' \in [Process -> Nat] /\ size' \in [Process -> Nat]
        BY <3>2, <3>3, <3>4 DEF LogTypeOK
      <3>6. file'[0] # NoFile
        BY <1>a, <3>1, <3>2, <3>3, AtTyped DEF LogTypeOK
      <3>7. QED BY <1>5, <3>2, <3>3, <3>5, <3>6 DEF Put, LogTypeOK
    <2>3. QED BY <2>1, <2>2
  <1>6. ASSUME NEW p \in Process, ShiftBackup(p) PROVE LogTypeOK'
    <2>1. /\ file' \in [0 .. MaxLogBackups -> {NoFile} \cup Seq(0 .. MaxLine)]
          /\ file'[0] = file[0] /\ unmoved' \in BOOLEAN
      <3> DEFINE i == shift[p]
      <3>1. i \in 1 .. MaxLogBackups - 1 /\ i + 1 \in 0 .. MaxLogBackups /\ i \in 0 .. MaxLogBackups
        BY <1>6 DEF ShiftBackup, LogTypeOK
      <3>2. Move(i, i + 1) \/ Stay(i)
        BY <1>6 DEF ShiftBackup
      <3> HIDE DEF i
      <3>3. CASE Move(i, i + 1)
        <4>1. file' = [file EXCEPT ![i] = NoFile, ![i + 1] = file[i]] /\ unmoved' = unmoved
          BY <3>3 DEF Move
        <4> DEFINE Lines == {NoFile} \cup Seq(0 .. MaxLine)
        <4>2. file \in [0 .. MaxLogBackups -> Lines] /\ NoFile \in Lines /\ unmoved \in BOOLEAN
          BY DEF LogTypeOK
        <4> HIDE DEF Lines
        <4>3. file[i] \in Lines
          BY <3>1, <4>2
        <4>4. file' \in [0 .. MaxLogBackups -> Lines]
          BY <4>1, <4>2, <4>3
        <4>5. file'[0] = file[0]
          BY <3>1, <4>1, <4>2
        <4>6. QED BY <4>1, <4>2, <4>4, <4>5 DEF Lines
      <3>4. CASE Stay(i)
        <4>1. file' = file /\ unmoved' \in BOOLEAN
          BY <3>4 DEF Stay
        <4>2. QED BY <4>1 DEF LogTypeOK
      <3>5. QED BY <3>2, <3>3, <3>4
    <2>2. shift' \in [Process -> 0 .. MaxLogBackups - 1]
      BY <1>6 DEF ShiftBackup, LogTypeOK
    <2>3. QED BY <1>6, <2>1, <2>2 DEF ShiftBackup, LogTypeOK
  <1>7. ASSUME NEW p \in Process, ShiftLog(p) PROVE LogTypeOK'
    <2>1. /\ file' \in [0 .. MaxLogBackups -> {NoFile} \cup Seq(0 .. MaxLine)]
          /\ open = {} \/ file' = file
          /\ unmoved' \in BOOLEAN
      <3>1. CASE open = {} /\ Move(0, 1)
        <4>1. file' = [file EXCEPT ![0] = NoFile, ![1] = file[0]] /\ unmoved' = unmoved
          BY <3>1 DEF Move
        <4>2. 1 \in 0 .. MaxLogBackups
          OBVIOUS
        <4>3. QED BY <1>0, <1>a, <3>1, <4>1, <4>2 DEF LogTypeOK
      <3>2. CASE Stay(0)
        <4>1. file' = file /\ unmoved' \in BOOLEAN
          BY <3>2 DEF Stay
        <4>2. QED BY <4>1 DEF LogTypeOK
      <3>3. QED BY <1>7, <3>1, <3>2 DEF ShiftLog
    <2>2. QED BY <1>7, <2>1 DEF ShiftLog, LogTypeOK
  <1>8. ASSUME NEW p \in Process, OpenEmpty(p) PROVE LogTypeOK'
    <2>1. <<>> \in Seq(0 .. MaxLine) /\ <<>> # NoFile
      BY TextTyped DEF Text
    <2>2. QED BY <1>8, <1>a, <2>1 DEF OpenEmpty, Opened, LogTypeOK, ghost
  <1>9. ASSUME NEW p \in Process, OpenEmptyFails(p) PROVE LogTypeOK'
    BY <1>9 DEF OpenEmptyFails, LogTypeOK, files, ghost
  <1>10. ASSUME NEW p \in Process, Fallback(p) PROVE LogTypeOK'
    <2>1. /\ file' \in [0 .. MaxLogBackups -> {NoFile} \cup Seq(0 .. MaxLine)]
          /\ file'[0] = NoFile => open' = {}
          /\ append' \subseteq open' /\ open' \subseteq Process
      BY <1>10, <1>0, <1>a DEF Fallback, Opened, LogTypeOK
    <2>2. QED BY <1>10, <2>1 DEF Fallback, Opened, LogTypeOK
  <1>11. QED
    BY <1>1, <1>2, <1>3, <1>4, <1>5, <1>6, <1>7, <1>8, <1>9, <1>10 DEF LogNext, Rotate

(* What a process knows of its handle; the length of the log.              *)
HandleOK(p) ==
  /\ p \in open => stage[p] \in {"up", "put"}
  /\ stage[p] = "put" => ~Full(p)
  /\ p \in open \ append => pos[p] = size[p]
  /\ stage[p] \in {"up", "put"} /\ p \notin open => size[p] = 0

HandlesInv == LogTypeOK /\ \A p \in Process : HandleOK(p)

LogLen == Len(Text(file[0]))

(* The types at hand in every proof below. *)
LEMMA LogTypes ==
  ASSUME LogTypeOK
  PROVE  /\ 0 \in 0 .. MaxLogBackups /\ LogLen \in Nat
         /\ MaxLogSize \in Nat \ {0} /\ MaxLogBackups \in Nat \ {0}
         /\ \A i \in 0 .. MaxLogBackups : /\ Text(file[i]) \in Seq(0 .. MaxLine)
                                          /\ Len(Text(file[i])) \in Nat
         /\ \A p \in Process : pos[p] \in Nat /\ size[p] \in Nat
         /\ line \in Nat /\ MaxLine \in Nat
  <1>1. 0 \in 0 .. MaxLogBackups
    BY SizeAssumption
  <1>2. \A i \in 0 .. MaxLogBackups : /\ Text(file[i]) \in Seq(0 .. MaxLine)
                                      /\ Len(Text(file[i])) \in Nat
    BY TextTyped DEF LogTypeOK
  <1>3. QED BY <1>1, <1>2, SizeAssumption DEF LogTypeOK, LogLen

(* What the steps do to the files. *)
LEMMA StartKeepsText ==
  ASSUME LogTypeOK, NEW p \in Process, Start(p)
  PROVE  \A i \in 0 .. MaxLogBackups : Text(file'[i]) = Text(file[i])
  <1>1. \A i \in 0 .. MaxLogBackups : file'[i] = IF i = 0 THEN Text(file[0]) ELSE file[i]
    BY LogTypes DEF Start, LogTypeOK
  <1>2. QED BY <1>1, TextTyped DEF LogTypeOK

LEMMA ShiftBackupFiles ==
  ASSUME LogTypeOK, NEW p \in Process, ShiftBackup(p)
  PROVE  LET i == shift[p] IN
         /\ i \in 1 .. MaxLogBackups - 1
         /\ \/ /\ file[i] # NoFile /\ unmoved' = unmoved
               /\ file'[i] = NoFile /\ file'[i + 1] = file[i]
               /\ \A j \in 0 .. MaxLogBackups : j # i /\ j # i + 1 => file'[j] = file[j]
            \/ file' = file /\ (file[i] = NoFile \/ unmoved')
         /\ \A j \in 0 .. MaxLogBackups :
              Text(file'[j]) = <<>> \/ \E k \in 0 .. MaxLogBackups : file'[j] = file[k]
         /\ file'[0] = file[0]
  <1> DEFINE i == shift[p]
  <1>1. i \in 1 .. MaxLogBackups - 1 /\ i + 1 \in 0 .. MaxLogBackups /\ i \in 0 .. MaxLogBackups
    BY SizeAssumption DEF ShiftBackup, LogTypeOK
  <1>2. (file[i] # NoFile /\ Move(i, i + 1)) \/ Stay(i)
    BY DEF ShiftBackup
  <1> HIDE DEF i
  <1>3. CASE file[i] # NoFile /\ Move(i, i + 1)
    <2>1. file' = [file EXCEPT ![i] = NoFile, ![i + 1] = file[i]] /\ unmoved' = unmoved
      BY <1>3 DEF Move
    <2>2. file \in [0 .. MaxLogBackups -> {NoFile} \cup Seq(0 .. MaxLine)] /\ MaxLogBackups \in Nat
      BY LogTypes DEF LogTypeOK
    <2>3. /\ file'[i] = NoFile /\ file'[i + 1] = file[i]
          /\ \A j \in 0 .. MaxLogBackups : j # i /\ j # i + 1 => file'[j] = file[j]
      BY <1>1, <2>1, <2>2
    <2>4. ASSUME NEW j \in 0 .. MaxLogBackups
          PROVE  Text(file'[j]) = <<>> \/ \E k \in 0 .. MaxLogBackups : file'[j] = file[k]
      BY <1>1, <2>3 DEF Text
    <2>5. file'[0] = file[0]
      BY <1>1, <2>2, <2>3
    <2>6. QED BY <1>1, <1>3, <2>1, <2>3, <2>4, <2>5 DEF i
  <1>4. CASE Stay(i)
    BY <1>1, <1>4, LogTypes DEF Stay, i
  <1>5. QED BY <1>2, <1>3, <1>4

LEMMA ShiftLogFiles ==
  ASSUME LogTypeOK, NEW p \in Process, ShiftLog(p)
  PROVE  /\ \/ /\ file[0] # NoFile /\ open = {} /\ unmoved' = unmoved
               /\ file'[0] = NoFile /\ file'[1] = file[0]
               /\ \A j \in 2 .. MaxLogBackups : file'[j] = file[j]
            \/ file' = file /\ (file[0] = NoFile \/ unmoved')
         /\ \A j \in 0 .. MaxLogBackups :
              Text(file'[j]) = <<>> \/ \E k \in 0 .. MaxLogBackups : file'[j] = file[k]
         /\ Text(file'[0]) = <<>> \/ file'[0] = file[0]
  <1>1. (file[0] # NoFile /\ open = {} /\ Move(0, 1)) \/ Stay(0)
    BY DEF ShiftLog
  <1>2. 0 \in 0 .. MaxLogBackups /\ 1 \in 0 .. MaxLogBackups
    BY SizeAssumption
  <1>3. CASE file[0] # NoFile /\ open = {} /\ Move(0, 1)
    <2>1. file' = [file EXCEPT ![0] = NoFile, ![1] = file[0]] /\ unmoved' = unmoved
      BY <1>3 DEF Move
    <2>2. file \in [0 .. MaxLogBackups -> {NoFile} \cup Seq(0 .. MaxLine)] /\ MaxLogBackups \in Nat
      BY LogTypes DEF LogTypeOK
    <2>3. /\ file'[0] = NoFile /\ file'[1] = file[0]
          /\ \A j \in 0 .. MaxLogBackups : j # 0 /\ j # 1 => file'[j] = file[j]
      BY <1>2, <2>1, <2>2
    <2>4. ASSUME NEW j \in 0 .. MaxLogBackups
          PROVE  Text(file'[j]) = <<>> \/ \E k \in 0 .. MaxLogBackups : file'[j] = file[k]
      BY <1>2, <2>3 DEF Text
    <2>5. \A j \in 2 .. MaxLogBackups : file'[j] = file[j]
      BY <2>2, <2>3
    <2>6. QED BY <1>3, <2>1, <2>3, <2>4, <2>5 DEF Text
  <1>4. CASE Stay(0)
    BY <1>2, <1>4 DEF Stay
  <1>5. QED BY <1>1, <1>3, <1>4

LEMMA OpenEmptyFiles ==
  ASSUME LogTypeOK, NEW p \in Process, OpenEmpty(p)
  PROVE  /\ Text(file'[0]) = <<>>
         /\ \A i \in 0 .. MaxLogBackups : i # 0 => file'[i] = file[i]
  <1>1. file' = [file EXCEPT ![0] = <<>>]
    BY DEF OpenEmpty, Opened
  <1>2. QED BY <1>1, LogTypes DEF LogTypeOK, Text

LEMMA FallbackKeepsText ==
  ASSUME LogTypeOK, NEW p \in Process, Fallback(p)
  PROVE  \A i \in 0 .. MaxLogBackups : Text(file'[i]) = Text(file[i])
  <1>1. CASE file' = file
    BY <1>1
  <1>2. CASE file' = [file EXCEPT ![0] = Text(file[0])]
    <2>1. \A i \in 0 .. MaxLogBackups : file'[i] = IF i = 0 THEN Text(file[0]) ELSE file[i]
      BY <1>2, LogTypes DEF LogTypeOK
    <2>2. QED BY <2>1, TextTyped DEF LogTypeOK
  <1>3. QED BY <1>1, <1>2 DEF Fallback, Opened

LEMMA HandlesInit == LogInit => HandlesInv
  BY LogInitType DEF LogInit, HandlesInv, HandleOK

LEMMA HandlesNext == HandlesInv /\ [LogNext]_logVars => HandlesInv'
  <1> SUFFICES ASSUME HandlesInv, [LogNext]_logVars PROVE HandlesInv'
    OBVIOUS
  <1>0. LogTypeOK /\ LogTypeOK'
    BY LogNextType DEF HandlesInv
  <1> SUFFICES ASSUME NEW q \in Process PROVE HandleOK(q)'
    BY <1>0 DEF HandlesInv
  <1>a. HandleOK(q) /\ size[q] \in Nat /\ pos[q] \in Nat
    BY <1>0, LogTypes DEF HandlesInv
  <1>1. CASE ReadLog \/ ReadEnds \/ UNCHANGED logVars
    BY <1>a, <1>1 DEF HandleOK, Full, ReadLog, ReadEnds, files, proc, ghost, logVars
  <1>2. ASSUME NEW p \in Process, Start(p) PROVE HandleOK(q)'
    BY <1>0, <1>a, <1>2 DEF Start, HandleOK, Full, LogTypeOK
  <1>3. ASSUME NEW p \in Process, Kill(p) PROVE HandleOK(q)'
    BY <1>0, <1>a, <1>3 DEF Kill, HandleOK, Full, LogTypeOK
  <1>4. ASSUME NEW p \in Process, Write(p) PROVE HandleOK(q)'
    <2>1. CASE Full(p)
      BY <1>0, <1>a, <1>4, <2>1 DEF Write, HandleOK, Full, LogTypeOK
    <2>2. CASE ~Full(p)
      BY <1>0, <1>a, <1>4, <2>2 DEF Write, HandleOK, Full, LogTypeOK
    <2>3. QED BY <2>1, <2>2
  <1>5. ASSUME NEW p \in Process, Put(p) PROVE HandleOK(q)'
    BY <1>0, <1>a, <1>5 DEF Put, HandleOK, Full, LogTypeOK
  <1>6. ASSUME NEW p \in Process, ShiftBackup(p) \/ ShiftLog(p) PROVE HandleOK(q)'
    BY <1>0, <1>a, <1>6 DEF ShiftBackup, ShiftLog, HandleOK, Full, LogTypeOK
  <1>7. ASSUME NEW p \in Process, OpenEmpty(p) PROVE HandleOK(q)'
    BY <1>0, <1>a, <1>7, SizeAssumption DEF OpenEmpty, Opened, HandleOK, Full, LogTypeOK
  <1>8. ASSUME NEW p \in Process, OpenEmptyFails(p) PROVE HandleOK(q)'
    BY <1>0, <1>a, <1>8 DEF OpenEmptyFails, HandleOK, Full, LogTypeOK
  <1>9. ASSUME NEW p \in Process, Fallback(p) PROVE HandleOK(q)'
    <2>1. q # p => append' \cap {q} = append \cap {q}
      BY <1>9 DEF Fallback
    <2>2. QED BY <1>0, <1>a, <1>9, <2>1, SizeAssumption DEF Fallback, Opened, HandleOK, Full, LogTypeOK
  <1>10. QED
    BY <1>1, <1>2, <1>3, <1>4, <1>5, <1>6, <1>7, <1>8, <1>9 DEF LogNext, Rotate

(* While processes write one at a time and rotations open an empty log, no *)
(* file outgrows the limit, for every process that writes has counted what *)
(* is in the log.                                                          *)
BoundInv ==
  /\ Bounded
  /\ ~shared /\ ~reopened =>
       \A p \in Process : stage[p] \in {"up", "put"} =>
         p \in open /\ LogLen <= size[p]

LEMMA BoundInit == LogInit => BoundInv
  BY SizeAssumption DEF LogInit, BoundInv, Bounded, Text

LEMMA BoundNext == HandlesInv /\ BoundInv /\ [LogNext]_logVars => BoundInv'
  <1> SUFFICES ASSUME HandlesInv, BoundInv, [LogNext]_logVars, ~shared', ~reopened'
               PROVE  /\ \A i \in 0 .. MaxLogBackups : Len(Text(file'[i])) <= MaxLogSize
                      /\ \A p \in Process : stage'[p] \in {"up", "put"} =>
                           p \in open' /\ LogLen' <= size'[p]
    BY DEF BoundInv, Bounded, LogLen
  <1>0. LogTypeOK /\ LogTypeOK'
    BY LogNextType DEF HandlesInv
  <1>a. ~shared /\ ~reopened
    <2>1. ASSUME NEW p \in Process, Put(p) PROVE ~shared /\ ~reopened
      BY <2>1 DEF Put
    <2>2. ASSUME NEW p \in Process, Fallback(p) PROVE ~shared /\ ~reopened
      BY <2>2 DEF Fallback
    <2>3. QED BY <2>1, <2>2 DEF LogNext, Rotate, logVars, ghost, ReadLog, ReadEnds, Start, Kill, Write,
                   ShiftBackup, ShiftLog, OpenEmpty, OpenEmptyFails
  <1>b. /\ \A i \in 0 .. MaxLogBackups : Len(Text(file[i])) <= MaxLogSize
        /\ \A p \in Process : stage[p] \in {"up", "put"} =>
             p \in open /\ LogLen <= size[p]
    BY <1>a DEF BoundInv, Bounded
  <1> DEFINE Smaller == \A i \in 0 .. MaxLogBackups : Len(Text(file'[i])) <= MaxLogSize
             Counted == \A p \in Process : stage'[p] \in {"up", "put"} =>
                          p \in open' /\ LogLen' <= size'[p]
  <1>1. CASE ReadLog \/ ReadEnds \/ UNCHANGED logVars
    BY <1>b, <1>1 DEF LogLen, ReadLog, ReadEnds, files, proc, ghost, logVars
  <1>2. ASSUME NEW p \in Process, Start(p) PROVE Smaller /\ Counted
    <2>1. \A i \in 0 .. MaxLogBackups : Text(file'[i]) = Text(file[i])
      BY <1>0, <1>2, StartKeepsText
    <2>2. LogLen' = LogLen /\ LogLen \in Nat
      BY <1>0, <2>1, LogTypes DEF LogLen
    <2>3. size' = [size EXCEPT ![p] = LogLen]
      BY <1>2 DEF Start, LogLen
    <2>4. QED BY <1>0, <1>b, <1>2, <2>1, <2>2, <2>3 DEF Start, LogTypeOK
  <1>3. ASSUME NEW p \in Process, Kill(p) PROVE Smaller /\ Counted
    BY <1>0, <1>b, <1>3 DEF Kill, files, LogLen, LogTypeOK
  <1>4. ASSUME NEW p \in Process, Write(p) PROVE Smaller /\ Counted
    <2>1. /\ \A q \in Process : stage'[q] \in {"up", "put"} =>
               stage[q] \in {"up", "put"} /\ (q \in open => q \in open')
      BY <1>0, <1>4 DEF Write, LogTypeOK
    <2>2. QED BY <1>b, <1>4, <2>1 DEF Write, files, LogLen
  <1>5. ASSUME NEW p \in Process, Put(p) PROVE Smaller /\ Counted
    <2>1. p \in open /\ Others(p) = {}
      <3>1. p \in open
        BY <1>b, <1>5 DEF Put
      <3>2. QED BY <1>5, <3>1 DEF Put
    <2>2. PICK o \in Nat : /\ file' = [file EXCEPT ![0] = At(@, o, line + 1)]
                           /\ o <= size[p]
      <3>1. CASE p \in append
        <4>1. Len(file[0]) = LogLen
          BY <1>0, <2>1 DEF LogTypeOK, LogLen, Text
        <4>2. QED BY <1>0, <1>b, <1>5, <2>1, <3>1, <4>1, LogTypes DEF Put
      <3>2. CASE p \notin append
        BY <1>0, <1>5, <2>1, <3>2, LogTypes DEF Put, HandlesInv, HandleOK
      <3>3. QED BY <3>1, <3>2
    <2>3. /\ file[0] \in Seq(0 .. MaxLine) /\ Len(file[0]) = LogLen
          /\ line + 1 \in 1 .. MaxLine
      BY <1>0, <1>5, <2>1, LogTypes DEF Put, LogTypeOK, LogLen, Text
    <2>4. LogLen' <= size[p] + 1
      <3>1. At(file[0], o, line + 1) # NoFile /\ file'[0] = At(file[0], o, line + 1)
        BY <1>0, <2>2, <2>3, AtTyped, LogTypes DEF LogTypeOK
      <3>2. LogLen' = Len(At(file[0], o, line + 1))
        BY <3>1 DEF LogLen, Text
      <3>3. LogLen <= size[p]
        BY <1>b, <1>5 DEF Put
      <3>4. LogLen' = IF o < LogLen THEN LogLen ELSE o + 1
        BY <2>3, <3>2, AtTyped
      <3>5. QED BY <1>0, <2>2, <3>3, <3>4, LogTypes
    <2>5. size[p] + 1 <= MaxLogSize
      BY <1>0, <1>5, LogTypes DEF HandlesInv, HandleOK, Full, Put
    <2>6. Smaller
      <3>1. Len(Text(file'[0])) <= MaxLogSize
        BY <1>0, <2>4, <2>5, LogTypes DEF LogLen
      <3>2. \A i \in 0 .. MaxLogBackups : i # 0 => file'[i] = file[i]
        BY <1>0, <2>2 DEF LogTypeOK
      <3>3. QED BY <1>b, <3>1, <3>2
    <2>7. size' = [size EXCEPT ![p] = @ + 1] /\ open' = open
      BY <1>5, <2>1 DEF Put
    <2>8. \A q \in Process : q # p => stage'[q] = "out"
      BY <1>0, <1>5, <2>1 DEF Put, Others, LogTypeOK
    <2>9. QED BY <1>0, <2>1, <2>4, <2>6, <2>7, <2>8 DEF LogTypeOK
  <1>6. ASSUME NEW p \in Process, ShiftBackup(p) PROVE Smaller /\ Counted
    <2>1. /\ \A i \in 0 .. MaxLogBackups :
               Text(file'[i]) = <<>> \/ \E j \in 0 .. MaxLogBackups : file'[i] = file[j]
          /\ file'[0] = file[0]
      BY <1>0, <1>6, ShiftBackupFiles
    <2>2. QED BY <1>0, <1>b, <1>6, <2>1, LogTypes DEF ShiftBackup, LogLen
  <1>7. ASSUME NEW p \in Process, ShiftLog(p) PROVE Smaller /\ Counted
    <2>1. /\ \A i \in 0 .. MaxLogBackups :
               Text(file'[i]) = <<>> \/ \E j \in 0 .. MaxLogBackups : file'[i] = file[j]
          /\ Text(file'[0]) = <<>> \/ file'[0] = file[0]
      BY <1>0, <1>7, ShiftLogFiles
    <2>2. LogLen' \in Nat /\ LogLen' <= LogLen
      BY <1>0, <2>1, LogTypes DEF LogLen
    <2>3. Smaller
      BY <1>0, <1>b, <2>1, LogTypes
    <2>4. QED BY <1>0, <1>b, <1>7, <2>2, <2>3, LogTypes DEF ShiftLog, LogTypeOK
  <1>8. ASSUME NEW p \in Process, OpenEmpty(p) PROVE Smaller /\ Counted
    <2>1. LogLen' = 0 /\ \A i \in 0 .. MaxLogBackups : i # 0 => file'[i] = file[i]
      BY <1>0, <1>8, OpenEmptyFiles DEF LogLen
    <2>2. Smaller
      BY <1>0, <1>b, <2>1, LogTypes DEF LogLen
    <2>3. QED BY <1>0, <1>b, <1>8, <2>1, <2>2, LogTypes DEF OpenEmpty, Opened, LogTypeOK
  <1>9. ASSUME NEW p \in Process, OpenEmptyFails(p) PROVE Smaller /\ Counted
    BY <1>0, <1>b, <1>9 DEF OpenEmptyFails, files, LogLen, LogTypeOK
  <1>10. ASSUME NEW p \in Process, Fallback(p) PROVE Smaller /\ Counted
    BY <1>10 DEF Fallback
  <1>11. QED
    BY <1>1, <1>2, <1>3, <1>4, <1>5, <1>6, <1>7, <1>8, <1>9, <1>10 DEF LogNext, Rotate

(* A process that opened the log in a rotation writes without O_APPEND, at *)
(* its own offset.  That is the end of the log, or its next Write rotates, *)
(* unless processes have clashed; and as long as they have not, only one   *)
(* rotates at a time.                                                      *)
FullUp(p) == stage[p] = "up" /\ Full(p)

WritesAtEnd(p) ==
  \/ FullUp(p)
  \/ pos[p] = LogLen /\ (pos[p] = 0 \/ \A q \in Others(p) : ~Full(q))

Rotating == {p \in Process : stage[p] \in {"shift", "open", "fallback"}}

OffsetInv ==
  ~clashed =>
    /\ \A p \in open \ append : /\ WritesAtEnd(p)
                                /\ Rotating # {} => FullUp(p) \/ pos[p] = 0
    /\ \A p, q \in Rotating : p = q

(* Which steps can end a run without a clash. *)
LEMMA ClashLasts ==
  ASSUME LogTypeOK, [LogNext]_logVars, ~clashed'
  PROVE  ~clashed
  <1>1. ASSUME NEW p \in Process, Put(p) PROVE ~clashed
    BY <1>1 DEF Put
  <1>2. ASSUME NEW p \in Process, Write(p) PROVE ~clashed
    BY <1>2 DEF Write
  <1>3. QED BY <1>1, <1>2 DEF LogNext, Rotate, logVars, ghost, ReadLog, ReadEnds, Start, Kill,
                 ShiftBackup, ShiftLog, OpenEmpty, OpenEmptyFails, Fallback

LEMMA OffsetInit == LogInit => OffsetInv
  BY DEF LogInit, OffsetInv, Rotating

(* Nobody writes while another rotates, or clashes. *)
LEMMA PutAlone ==
  ASSUME HandlesInv, NEW p \in Process, Put(p), p \in open, ~clashed'
  PROVE  /\ Others(p) = {} \/ Others(p) \cup {p} \subseteq append
         /\ \A q \in Rotating : q = p
  <1>1. Others(p) = {} \/ Others(p) \cup {p} \subseteq append
    BY DEF Put
  <1>2. ASSUME NEW q \in Rotating, q # p PROVE FALSE
    <2>1. q \in Others(p) /\ q \notin open
      BY <1>2 DEF Rotating, Others, HandlesInv, HandleOK
    <2>2. append \subseteq open
      BY DEF HandlesInv, LogTypeOK
    <2>3. QED BY <1>1, <2>1, <2>2
  <1>3. QED BY <1>1, <1>2

(* As long as nobody clashes, Put appends to the log. *)
LEMMA PutAppends ==
  ASSUME HandlesInv, OffsetInv, NEW p \in Process, Put(p), p \in open, ~clashed, ~clashed'
  PROVE  /\ line' = line + 1 /\ LogLen' = LogLen + 1
         /\ \A i \in 0 .. MaxLogBackups : i # 0 => file'[i] = file[i]
         /\ \A a \in 1 .. LogLen : Text(file'[0])[a] = Text(file[0])[a]
         /\ Text(file'[0])[LogLen + 1] = line + 1
         /\ Text(file[0]) \in Seq(0 .. MaxLine) /\ Text(file'[0]) \in Seq(0 .. MaxLine)
         /\ LogLen \in Nat
  <1>0. LogTypeOK
    BY DEF HandlesInv
  <1>1. /\ file[0] \in Seq(0 .. MaxLine) /\ Text(file[0]) = file[0] /\ Len(file[0]) = LogLen
        /\ line + 1 \in 1 .. MaxLine /\ LogLen \in Nat
    <2>1. line < MaxLine
      BY DEF Put
    <2>2. file[0] # NoFile /\ line + 1 \in 1 .. MaxLine
      BY <1>0, <2>1, LogTypes DEF LogTypeOK
    <2>3. QED BY <1>0, <2>2, LogTypes DEF LogTypeOK, LogLen, Text
  <1>2. p \notin append => pos[p] = LogLen
    <2> SUFFICES ASSUME p \notin append PROVE pos[p] = LogLen
      OBVIOUS
    <2>1. WritesAtEnd(p)
      BY DEF OffsetInv
    <2>2. QED BY <2>1 DEF Put, WritesAtEnd, FullUp
  <1> DEFINE s == At(file[0], LogLen, line + 1)
  <1>3. file' = [file EXCEPT ![0] = s]
    BY <1>1, <1>2 DEF Put
  <1>4. /\ s # NoFile /\ s \in Seq(0 .. MaxLine)
        /\ Len(s) = IF LogLen < Len(file[0]) THEN Len(file[0]) ELSE LogLen + 1
    BY <1>1, AtTyped
  <1>5. (\A a \in 1 .. LogLen : s[a] = file[0][a]) /\ s[LogLen + 1] = line + 1
    BY <1>1, AtAppends
  <1> HIDE DEF s
  <1>6. file'[0] = s /\ Text(file'[0]) = s /\ \A i \in 0 .. MaxLogBackups : i # 0 => file'[i] = file[i]
    BY <1>0, <1>3, <1>4, LogTypes DEF LogTypeOK, Text
  <1>7. line' = line + 1
    BY DEF Put
  <1>8. LogLen' = LogLen + 1
    BY <1>1, <1>4, <1>6 DEF LogLen
  <1>9. QED BY <1>1, <1>4, <1>5, <1>6, <1>7, <1>8

LEMMA OffsetNext == HandlesInv /\ OffsetInv /\ [LogNext]_logVars => OffsetInv'
  <1> SUFFICES ASSUME HandlesInv, OffsetInv, [LogNext]_logVars, ~clashed'
               PROVE  /\ \A q \in open' \ append' : /\ WritesAtEnd(q)'
                                                    /\ Rotating' # {} => FullUp(q)' \/ pos'[q] = 0
                      /\ \A q, r \in Rotating' : q = r
    BY DEF OffsetInv
  <1>0. LogTypeOK /\ LogTypeOK'
    BY LogNextType DEF HandlesInv
  <1>a. ~clashed
    BY <1>0, ClashLasts
  <1>b. /\ \A q \in open \ append : /\ WritesAtEnd(q)
                                    /\ Rotating # {} => FullUp(q) \/ pos[q] = 0
        /\ \A q, r \in Rotating : q = r
    BY <1>a DEF OffsetInv
  <1>c. \A q \in Process : HandleOK(q) /\ size[q] \in Nat /\ pos[q] \in Nat
    BY <1>0, LogTypes DEF HandlesInv
  <1>d. open \subseteq Process /\ open' \subseteq Process /\ MaxLogSize \in Nat \ {0} /\ LogLen \in Nat
    BY <1>0, LogTypes DEF LogTypeOK
  <1> DEFINE Ends == \A q \in open' \ append' : /\ WritesAtEnd(q)'
                                                /\ Rotating' # {} => FullUp(q)' \/ pos'[q] = 0
             One == \A q, r \in Rotating' : q = r
  <1>1. CASE ReadLog \/ ReadEnds \/ UNCHANGED logVars
    <2>1. UNCHANGED <<files, proc>>
      BY <1>1 DEF ReadLog, ReadEnds, logVars
    <2>2. QED BY <1>b, <2>1 DEF files, proc, WritesAtEnd, FullUp, Full, LogLen, Others, Rotating
  <1>2. ASSUME NEW p \in Process, Start(p) PROVE Ends /\ One
    <2>1. LogLen' = LogLen /\ size' = [size EXCEPT ![p] = LogLen] /\ pos' = pos
      BY <1>0, <1>2, StartKeepsText, LogTypes DEF Start, LogLen
    <2>2. Rotating' = Rotating
      BY <1>0, <1>2 DEF Start, Rotating, LogTypeOK
    <2>3. ASSUME NEW q \in open' \ append'
          PROVE  WritesAtEnd(q)' /\ (Rotating' # {} => FullUp(q)' \/ pos'[q] = 0)
      <3>1. q \in open \ append /\ q # p /\ q \in Process
        BY <1>2, <1>d DEF Start
      <3>2. FullUp(q) => FullUp(q)'
        BY <1>0, <1>2, <2>1, <3>1 DEF Start, FullUp, Full, LogTypeOK
      <3>3. CASE FullUp(q)
        BY <3>2, <3>3 DEF WritesAtEnd
      <3>4. CASE ~FullUp(q)
        <4>1. pos[q] = LogLen /\ ~Full(q) /\ pos[q] = size[q]
          BY <1>b, <1>c, <3>1, <3>4 DEF WritesAtEnd, HandleOK, FullUp
        <4>2. \A r \in Others(q)' : r = p \/ r \in Others(q)
          BY <1>0, <1>2 DEF Start, Others, LogTypeOK
        <4>3. ~Full(p)'
          BY <1>0, <1>c, <1>d, <2>1, <4>1, <3>1 DEF Full, LogTypeOK
        <4>4. \A r \in Others(q) : r # p => (Full(r)' <=> Full(r))
          BY <1>0, <2>1 DEF Full, Others, LogTypeOK
        <4>5. pos[q] = 0 \/ \A r \in Others(q)' : ~Full(r)'
          BY <1>b, <3>1, <3>4, <4>2, <4>3, <4>4 DEF WritesAtEnd
        <4>6. QED BY <1>b, <2>1, <2>2, <3>1, <3>4, <4>1, <4>5 DEF WritesAtEnd
      <3>5. QED BY <3>3, <3>4
    <2>4. QED BY <1>b, <2>2, <2>3
  <1>3. ASSUME NEW p \in Process, Kill(p) PROVE Ends /\ One
    <2>1. LogLen' = LogLen /\ Rotating' \subseteq Rotating
      BY <1>0, <1>3 DEF Kill, files, LogLen, Rotating, LogTypeOK
    <2>2. ASSUME NEW q \in open' \ append' 
          PROVE  WritesAtEnd(q)' /\ (Rotating' # {} => FullUp(q)' \/ pos'[q] = 0)
      <3>1. /\ q \in open \ append /\ q # p /\ q \in Process
            /\ pos'[q] = pos[q] /\ size'[q] = size[q] /\ stage'[q] = stage[q]
        BY <1>0, <1>3, <1>d DEF Kill, LogTypeOK
      <3>2. \A r \in Others(q)' : r \in Others(q) /\ (Full(r)' <=> Full(r))
        BY <1>0, <1>3 DEF Kill, Others, Full, LogTypeOK
      <3>3. FullUp(q)' <=> FullUp(q)
        BY <3>1 DEF FullUp, Full
      <3>4. QED BY <1>b, <2>1, <3>1, <3>2, <3>3 DEF WritesAtEnd
    <2>3. QED BY <1>b, <2>1, <2>2
  <1>4. ASSUME NEW p \in Process, Write(p) PROVE Ends /\ One
    <2>1. LogLen' = LogLen /\ pos' = pos /\ size' = size
      BY <1>4 DEF Write, files, LogLen
    <2>2. \A r \in Process : Full(r)' <=> Full(r)
      BY <2>1 DEF Full
    <2>3. \A r \in Process : Others(r)' = Others(r)
      BY <1>0, <1>4 DEF Write, Others, LogTypeOK
    <2>4. CASE ~Full(p)
      <3>1. open' = open /\ append' = append /\ Rotating' = Rotating
        BY <1>0, <1>4, <2>4 DEF Write, Rotating, LogTypeOK
      <3>2. \A q \in Process : FullUp(q)' <=> FullUp(q)
        BY <1>0, <1>4, <2>2, <2>4 DEF Write, FullUp, LogTypeOK
      <3>3. QED BY <1>b, <1>d, <2>1, <2>2, <2>3, <3>1, <3>2 DEF WritesAtEnd, Others
    <2>5. CASE Full(p)
      <3>1. /\ open' = open \ {p} /\ append' = append \ {p} /\ Rotating' = Rotating \cup {p}
            /\ Others(p) \subseteq open /\ stage[p] = "up"
        <4>1. Others(p) \subseteq open
          BY <1>4, <2>5 DEF Write
        <4>2. /\ stage[p] = "up" /\ stage' = [stage EXCEPT ![p] = "shift"]
              /\ open' = open \ {p} /\ append' = append \ {p}
          BY <1>4, <2>5 DEF Write
        <4>3. \A q \in Process : q \in Rotating' <=> q \in Rotating \cup {p}
          BY <1>0, <4>2 DEF Rotating, LogTypeOK
        <4>4. QED BY <4>1, <4>2, <4>3 DEF Rotating
      <3>2. Rotating = {}
        BY <1>c, <3>1 DEF Rotating, Others, HandleOK
      <3>3. \A q \in Process : q # p => (FullUp(q)' <=> FullUp(q))
        BY <1>0, <1>4, <2>2 DEF Write, FullUp, LogTypeOK
      <3>4. \A q \in open' \ append' : q \in open \ append /\ q # p /\ q \in Process /\ p \in Others(q)
        BY <1>d, <3>1 DEF Others
      <3>5. \A q \in open' \ append' : FullUp(q)' \/ (pos'[q] = 0 /\ WritesAtEnd(q)')
        BY <1>b, <2>1, <2>5, <3>3, <3>4 DEF WritesAtEnd
      <3>6. QED BY <3>1, <3>2, <3>5 DEF WritesAtEnd
    <2>6. QED BY <2>4, <2>5
  <1>5. ASSUME NEW p \in Process, Put(p) PROVE Ends /\ One
    <2>1. Rotating' = Rotating /\ open' = open /\ append' = append
      BY <1>0, <1>5 DEF Put, Rotating, LogTypeOK
    <2>2. CASE p \notin open
      <3>1. LogLen' = LogLen /\ pos' = pos /\ size' = size
        BY <1>5, <2>2 DEF Put, files, LogLen
      <3>2. \A q \in Process : /\ Full(q)' <=> Full(q)
                               /\ Others(q)' = Others(q)
                               /\ q # p => (FullUp(q)' <=> FullUp(q))
        BY <1>0, <1>5, <3>1 DEF Put, Full, Others, FullUp, LogTypeOK
      <3>3. QED BY <1>b, <1>d, <2>1, <2>2, <3>1, <3>2 DEF WritesAtEnd, Others
    <2>3. CASE p \in open
      <3>1. Others(p) = {} \/ Others(p) \cup {p} \subseteq append
        BY <1>5, <2>3, PutAlone
      <3>2. Rotating = {}
        BY <1>5, <2>3, PutAlone DEF Rotating, Put
      <3>3. ASSUME NEW q \in open' \ append' PROVE WritesAtEnd(q)'
        <4>1. q \in open \ append /\ q \in Process
          BY <1>d, <2>1
        <4>2. q = p
          BY <1>5, <1>c, <3>1, <4>1 DEF Put, Others, HandleOK
        <4>3. Others(p) = {} /\ Others(p)' = {}
          BY <1>0, <1>5, <3>1, <4>1, <4>2 DEF Put, Others, LogTypeOK
        <4>4. pos[p] = LogLen
          BY <1>5, <1>b, <4>1, <4>2 DEF Put, WritesAtEnd, FullUp
        <4>5. pos'[p] = LogLen + 1
          BY <1>0, <1>5, <2>3, <4>1, <4>2, <4>4 DEF Put, LogTypeOK
        <4>6. LogLen' = LogLen + 1
          BY <1>5, <1>a, <2>3, PutAppends
        <4>7. QED BY <4>2, <4>3, <4>5, <4>6 DEF WritesAtEnd
      <3>4. QED BY <1>b, <2>1, <3>2, <3>3
    <2>4. QED BY <2>2, <2>3
  <1>6. ASSUME NEW p \in Process, ShiftBackup(p) PROVE Ends /\ One
    <2>1. LogLen' = LogLen /\ UNCHANGED <<stage, open, append, pos, size>>
      BY <1>0, <1>6, ShiftBackupFiles DEF ShiftBackup, LogLen
    <2>2. QED BY <1>b, <2>1 DEF WritesAtEnd, FullUp, Full, Others, Rotating
  <1>7. ASSUME NEW p \in Process, ShiftLog(p) PROVE Ends /\ One
    <2>1. open' = {} \/ LogLen' = LogLen
      BY <1>0, <1>7, ShiftLogFiles DEF ShiftLog, LogLen
    <2>2. /\ Rotating' = Rotating
          /\ UNCHANGED <<open, append, pos, size>>
      BY <1>0, <1>7 DEF ShiftLog, Rotating, LogTypeOK
    <2>3. \A q \in Process : /\ Full(q)' <=> Full(q)
                             /\ Others(q)' = Others(q)
                             /\ FullUp(q)' <=> FullUp(q)
      BY <1>0, <1>7, <2>2 DEF ShiftLog, Full, Others, FullUp, LogTypeOK
    <2>4. QED BY <1>b, <1>d, <2>1, <2>2, <2>3 DEF WritesAtEnd, Others
  <1>8. ASSUME NEW p \in Process, OpenEmpty(p) PROVE Ends /\ One
    <2>1. LogLen' = 0
      BY <1>0, <1>8, OpenEmptyFiles DEF LogLen
    <2>2. /\ Rotating' \subseteq Rotating /\ p \in Rotating
          /\ open' = open \cup {p} /\ append' = append /\ pos'[p] = 0
          /\ \A q \in Process : q # p => pos'[q] = pos[q]
      BY <1>0, <1>8 DEF OpenEmpty, Opened, Rotating, LogTypeOK
    <2>3. \A q \in Process : q # p => (FullUp(q)' <=> FullUp(q))
      BY <1>0, <1>8 DEF OpenEmpty, Opened, FullUp, Full, LogTypeOK
    <2>4. QED BY <1>b, <1>d, <2>1, <2>2, <2>3 DEF WritesAtEnd
  <1>9. ASSUME NEW p \in Process, OpenEmptyFails(p) PROVE Ends /\ One
    <2>1. LogLen' = LogLen /\ Rotating' = Rotating /\ UNCHANGED <<open, append, pos, size>>
      BY <1>0, <1>9 DEF OpenEmptyFails, files, LogLen, Rotating, LogTypeOK
    <2>2. \A q \in Process : /\ Full(q)' <=> Full(q)
                             /\ Others(q)' = Others(q)
                             /\ FullUp(q)' <=> FullUp(q)
      BY <1>0, <1>9, <2>1 DEF OpenEmptyFails, Full, Others, FullUp, LogTypeOK
    <2>3. QED BY <1>b, <1>d, <2>1, <2>2 DEF WritesAtEnd, Others
  <1>10. ASSUME NEW p \in Process, Fallback(p) PROVE Ends /\ One
    <2>1. LogLen' = LogLen
      BY <1>0, <1>10, FallbackKeepsText, LogTypes DEF LogLen
    <2>2. /\ Rotating' \subseteq Rotating /\ p \in Rotating
          /\ \A q \in open' \ append' : q \in open \ append /\ q # p
          /\ \A q \in Process : q # p => pos'[q] = pos[q]
      <3>1. Rotating' \subseteq Rotating /\ p \in Rotating /\ p \notin open
        BY <1>0, <1>c, <1>10 DEF Fallback, Opened, Rotating, HandleOK, LogTypeOK
      <3>2. QED BY <1>0, <1>10, <3>1 DEF Fallback, Opened, LogTypeOK
    <2>3. \A q \in Process : q # p => (FullUp(q)' <=> FullUp(q))
      BY <1>0, <1>10 DEF Fallback, Opened, FullUp, Full, LogTypeOK
    <2>4. \A q \in open' \ append' : FullUp(q)' \/ (pos'[q] = 0 /\ LogLen = 0)
      BY <1>b, <1>d, <2>2, <2>3 DEF WritesAtEnd
    <2>5. QED BY <1>b, <2>1, <2>2, <2>4 DEF WritesAtEnd
  <1>11. QED
    BY <1>1, <1>2, <1>3, <1>4, <1>5, <1>6, <1>7, <1>8, <1>9, <1>10 DEF LogNext, Rotate

(* No line is newer than the last one written, and those of a file, or of  *)
(* two, are in order.                                                      *)
OrderInv ==
  /\ ~clashed => \A i \in 0 .. MaxLogBackups : \A l \in LinesIn(i) : l <= line
  /\ KeepsOrder

InOrder(s) == \A a, b \in DOMAIN s : a < b => s[a] < s[b]

LEMMA LinesAreNumbers ==
  ASSUME LogTypeOK
  PROVE  \A i \in 0 .. MaxLogBackups : LinesIn(i) \subseteq Nat
  <1>1. ASSUME NEW s \in Seq(0 .. MaxLine) PROVE ToSet(s) \subseteq 0 .. MaxLine
    <2>1. \A a \in DOMAIN s : s[a] \in 0 .. MaxLine
      BY ElementOfSeq, LenProperties
    <2>2. QED BY <2>1 DEF ToSet
  <1>2. 0 .. MaxLine \subseteq Nat
    BY SizeAssumption
  <1>3. QED BY <1>1, <1>2, LogTypes DEF LinesIn

(* What the steps do to the lines of the files. *)
LEMMA SameLines ==
  ASSUME \A i \in 0 .. MaxLogBackups : Text(file'[i]) = Text(file[i]), LogTypeOK
  PROVE  /\ \A i \in 0 .. MaxLogBackups : LinesIn(i)' = LinesIn(i)
         /\ Kept' = Kept /\ LogLen' = LogLen
  <1>1. \A i \in 0 .. MaxLogBackups : LinesIn(i)' = LinesIn(i)
    BY DEF LinesIn
  <1>2. QED BY <1>1, LogTypes DEF Kept, LogLen

LEMMA PutLines ==
  ASSUME HandlesInv, OffsetInv, NEW p \in Process, Put(p), p \in open, ~clashed, ~clashed'
  PROVE  /\ LinesIn(0)' = LinesIn(0) \cup {line + 1}
         /\ \A i \in 1 .. MaxLogBackups : LinesIn(i)' = LinesIn(i)
         /\ InOrder(Text(file[0])) /\ (\A l \in LinesIn(0) : l <= line) => InOrder(Text(file'[0]))
  <1> DEFINE s == Text(file[0])
             t == Text(file'[0])
  <1>1. /\ s \in Seq(0 .. MaxLine) /\ t \in Seq(0 .. MaxLine) /\ Len(t) = Len(s) + 1 /\ Len(s) \in Nat
        /\ (\A a \in 1 .. Len(s) : t[a] = s[a]) /\ t[Len(s) + 1] = line + 1
        /\ \A i \in 0 .. MaxLogBackups : i # 0 => file'[i] = file[i]
    BY PutAppends DEF LogLen
  <1>2. line \in Nat /\ MaxLogBackups \in Nat
    BY LogTypes DEF HandlesInv
  <1>3. LinesIn(0) = ToSet(s) /\ LinesIn(0)' = ToSet(t)
    BY DEF LinesIn
  <1>4. \A i \in 1 .. MaxLogBackups : LinesIn(i)' = LinesIn(i)
    BY <1>1, <1>2 DEF LinesIn
  <1> HIDE DEF s, t
  <1>5. DOMAIN s = 1 .. Len(s) /\ DOMAIN t = 1 .. Len(s) + 1
    BY <1>1
  <1>6. ToSet(t) = ToSet(s) \cup {line + 1}
    <2>1. ASSUME NEW l \in ToSet(t) PROVE l \in ToSet(s) \cup {line + 1}
      <3>1. PICK a \in 1 .. Len(s) + 1 : t[a] = l
        BY <1>5 DEF ToSet
      <3>2. CASE a = Len(s) + 1
        BY <1>1, <3>1, <3>2
      <3>3. CASE a \in 1 .. Len(s)
        BY <1>1, <1>5, <3>1, <3>3 DEF ToSet
      <3>4. QED BY <1>1, <3>2, <3>3
    <2>2. ASSUME NEW l \in ToSet(s) PROVE l \in ToSet(t)
      <3>1. PICK a \in 1 .. Len(s) : s[a] = l
        BY <1>5 DEF ToSet
      <3>2. a \in DOMAIN t /\ t[a] = l
        BY <1>1, <1>5, <3>1
      <3>3. QED BY <3>2 DEF ToSet
    <2>3. line + 1 \in ToSet(t)
      <3>1. Len(s) + 1 \in DOMAIN t
        BY <1>1, <1>5
      <3>2. QED BY <1>1, <3>1 DEF ToSet
    <2>4. QED BY <2>1, <2>2, <2>3
  <1>7. ASSUME InOrder(s), \A l \in ToSet(s) : l <= line PROVE InOrder(t)
    <2> SUFFICES ASSUME NEW a \in DOMAIN t, NEW b \in DOMAIN t, a < b PROVE t[a] < t[b]
      BY DEF InOrder
    <2>1. a \in DOMAIN s /\ t[a] = s[a] /\ s[a] \in Nat
      <3>1. a \in 1 .. Len(s)
        BY <1>1, <1>5
      <3>2. s[a] \in 0 .. MaxLine
        BY <1>1, <3>1, ElementOfSeq
      <3>3. QED BY <1>1, <1>5, <3>1, <3>2, SizeAssumption
    <2>2. CASE b \in DOMAIN s
      BY <1>1, <1>5, <1>7, <2>1, <2>2 DEF InOrder
    <2>3. CASE b = Len(s) + 1
      <3>1. s[a] <= line
        BY <1>7, <2>1 DEF ToSet
      <3>2. QED BY <1>1, <1>2, <2>1, <2>3, <3>1
    <2>4. QED BY <1>1, <1>5, <2>2, <2>3
  <1>8. QED BY <1>3, <1>4, <1>6, <1>7 DEF s, t

LEMMA MoveLines ==
  ASSUME LogTypeOK, NEW i \in 0 .. MaxLogBackups - 1,
         file'[i] = NoFile, file'[i + 1] = file[i],
         \A j \in 0 .. MaxLogBackups : j # i /\ j # i + 1 => file'[j] = file[j]
  PROVE  /\ LinesIn(i)' = {} /\ LinesIn(i + 1)' = LinesIn(i)
         /\ \A j \in 0 .. MaxLogBackups : j # i /\ j # i + 1 => LinesIn(j)' = LinesIn(j)
  <1>1. Text(file'[i]) = <<>> /\ ToSet(<<>>) = {}
    BY DEF Text, ToSet
  <1>2. QED BY <1>1 DEF LinesIn

LEMMA OrderInit == LogInit => OrderInv
  <1> SUFFICES ASSUME LogInit PROVE OrderInv
    OBVIOUS
  <1>1. ASSUME NEW i \in 0 .. MaxLogBackups PROVE Text(file[i]) = <<>> /\ LinesIn(i) = {}
    BY DEF LogInit, Text, LinesIn, ToSet
  <1>2. QED BY <1>1 DEF OrderInv, KeepsOrder

LEMMA OrderNext == HandlesInv /\ OffsetInv /\ OrderInv /\ [LogNext]_logVars => OrderInv'
  <1> SUFFICES ASSUME HandlesInv, OffsetInv, OrderInv, [LogNext]_logVars, ~clashed'
               PROVE  \A i \in 0 .. MaxLogBackups :
                        /\ \A l \in LinesIn(i)' : l <= line'
                        /\ InOrder(Text(file'[i]))
                        /\ \A j \in 0 .. i - 1 : \A k \in LinesIn(i)', l \in LinesIn(j)' : k < l
    BY DEF OrderInv, KeepsOrder, InOrder
  <1>0. LogTypeOK /\ MaxLogBackups \in Nat \ {0} /\ line \in Nat
    BY LogTypes DEF HandlesInv
  <1>a. ~clashed
    BY <1>0, ClashLasts
  <1>b. \A i \in 0 .. MaxLogBackups :
          /\ \A l \in LinesIn(i) : l <= line
          /\ InOrder(Text(file[i]))
          /\ \A j \in 0 .. i - 1 : \A k \in LinesIn(i), l \in LinesIn(j) : k < l
          /\ LinesIn(i) \subseteq Nat
    BY <1>0, <1>a, LinesAreNumbers DEF OrderInv, KeepsOrder, InOrder
  <1>c. InOrder(<<>>)
    BY DEF InOrder
  <1> DEFINE Ordered == \A i \in 0 .. MaxLogBackups :
                          /\ \A l \in LinesIn(i)' : l <= line'
                          /\ InOrder(Text(file'[i]))
                          /\ \A j \in 0 .. i - 1 : \A k \in LinesIn(i)', l \in LinesIn(j)' : k < l
  <1>1. ASSUME \A i \in 0 .. MaxLogBackups : Text(file'[i]) = Text(file[i]), line' = line PROVE Ordered
    BY <1>0, <1>1, <1>b, SameLines
  <1>2. ASSUME NEW i \in 0 .. MaxLogBackups - 1, line' = line,
               file'[i] = NoFile, file'[i + 1] = file[i],
               \A j \in 0 .. MaxLogBackups : j # i /\ j # i + 1 => file'[j] = file[j]
        PROVE  Ordered
    <2>1. /\ LinesIn(i)' = {} /\ LinesIn(i + 1)' = LinesIn(i)
          /\ \A j \in 0 .. MaxLogBackups : j # i /\ j # i + 1 => LinesIn(j)' = LinesIn(j)
      BY <1>0, <1>2, MoveLines
    <2> SUFFICES ASSUME NEW n \in 0 .. MaxLogBackups
                 PROVE  /\ \A l \in LinesIn(n)' : l <= line'
                        /\ InOrder(Text(file'[n]))
                        /\ \A j \in 0 .. n - 1 : \A k \in LinesIn(n)', l \in LinesIn(j)' : k < l
      OBVIOUS
    <2>2. \A l \in LinesIn(n)' : l <= line'
      BY <1>0, <1>2, <1>b, <2>1
    <2>3. InOrder(Text(file'[n]))
      BY <1>0, <1>2, <1>b, <1>c DEF Text
    <2>4. ASSUME NEW j \in 0 .. n - 1, NEW k \in LinesIn(n)', NEW l \in LinesIn(j)' PROVE k < l
      <3>1. CASE n = i + 1
        BY <1>0, <1>b, <2>1, <2>4, <3>1
      <3>2. CASE n # i /\ n # i + 1
        <4>1. CASE j = i + 1
          BY <1>0, <1>b, <2>1, <2>4, <3>2, <4>1
        <4>2. CASE j # i + 1
          BY <1>0, <1>b, <2>1, <2>4, <3>2, <4>2
        <4>3. QED BY <4>1, <4>2
      <3>3. QED BY <2>1, <2>4, <3>1, <3>2
    <2>5. QED BY <2>2, <2>3, <2>4
  <1>3. CASE ReadLog \/ ReadEnds \/ UNCHANGED logVars
    BY <1>1, <1>3 DEF ReadLog, ReadEnds, logVars, files
  <1>4. ASSUME NEW p \in Process, Start(p) PROVE Ordered
    BY <1>0, <1>1, <1>4, StartKeepsText DEF Start
  <1>5. ASSUME NEW p \in Process, Kill(p) \/ Write(p) \/ OpenEmptyFails(p) PROVE Ordered
    BY <1>1, <1>5 DEF Kill, Write, OpenEmptyFails, files
  <1>6. ASSUME NEW p \in Process, Put(p) PROVE Ordered
    <2>1. CASE p \notin open
      BY <1>1, <1>6, <2>1 DEF Put, files
    <2>2. CASE p \in open
      <3>1. /\ LinesIn(0)' = LinesIn(0) \cup {line + 1}
            /\ \A i \in 1 .. MaxLogBackups : LinesIn(i)' = LinesIn(i)
            /\ InOrder(Text(file'[0])) /\ line' = line + 1
            /\ \A i \in 0 .. MaxLogBackups : i # 0 => file'[i] = file[i]
        BY <1>0, <1>a, <1>b, <1>6, <2>2, PutLines, PutAppends
      <3>2. QED BY <1>0, <1>b, <3>1
    <2>3. QED BY <2>1, <2>2
  <1>7. ASSUME NEW p \in Process, ShiftBackup(p) PROVE Ordered
    <2> DEFINE i == shift[p]
    <2>1. i \in 0 .. MaxLogBackups - 1 /\ line' = line
      <3>1. i \in 1 .. MaxLogBackups - 1
        BY <1>0, <1>7, ShiftBackupFiles
      <3>2. line' = line
        BY <1>7 DEF ShiftBackup
      <3>3. QED BY <1>0, <3>1, <3>2
    <2>2. CASE file' = file
      BY <1>1, <2>1, <2>2
    <2>3. CASE file' # file
      <3>1. /\ file'[i] = NoFile /\ file'[i + 1] = file[i]
            /\ \A j \in 0 .. MaxLogBackups : j # i /\ j # i + 1 => file'[j] = file[j]
        BY <1>0, <1>7, <2>3, ShiftBackupFiles
      <3> HIDE DEF i
      <3>2. QED BY <1>2, <2>1, <3>1
    <2>4. QED BY <2>2, <2>3
  <1>8. ASSUME NEW p \in Process, ShiftLog(p) PROVE Ordered
    <2>1. line' = line
      BY <1>8 DEF ShiftLog
    <2>2. CASE file' = file
      BY <1>1, <2>1, <2>2
    <2>3. CASE file' # file
      <3>1. /\ file'[0] = NoFile /\ file'[0 + 1] = file[0] /\ 0 \in 0 .. MaxLogBackups - 1
            /\ \A j \in 0 .. MaxLogBackups : j # 0 /\ j # 0 + 1 => file'[j] = file[j]
        BY <1>0, <1>8, <2>3, ShiftLogFiles
      <3>2. QED BY <1>2, <2>1, <3>1
    <2>4. QED BY <2>2, <2>3
  <1>9. ASSUME NEW p \in Process, OpenEmpty(p) PROVE Ordered
    <2>1. /\ Text(file'[0]) = <<>> /\ line' = line
          /\ \A i \in 0 .. MaxLogBackups : i # 0 => file'[i] = file[i]
      BY <1>0, <1>9, OpenEmptyFiles DEF OpenEmpty
    <2>2. /\ LinesIn(0)' = {}
          /\ \A i \in 0 .. MaxLogBackups : i # 0 => LinesIn(i)' = LinesIn(i)
      BY <2>1 DEF LinesIn, ToSet
    <2>3. QED BY <1>0, <1>b, <1>c, <2>1, <2>2
  <1>10. ASSUME NEW p \in Process, Fallback(p) PROVE Ordered
    BY <1>0, <1>1, <1>10, FallbackKeepsText DEF Fallback
  <1>11. QED
    BY <1>3, <1>4, <1>5, <1>6, <1>7, <1>8, <1>9, <1>10 DEF LogNext, Rotate

(* What a rotation finds when nothing is in its way: a full log, which it  *)
(* moves behind backups that have each left their place.                   *)
StageOK(p) ==
  /\ stage[p] \in {"up", "put"} => size[p] <= LogLen
  /\ stage[p] = "shift" => /\ MaxLogSize <= LogLen
                           /\ shift[p] < MaxLogBackups - 1 => file[shift[p] + 1] = NoFile
  /\ stage[p] = "open" => LogLen = 0

StagesInv == ~unmoved /\ ~clashed => \A p \in Process : StageOK(p)

LEMMA UnmovedLasts ==
  ASSUME LogTypeOK, [LogNext]_logVars, ~unmoved'
  PROVE  ~unmoved
  <1>1. ASSUME NEW p \in Process, ShiftBackup(p) PROVE ~unmoved
    BY <1>1 DEF ShiftBackup, Move, Stay
  <1>2. ASSUME NEW p \in Process, ShiftLog(p) PROVE ~unmoved
    BY <1>2 DEF ShiftLog, Move, Stay
  <1>3. QED BY <1>1, <1>2 DEF LogNext, Rotate, logVars, ghost, ReadLog, ReadEnds, Start, Kill,
                 Write, Put, OpenEmpty, OpenEmptyFails, Fallback

LEMMA StagesInit == LogInit => StagesInv
  BY DEF LogInit, StagesInv, StageOK

(* A rotating process is alone in that, as long as there was no clash. *)
LEMMA RotatesAlone ==
  ASSUME OffsetInv, ~clashed, NEW p \in Process, stage[p] \in {"shift", "open", "fallback"},
         NEW q \in Process, q # p
  PROVE  stage[q] \notin {"shift", "open", "fallback"}
  BY DEF OffsetInv, Rotating

LEMMA StagesNext == HandlesInv /\ OffsetInv /\ StagesInv /\ [LogNext]_logVars => StagesInv'
  <1> SUFFICES ASSUME HandlesInv, OffsetInv, StagesInv, [LogNext]_logVars, ~clashed', ~unmoved',
                      NEW q \in Process
               PROVE  StageOK(q)'
    BY DEF StagesInv
  <1>0. LogTypeOK /\ MaxLogBackups \in Nat \ {0} /\ MaxLogSize \in Nat \ {0} /\ LogLen \in Nat
    BY LogTypes DEF HandlesInv
  <1>a. ~clashed /\ ~unmoved
    BY <1>0, ClashLasts, UnmovedLasts
  <1>b. StageOK(q) /\ HandleOK(q) /\ size[q] \in Nat /\ shift[q] \in 0 .. MaxLogBackups - 1
    BY <1>0, <1>a, LogTypes DEF StagesInv, HandlesInv, LogTypeOK
  <1>1. CASE ReadLog \/ ReadEnds \/ UNCHANGED logVars
    BY <1>b, <1>1 DEF ReadLog, ReadEnds, logVars, files, proc, StageOK, LogLen
  <1>2. ASSUME NEW p \in Process, Start(p) PROVE StageOK(q)'
    <2>1. LogLen' = LogLen /\ size' = [size EXCEPT ![p] = LogLen]
      BY <1>0, <1>2, StartKeepsText, LogTypes DEF Start, LogLen
    <2>2. \A i \in 0 .. MaxLogBackups : i # 0 => file'[i] = file[i]
      BY <1>0, <1>2 DEF Start, LogTypeOK
    <2>3. QED BY <1>0, <1>b, <1>2, <2>1, <2>2 DEF Start, StageOK, LogTypeOK
  <1>3. ASSUME NEW p \in Process, Kill(p) PROVE StageOK(q)'
    BY <1>0, <1>b, <1>3 DEF Kill, files, StageOK, LogLen, LogTypeOK
  <1>4. ASSUME NEW p \in Process, Write(p) PROVE StageOK(q)'
    <2>1. LogLen' = LogLen /\ file' = file /\ size' = size
      BY <1>4 DEF Write, files, LogLen
    <2>2. CASE q # p
      BY <1>0, <1>b, <1>4, <2>1, <2>2 DEF Write, StageOK, LogTypeOK
    <2>3. CASE q = p /\ Full(p)
      BY <1>0, <1>b, <1>4, <2>1, <2>3 DEF Write, Full, FirstShifted, StageOK, LogTypeOK
    <2>4. CASE q = p /\ ~Full(p)
      BY <1>0, <1>b, <1>4, <2>1, <2>4 DEF Write, StageOK, LogTypeOK
    <2>5. QED BY <2>2, <2>3, <2>4
  <1>5. ASSUME NEW p \in Process, Put(p) PROVE StageOK(q)'
    <2>1. CASE p \notin open
      BY <1>0, <1>b, <1>5, <2>1 DEF Put, files, StageOK, LogLen, LogTypeOK
    <2>2. CASE p \in open
      <3>1. LogLen' = LogLen + 1
        BY <1>5, <1>a, <2>2, PutAppends
      <3>2. stage[q] \notin {"shift", "open", "fallback"}
        BY <1>5, <2>2, PutAlone DEF Rotating, Put
      <3>3. size' = [size EXCEPT ![p] = @ + 1]
        BY <1>5, <2>2 DEF Put
      <3>4. QED BY <1>0, <1>b, <1>5, <3>1, <3>2, <3>3 DEF Put, StageOK, LogTypeOK
    <2>3. QED BY <2>1, <2>2
  <1>6. ASSUME NEW p \in Process, ShiftBackup(p) PROVE StageOK(q)'
    <2>1. /\ LogLen' = LogLen /\ UNCHANGED <<stage, size>> /\ stage[p] = "shift"
          /\ shift' = [shift EXCEPT ![p] = @ - 1]
      BY <1>0, <1>6, ShiftBackupFiles DEF ShiftBackup, LogLen
    <2>2. CASE q = p
      <3>1. file'[shift[p]] = NoFile /\ shift[p] \in 1 .. MaxLogBackups - 1
        BY <1>0, <1>6, ShiftBackupFiles
      <3>2. shift'[p] + 1 = shift[p]
        BY <1>0, <2>1, <3>1 DEF LogTypeOK
      <3>3. QED BY <1>b, <2>1, <2>2, <3>1, <3>2 DEF StageOK
    <2>3. CASE q # p
      BY <1>a, <1>b, <2>1, <2>3, RotatesAlone DEF StageOK
    <2>4. QED BY <2>2, <2>3
  <1>7. ASSUME NEW p \in Process, ShiftLog(p) PROVE StageOK(q)'
    <2>1. /\ stage' = [stage EXCEPT ![p] = "open"] /\ size' = size /\ stage[p] = "shift"
      BY <1>7 DEF ShiftLog
    <2>2. LogLen' = 0 /\ (open = {} \/ LogLen = 0)
      BY <1>0, <1>7, ShiftLogFiles DEF LogLen, Text
    <2>3. CASE q = p
      BY <1>0, <2>1, <2>2, <2>3 DEF StageOK, LogTypeOK
    <2>4. CASE q # p
      <3>1. stage'[q] = stage[q] /\ stage[q] \notin {"shift", "open", "fallback"}
        BY <1>0, <1>a, <2>1, <2>4, RotatesAlone DEF LogTypeOK
      <3>2. stage[q] \in {"up", "put"} => size[q] = 0
        BY <1>b, <2>2 DEF HandleOK, StageOK
      <3>3. QED BY <2>1, <2>2, <3>1, <3>2 DEF StageOK
    <2>5. QED BY <2>3, <2>4
  <1>8. ASSUME NEW p \in Process, OpenEmpty(p) PROVE StageOK(q)'
    <2>1. LogLen' = 0 /\ LogLen = 0 /\ stage[p] = "open"
      <3>1. StageOK(p)
        BY <1>a DEF StagesInv
      <3>2. QED BY <1>0, <1>8, <3>1, OpenEmptyFiles DEF LogLen, OpenEmpty, StageOK
    <2>2. stage' = [stage EXCEPT ![p] = "put"] /\ size' = [size EXCEPT ![p] = 0]
      BY <1>8 DEF OpenEmpty, Opened
    <2>3. CASE q = p
      BY <1>0, <2>1, <2>2, <2>3 DEF StageOK, LogTypeOK
    <2>4. CASE q # p
      <3>1. stage'[q] = stage[q] /\ stage[q] \notin {"shift", "open", "fallback"} /\ size'[q] = size[q]
        BY <1>0, <1>a, <2>1, <2>2, <2>4, RotatesAlone DEF LogTypeOK
      <3>2. QED BY <1>b, <2>1, <3>1 DEF StageOK
    <2>5. QED BY <2>3, <2>4
  <1>9. ASSUME NEW p \in Process, OpenEmptyFails(p) PROVE StageOK(q)'
    BY <1>0, <1>b, <1>9 DEF OpenEmptyFails, files, StageOK, LogLen, LogTypeOK
  <1>10. ASSUME NEW p \in Process, Fallback(p) PROVE StageOK(q)'
    <2>1. LogLen' = LogLen /\ stage[p] = "fallback"
      BY <1>0, <1>10, FallbackKeepsText, LogTypes DEF LogLen, Fallback
    <2>2. stage' = [stage EXCEPT ![p] = "put"] /\ size' = [size EXCEPT ![p] = 0]
      BY <1>10 DEF Fallback, Opened
    <2>3. CASE q = p
      BY <1>0, <2>1, <2>2, <2>3 DEF StageOK, LogTypeOK
    <2>4. CASE q # p
      <3>1. stage'[q] = stage[q] /\ stage[q] \notin {"shift", "open", "fallback"} /\ size'[q] = size[q]
        BY <1>0, <1>a, <2>1, <2>2, <2>4, RotatesAlone DEF LogTypeOK
      <3>2. QED BY <1>b, <2>1, <3>1 DEF StageOK
    <2>5. QED BY <2>3, <2>4
  <1>11. QED
    BY <1>1, <1>2, <1>3, <1>4, <1>5, <1>6, <1>7, <1>8, <1>9, <1>10 DEF LogNext, Rotate

(* The number of lines in n full files. *)
Room(n) == n * MaxLogSize

(* A line of backup j is followed by those of j - 1 full files and of the  *)
(* log; while the backups from j on have been shifted, and the log has not,*)
(* by those of j - 2.                                                      *)
Shifted(j) == \E p \in Process : stage[p] = "shift" /\ shift[p] + 1 < j

Newer(j) == IF Shifted(j) THEN Room(j - 2) ELSE Room(j - 1)

Followed(j) == \A l \in LinesIn(j) : l + Newer(j) + LogLen <= line

NewestInv ==
  /\ KeepsNewest
  /\ ~unmoved /\ ~clashed /\ ~killed => \A j \in 1 .. MaxLogBackups : Followed(j)

LEMMA RoomFacts ==
  /\ Room(0) = 0 /\ Room(MaxLogBackups) = MaxLogBackups * MaxLogSize
  /\ \A n \in Int : Room(n) \in Int /\ Room(n) = Room(n - 1) + MaxLogSize
  BY SizeAssumption DEF Room

LEMMA KilledLasts ==
  ASSUME [LogNext]_logVars, ~killed'
  PROVE  ~killed
  <1>1. ASSUME NEW p \in Process, Kill(p) PROVE ~killed
    BY <1>1 DEF Kill
  <1>2. QED BY <1>1 DEF LogNext, Rotate, logVars, ghost, ReadLog, ReadEnds, Start, Write, Put, ShiftBackup,
                 ShiftLog, OpenEmpty, OpenEmptyFails, Fallback

LEMMA InKept == \A l : l \in Kept <=> \E i \in 0 .. MaxLogBackups : l \in LinesIn(i)
  BY DEF Kept

LEMMA NewestInit == LogInit => NewestInv
  <1> SUFFICES ASSUME LogInit PROVE NewestInv
    OBVIOUS
  <1>1. ASSUME NEW i \in 0 .. MaxLogBackups PROVE Text(file[i]) = <<>> /\ LinesIn(i) = {}
    BY DEF LogInit, Text, LinesIn, ToSet
  <1>2. line = 0 /\ \A l : l \notin Kept
    BY <1>1, InKept DEF LogInit
  <1>3. QED BY <1>1, <1>2, SizeAssumption DEF NewestInv, KeepsNewest, Followed

(* The backups that have been shifted are those of the one that rotates. *)
LEMMA ShiftedBy ==
  ASSUME OffsetInv, ~clashed, NEW p \in Process, stage[p] \in {"shift", "open", "fallback"}, NEW j
  PROVE  Shifted(j) <=> stage[p] = "shift" /\ shift[p] + 1 < j
  BY RotatesAlone DEF Shifted

(* A file that is moved replaces at most the oldest backup. *)
LEMMA MoveKept ==
  ASSUME LogTypeOK, OrderInv, ~clashed, NEW i \in 0 .. MaxLogBackups - 1,
         i < MaxLogBackups - 1 => file[i + 1] = NoFile,
         file'[i] = NoFile, file'[i + 1] = file[i],
         \A j \in 0 .. MaxLogBackups : j # i /\ j # i + 1 => file'[j] = file[j]
  PROVE  /\ Kept' \subseteq Kept
         /\ \A l \in Kept \ Kept' : /\ i + 1 = MaxLogBackups /\ l \in LinesIn(MaxLogBackups)
                                    /\ \A m \in Kept' : l < m
  <1>0. MaxLogBackups \in Nat \ {0}
    BY SizeAssumption
  <1>1. /\ LinesIn(i)' = {} /\ LinesIn(i + 1)' = LinesIn(i)
        /\ \A j \in 0 .. MaxLogBackups : j # i /\ j # i + 1 => LinesIn(j)' = LinesIn(j)
    BY MoveLines
  <1>2. \A l : l \in Kept' <=> \E n \in 0 .. MaxLogBackups : l \in LinesIn(n)'
    BY DEF Kept
  <1>3. \A l : l \in Kept' <=> \E n \in 0 .. MaxLogBackups : n # i + 1 /\ l \in LinesIn(n)
    <2>1. ASSUME NEW l, NEW n \in 0 .. MaxLogBackups, l \in LinesIn(n)'
          PROVE  \E m \in 0 .. MaxLogBackups : m # i + 1 /\ l \in LinesIn(m)
      <3>1. CASE n = i + 1
        BY <1>0, <1>1, <2>1, <3>1
      <3>2. CASE n # i + 1
        BY <1>1, <2>1, <3>2
      <3>3. QED BY <3>1, <3>2
    <2>2. ASSUME NEW l, NEW n \in 0 .. MaxLogBackups, n # i + 1, l \in LinesIn(n)
          PROVE  \E m \in 0 .. MaxLogBackups : l \in LinesIn(m)'
      <3>1. CASE n = i
        BY <1>0, <1>1, <2>2, <3>1
      <3>2. CASE n # i
        BY <1>1, <2>2, <3>2
      <3>3. QED BY <3>1, <3>2
    <2>3. QED BY <1>2, <2>1, <2>2
  <1>4. ASSUME NEW l \in Kept \ Kept'
        PROVE  /\ i + 1 = MaxLogBackups /\ l \in LinesIn(MaxLogBackups)
               /\ \A m \in Kept' : l < m
    <2>1. l \in LinesIn(i + 1)
      BY <1>3, InKept
    <2>2. file[i + 1] # NoFile
      <3>1. Text(NoFile) = <<>> /\ ToSet(<<>>) = {}
        BY DEF Text, ToSet
      <3>2. QED BY <2>1, <3>1 DEF LinesIn
    <2>3. i + 1 = MaxLogBackups
      BY <1>0, <2>2
    <2>4. ASSUME NEW m \in Kept' PROVE l < m
      <3>1. PICK n \in 0 .. MaxLogBackups : n # i + 1 /\ m \in LinesIn(n)
        BY <1>3
      <3>2. n \in 0 .. MaxLogBackups - 1 /\ MaxLogBackups \in 0 .. MaxLogBackups
        BY <1>0, <2>3, <3>1
      <3>3. QED BY <2>1, <2>3, <3>1, <3>2 DEF OrderInv, KeepsOrder
    <2>5. QED BY <2>1, <2>3, <2>4
  <1>5. QED BY <1>3, <1>4, InKept

NoGap == \A l \in Kept : l >= 1 /\ l .. line \subseteq Kept

Enough == \A l \in 1 .. line : line < l + Room(MaxLogBackups) => l \in Kept

LEMMA NewestNext ==
  HandlesInv /\ OffsetInv /\ OrderInv /\ StagesInv /\ NewestInv /\ [LogNext]_logVars => NewestInv'
  <1> SUFFICES ASSUME HandlesInv, OffsetInv, OrderInv, StagesInv, NewestInv, [LogNext]_logVars,
                      ~clashed', ~unmoved'
               PROVE  /\ NoGap' /\ (~killed' => Enough')
                      /\ ~killed' => \A j \in 1 .. MaxLogBackups : Followed(j)'
    <2>1. (NoGap /\ (killed \/ Enough))' => KeepsNewest'
      BY RoomFacts DEF NoGap, Enough, KeepsNewest
    <2>2. clashed' \/ unmoved' => KeepsNewest'
      BY DEF KeepsNewest
    <2>3. NewestInv' <=> /\ KeepsNewest'
                         /\ ~unmoved' /\ ~clashed' /\ ~killed' => \A j \in 1 .. MaxLogBackups : Followed(j)'
      BY DEF NewestInv
    <2>4. QED BY <2>1, <2>2, <2>3
  <1>0. /\ LogTypeOK /\ MaxLogBackups \in Nat \ {0} /\ MaxLogSize \in Nat \ {0}
        /\ LogLen \in Nat /\ line \in Nat
    BY LogTypes DEF HandlesInv
  <1>a. /\ ~clashed /\ ~unmoved
        /\ NoGap /\ (~killed => Enough)
        /\ ~killed => \A j \in 1 .. MaxLogBackups : Followed(j)
    <2>1. ~clashed /\ ~unmoved
      BY <1>0, ClashLasts, UnmovedLasts
    <2>2. QED BY <2>1, RoomFacts DEF NewestInv, NoGap, Enough, KeepsNewest
  <1>b. \A p \in Process : StageOK(p) /\ HandleOK(p) /\ shift[p] \in 0 .. MaxLogBackups - 1
    BY <1>0, <1>a DEF StagesInv, HandlesInv, LogTypeOK
  <1>c. \A j \in 0 .. MaxLogBackups : LinesIn(j) \subseteq Nat /\ Newer(j) \in Int
    BY <1>0, LinesAreNumbers, RoomFacts DEF Newer
  <1>d. Kept \subseteq Nat
    BY <1>c, InKept
  <1>e. ~killed' => ~killed
    BY KilledLasts
  <1> DEFINE Goal == /\ NoGap' /\ (~killed' => Enough')
                     /\ ~killed' => \A j \in 1 .. MaxLogBackups : Followed(j)'
  <1>1. ASSUME \A i \in 0 .. MaxLogBackups : Text(file'[i]) = Text(file[i]), line' = line,
               ~killed' => \A j \in 1 .. MaxLogBackups : Shifted(j)' <=> Shifted(j)
        PROVE  Goal
    <2>1. /\ \A i \in 0 .. MaxLogBackups : LinesIn(i)' = LinesIn(i)
          /\ Kept' = Kept /\ LogLen' = LogLen
      BY <1>0, <1>1, SameLines
    <2>2. NoGap' /\ (~killed' => Enough')
      BY <1>1, <1>a, <1>e, <2>1 DEF NoGap, Enough
    <2>3. ~killed' => \A j \in 1 .. MaxLogBackups : Followed(j)'
      BY <1>0, <1>1, <1>a, <1>e, <2>1 DEF Followed, Newer
    <2>4. QED BY <2>2, <2>3
  <1>2. ASSUME UNCHANGED <<stage, shift>> PROVE \A j : Shifted(j)' <=> Shifted(j)
    BY <1>2 DEF Shifted
  <1>3. CASE ReadLog \/ ReadEnds \/ UNCHANGED logVars
    <2>1. file' = file /\ line' = line /\ UNCHANGED <<stage, shift>>
      BY <1>3 DEF ReadLog, ReadEnds, logVars, files, proc
    <2>2. QED BY <1>1, <1>2, <2>1
  <1>4. ASSUME NEW p \in Process, Start(p) PROVE Goal
    <2>1. \A j : Shifted(j)' <=> Shifted(j)
      BY <1>0, <1>4 DEF Start, Shifted, LogTypeOK
    <2>2. QED BY <1>0, <1>1, <1>4, <2>1, StartKeepsText DEF Start
  <1>5. ASSUME NEW p \in Process, Kill(p) PROVE Goal
    <2>1. ~killed' => stage[p] \in {"up", "put"}
      BY <1>0, <1>5 DEF Kill
    <2>2. ~killed' => \A j : Shifted(j)' <=> Shifted(j)
      BY <1>0, <1>5, <2>1 DEF Kill, Shifted, LogTypeOK
    <2>3. QED BY <1>1, <1>5, <2>2 DEF Kill, files
  <1>6. ASSUME NEW p \in Process, Write(p) PROVE Goal
    <2>1. ASSUME NEW j \in 1 .. MaxLogBackups PROVE Shifted(j)' <=> Shifted(j)
      <3>1. CASE ~Full(p)
        BY <1>0, <1>6, <3>1 DEF Write, Shifted, LogTypeOK
      <3>2. CASE Full(p)
        <4>1. /\ stage[p] = "up" /\ stage' = [stage EXCEPT ![p] = "shift"]
              /\ shift' = [shift EXCEPT ![p] = MaxLogBackups - 1]
          BY <1>6, <3>2 DEF Write, FirstShifted
        <4>2. \A q \in Process : q # p => stage'[q] = stage[q] /\ shift'[q] = shift[q]
          BY <1>0, <4>1 DEF LogTypeOK
        <4>3. shift'[p] = MaxLogBackups - 1
          BY <1>0, <4>1 DEF LogTypeOK
        <4>4. QED BY <1>0, <4>1, <4>2, <4>3 DEF Shifted
      <3>3. QED BY <3>1, <3>2
    <2>2. QED BY <1>1, <1>6, <2>1 DEF Write, files
  <1>7. ASSUME NEW p \in Process, Put(p) PROVE Goal
    <2>1. \A j : Shifted(j)' <=> Shifted(j)
      BY <1>0, <1>7 DEF Put, Shifted, LogTypeOK
    <2>2. CASE p \notin open
      BY <1>1, <1>7, <2>1, <2>2 DEF Put, files
    <2>3. CASE p \in open
      <3>1. /\ LinesIn(0)' = LinesIn(0) \cup {line + 1} /\ line' = line + 1 /\ LogLen' = LogLen + 1
            /\ \A i \in 1 .. MaxLogBackups : LinesIn(i)' = LinesIn(i)
        BY <1>a, <1>7, <2>3, PutLines, PutAppends
      <3>2. Kept' = Kept \cup {line + 1}
        <4>1. \A l : l \in Kept' <=> \E n \in 0 .. MaxLogBackups : l \in LinesIn(n)'
          BY DEF Kept
        <4>2. \A l : l \in Kept' <=> l \in Kept \/ l = line + 1
          BY <1>0, <3>1, <4>1, InKept
        <4>3. QED BY <4>2
      <3>3. NoGap'
        BY <1>0, <1>a, <1>d, <3>1, <3>2 DEF NoGap
      <3>4. ~killed' => Enough'
        BY <1>0, <1>a, <1>e, <3>1, <3>2, RoomFacts DEF Enough
      <3>5. ~killed' => \A j \in 1 .. MaxLogBackups : Followed(j)'
        <4> SUFFICES ASSUME ~killed', NEW j \in 1 .. MaxLogBackups, NEW l \in LinesIn(j)'
                     PROVE  l + Newer(j)' + LogLen' <= line'
          BY DEF Followed
        <4>1. Newer(j)' = Newer(j) /\ Newer(j) \in Int /\ l \in LinesIn(j) /\ l \in Nat
          BY <1>0, <1>c, <2>1, <3>1 DEF Newer
        <4>2. l + Newer(j) + LogLen <= line
          BY <1>a, <1>e, <4>1 DEF Followed
        <4>3. QED BY <1>0, <3>1, <4>1, <4>2
      <3>6. QED BY <3>3, <3>4, <3>5
    <2>4. QED BY <2>2, <2>3
  <1>8. ASSUME NEW p \in Process, ShiftBackup(p) PROVE Goal
    <2>0. PICK i \in 1 .. MaxLogBackups - 1 : i = shift[p]
      BY <1>0, <1>8, ShiftBackupFiles
    <2>1. /\ stage[p] = "shift" /\ line' = line /\ killed' = killed
          /\ LogLen' = LogLen /\ MaxLogSize <= LogLen
          /\ i < MaxLogBackups - 1 => file[i + 1] = NoFile
      <3>1. file'[0] = file[0]
        BY <1>0, <1>8, ShiftBackupFiles
      <3>2. stage[p] = "shift" /\ line' = line /\ killed' = killed
        BY <1>8 DEF ShiftBackup
      <3>3. QED BY <1>b, <2>0, <3>1, <3>2 DEF StageOK, LogLen
    <2>2. \A j : (Shifted(j) <=> i + 1 < j) /\ (Shifted(j)' <=> i < j)
      <3>1. \A j : Shifted(j) <=> i + 1 < j
        BY <1>a, <2>0, <2>1, ShiftedBy
      <3>2. stage' = stage /\ shift'[p] + 1 = i /\ \A q \in Process : q # p => shift'[q] = shift[q]
        BY <1>0, <1>8, <2>0, <2>1 DEF ShiftBackup, LogTypeOK
      <3>3. \A q \in Process : q # p => stage[q] # "shift"
        BY <1>a, <2>1, RotatesAlone
      <3>4. \A j : Shifted(j)' <=> i < j
        BY <2>1, <3>2, <3>3 DEF Shifted
      <3>5. QED BY <3>1, <3>4
    <2>3. CASE file' = file
      <3>1. /\ \A j \in 0 .. MaxLogBackups : LinesIn(j)' = LinesIn(j)
            /\ Kept' = Kept
        BY <1>0, <2>3, SameLines
      <3>2. NoGap' /\ (~killed' => Enough')
        BY <1>a, <1>e, <2>1, <3>1 DEF NoGap, Enough
      <3>3. ASSUME ~killed', NEW j \in 1 .. MaxLogBackups, NEW l \in LinesIn(j)'
            PROVE  l + Newer(j)' + LogLen' <= line'
        <4>1. l \in LinesIn(j) /\ l \in Nat /\ l + Newer(j) + LogLen <= line
          BY <1>0, <1>a, <1>c, <1>e, <3>1, <3>3 DEF Followed
        <4>2. Newer(j)' \in Int /\ Newer(j)' <= Newer(j)
          <5>1. Shifted(j) => Shifted(j)'
            BY <1>0, <2>1, <2>2
          <5>2. Room(j - 2) \in Int /\ Room(j - 1) \in Int /\ Room(j - 2) <= Room(j - 1)
            BY <1>0, RoomFacts
          <5>3. QED BY <5>1, <5>2 DEF Newer
        <4>3. QED BY <1>0, <1>c, <2>1, <4>1, <4>2
      <3>4. QED BY <3>2, <3>3 DEF Followed
    <2>4. CASE file' # file
      <3>1. /\ file'[i] = NoFile /\ file'[i + 1] = file[i]
            /\ \A j \in 0 .. MaxLogBackups : j # i /\ j # i + 1 => file'[j] = file[j]
        BY <1>0, <1>8, <2>0, <2>4, ShiftBackupFiles
      <3>2. /\ LinesIn(i)' = {} /\ LinesIn(i + 1)' = LinesIn(i)
            /\ \A j \in 0 .. MaxLogBackups : j # i /\ j # i + 1 => LinesIn(j)' = LinesIn(j)
        <4>1. i \in 0 .. MaxLogBackups - 1
          BY <1>0, <2>1
        <4>2. QED BY <1>0, <3>1, <4>1, MoveLines
      <3>3. /\ Kept' \subseteq Kept
            /\ \A l \in Kept \ Kept' : /\ i + 1 = MaxLogBackups /\ l \in LinesIn(MaxLogBackups)
                                       /\ \A m \in Kept' : l < m
        BY <1>0, <1>a, <2>1, <3>1, MoveKept
      <3>4. NoGap'
        BY <1>0, <1>a, <1>d, <2>1, <3>3 DEF NoGap
      <3>5. ~killed' => Enough'
        <4> SUFFICES ASSUME ~killed', NEW l \in 1 .. line, line < l + Room(MaxLogBackups),
                            l \notin Kept'
                     PROVE  FALSE
          BY <2>1 DEF Enough
        <4>1. l \in Kept
          BY <1>a, <1>e DEF Enough
        <4>2. i + 1 = MaxLogBackups /\ l \in LinesIn(MaxLogBackups)
          BY <3>3, <4>1
        <4>3. l + Room(MaxLogBackups - 1) + LogLen <= line
          BY <1>0, <1>a, <1>e, <2>1, <2>2, <4>2 DEF Followed, Newer
        <4>4. QED BY <1>0, <2>1, <4>3, RoomFacts
      <3>6. ASSUME ~killed', NEW j \in 1 .. MaxLogBackups, NEW l \in LinesIn(j)'
            PROVE  l + Newer(j)' + LogLen' <= line'
        <4>1. CASE j = i + 1
          <5>1. l \in LinesIn(i) /\ l + Room(i - 1) + LogLen <= line
            <6>1. i \in 1 .. MaxLogBackups /\ ~Shifted(i)
              BY <1>0, <2>1, <2>2
            <6>2. l \in LinesIn(i)
              BY <3>2, <3>6, <4>1
            <6>3. QED BY <1>a, <1>e, <3>6, <6>1, <6>2 DEF Followed, Newer
          <5>2. Newer(j)' = Room(i - 1)
            <6>1. Shifted(j)' /\ j - 2 = i - 1
              BY <2>1, <2>2, <4>1
            <6>2. QED BY <6>1 DEF Newer
          <5>3. QED BY <2>1, <5>1, <5>2
        <4>2. CASE j # i /\ j # i + 1
          <5>1. l \in LinesIn(j) /\ l + Newer(j) + LogLen <= line
            BY <1>0, <1>a, <1>e, <3>2, <3>6, <4>2 DEF Followed
          <5>2. Shifted(j)' <=> Shifted(j)
            BY <1>0, <2>1, <2>2, <4>2
          <5>3. Newer(j)' = Newer(j)
            BY <5>2 DEF Newer
          <5>4. QED BY <2>1, <5>1, <5>3
        <4>3. QED BY <3>2, <3>6, <4>1, <4>2
      <3>7. QED BY <3>4, <3>5, <3>6 DEF Followed
    <2>5. QED BY <2>3, <2>4
  <1>9. ASSUME NEW p \in Process, ShiftLog(p) PROVE Goal
    <2>1. /\ stage[p] = "shift" /\ shift[p] = 0 /\ line' = line /\ killed' = killed
          /\ MaxLogSize <= LogLen
          /\ 0 < MaxLogBackups - 1 => file[1] = NoFile
      <3>1. stage[p] = "shift" /\ shift[p] = 0 /\ line' = line /\ killed' = killed
        BY <1>9 DEF ShiftLog
      <3>2. QED BY <1>b, <3>1 DEF StageOK
    <2>2. \A j : (Shifted(j) <=> 1 < j) /\ ~Shifted(j)'
      <3>1. \A j : Shifted(j) <=> 1 < j
        BY <1>a, <2>1, ShiftedBy
      <3>2. stage' = [stage EXCEPT ![p] = "open"]
        BY <1>9 DEF ShiftLog
      <3>3. \A q \in Process : q # p => stage[q] # "shift"
        BY <1>a, <2>1, RotatesAlone
      <3>4. QED BY <1>0, <3>1, <3>2, <3>3 DEF Shifted, LogTypeOK
    <2>3. /\ file'[0] = NoFile /\ file'[0 + 1] = file[0] /\ 0 \in 0 .. MaxLogBackups - 1
          /\ \A j \in 0 .. MaxLogBackups : j # 0 /\ j # 0 + 1 => file'[j] = file[j]
      <3>1. file[0] # NoFile
        BY <1>0, <2>1 DEF LogLen, Text
      <3>2. QED BY <1>0, <1>9, <3>1, ShiftLogFiles
    <2>4. /\ LinesIn(0)' = {} /\ LinesIn(1)' = LinesIn(0)
          /\ \A j \in 2 .. MaxLogBackups : LinesIn(j)' = LinesIn(j)
      BY <1>0, <2>3, MoveLines
    <2>5. /\ Kept' \subseteq Kept
          /\ \A l \in Kept \ Kept' : /\ 1 = MaxLogBackups /\ l \in LinesIn(MaxLogBackups)
                                     /\ \A m \in Kept' : l < m
      BY <1>0, <1>a, <2>1, <2>3, MoveKept
    <2>6. LogLen' = 0
      <3>1. Text(file'[0]) = <<>>
        BY <2>3 DEF Text
      <3>2. QED BY <3>1 DEF LogLen
    <2>7. NoGap'
      <3> SUFFICES ASSUME NEW l \in Kept' PROVE l >= 1 /\ \A m \in l .. line' : m \in Kept'
        BY DEF NoGap
      <3> SUFFICES ASSUME NEW m \in l .. line PROVE l >= 1 /\ m \in Kept'
        <4>1. l >= 1
          BY <1>a, <2>5 DEF NoGap
        <4>2. line' = line
          BY <2>1
        <4>3. QED BY <4>1, <4>2
      <3>0. l \in Kept /\ l \in Nat
        BY <1>d, <2>5
      <3>1. l >= 1 /\ m \in Kept /\ l \in Nat
        BY <1>a, <2>1, <3>0 DEF NoGap
      <3>2. m \notin Kept' => m < l
        BY <2>5, <3>1
      <3>3. QED BY <1>0, <3>1, <3>2
    <2>8. ~killed' => Enough'
      <3> SUFFICES ASSUME ~killed', NEW l \in 1 .. line, line < l + Room(MaxLogBackups),
                          l \notin Kept'
                   PROVE  FALSE
        BY <2>1 DEF Enough
      <3>1. l \in Kept
        BY <1>a, <1>e DEF Enough
      <3>2. 1 = MaxLogBackups /\ l \in LinesIn(1)
        BY <2>5, <3>1
      <3>3. l + Room(0) + LogLen <= line
        BY <1>a, <1>e, <2>2, <3>2 DEF Followed, Newer
      <3>4. QED BY <1>0, <2>1, <3>2, <3>3, RoomFacts
    <2>9. ASSUME ~killed', NEW j \in 1 .. MaxLogBackups, NEW l \in LinesIn(j)'
          PROVE  l + Newer(j)' + LogLen' <= line'
      <3>1. CASE j = 1
        <4>1. l \in LinesIn(0) /\ l <= line /\ l \in Nat
          BY <1>0, <1>a, <1>c, <2>4, <2>9, <3>1 DEF OrderInv
        <4>2. Newer(j)' = 0
          BY <2>2, <3>1, RoomFacts DEF Newer
        <4>3. QED BY <2>1, <2>6, <4>1, <4>2
      <3>2. CASE j \in 2 .. MaxLogBackups
        <4>1. l \in LinesIn(j) /\ l \in Nat
          BY <1>0, <1>c, <2>4, <2>9, <3>2
        <4>2. l + Room(j - 2) + LogLen <= line
          BY <1>0, <1>a, <1>e, <2>2, <2>9, <3>2, <4>1 DEF Followed, Newer
        <4>3. Newer(j)' = Room(j - 1)
          BY <2>2 DEF Newer
        <4>4. Room(j - 1) \in Int /\ Room(j - 2) \in Int /\ Room(j - 1) = Room(j - 2) + MaxLogSize
          BY <1>0, RoomFacts
        <4>5. QED BY <1>0, <2>1, <2>6, <4>1, <4>2, <4>3, <4>4
      <3>3. QED BY <1>0, <3>1, <3>2
    <2>10. QED BY <2>7, <2>8, <2>9 DEF Followed
  <1>10. ASSUME NEW p \in Process, OpenEmpty(p) PROVE Goal
    <2>1. LogLen = 0 /\ stage[p] = "open" /\ line' = line
      BY <1>b, <1>10 DEF OpenEmpty, StageOK
    <2>2. Text(file[0]) = <<>>
      BY <1>0, <2>1, LogTypes, EmptySeq DEF LogLen
    <2>3. \A i \in 0 .. MaxLogBackups : Text(file'[i]) = Text(file[i])
      BY <1>0, <1>10, <2>2, OpenEmptyFiles
    <2>4. \A j : Shifted(j)' <=> Shifted(j)
      BY <1>0, <1>10 DEF OpenEmpty, Opened, Shifted, LogTypeOK
    <2>5. QED BY <1>1, <2>1, <2>3, <2>4
  <1>11. ASSUME NEW p \in Process, OpenEmptyFails(p) PROVE Goal
    <2>1. \A j : Shifted(j)' <=> Shifted(j)
      BY <1>0, <1>11 DEF OpenEmptyFails, Shifted, LogTypeOK
    <2>2. QED BY <1>1, <1>11, <2>1 DEF OpenEmptyFails, files
  <1>12. ASSUME NEW p \in Process, Fallback(p) PROVE Goal
    <2>1. \A j : Shifted(j)' <=> Shifted(j)
      BY <1>0, <1>12 DEF Fallback, Opened, Shifted, LogTypeOK
    <2>2. QED BY <1>0, <1>1, <1>12, <2>1, FallbackKeepsText DEF Fallback
  <1>13. QED
    BY <1>3, <1>4, <1>5, <1>6, <1>7, <1>8, <1>9, <1>10, <1>11, <1>12 DEF LogNext, Rotate

LogInv == HandlesInv /\ BoundInv /\ OffsetInv /\ OrderInv /\ StagesInv /\ NewestInv

LEMMA LogInductive == LogSpec => []LogInv
  <1>1. LogInit => LogInv
    BY HandlesInit, BoundInit, OffsetInit, OrderInit, StagesInit, NewestInit DEF LogInv
  <1>2. LogInv /\ [LogNext]_logVars => LogInv'
    BY HandlesNext, BoundNext, OffsetNext, OrderNext, StagesNext, NewestNext DEF LogInv
  <1>3. QED BY <1>1, <1>2, PTL DEF LogSpec

(* Every variable keeps its type; an open log exists.                      *)
THEOREM LogTypeCorrect == LogSpec => []LogTypeOK
  <1>1. LogInv => LogTypeOK
    BY DEF LogInv, HandlesInv
  <1>2. QED BY LogInductive, <1>1, PTL

(* rotate keeps log and backups within maxLogSize, unless the log was      *)
(* opened by the fallback or two processes wrote.                          *)
THEOREM FilesAreBounded == LogSpec => []Bounded
  <1>1. LogInv => Bounded
    BY DEF LogInv, BoundInv
  <1>2. QED BY LogInductive, <1>1, PTL

(* No rename, truncation or reopened log puts a line before an older one,  *)
(* unless processes clashed.                                               *)
THEOREM LinesInOrder == LogSpec => []KeepsOrder
  <1>1. LogInv => KeepsOrder
    BY DEF LogInv, OrderInv
  <1>2. QED BY LogInductive, <1>1, PTL

(* If every rename succeeds, log and backups are the newest lines, without *)
(* a gap, and at least maxLogBackups full files of them.                   *)
THEOREM NewestAreKept == LogSpec => []KeepsNewest
  <1>1. LogInv => KeepsNewest
    BY DEF LogInv, NewestInv
  <1>2. QED BY LogInductive, <1>1, PTL

-----------------------------------------------------------------------------
(* RateLimiter.  For any addresses, handlers, rate and burst the limiter   *)
(* implements RateMeter: eviction changes no decision but those of         *)
(* handlers that held the evicted bucket.                                  *)

HandlerInv(h) ==
  /\ phase[h] = "get" => from[h] \in Ip /\ held[h] = NoBucket
  /\ phase[h] = "allow" => from[h] \in Ip /\ held[h] \in Bucket /\ held[h][1] = from[h]
  /\ phase[h] \notin {"get", "allow"} => from[h] = NoIp /\ held[h] = NoBucket
  /\ h \in free => phase[h] \in {"passed", "429"}

Owned == \A ip \in Ip : buckets[ip] # NoBucket => buckets[ip][1] = ip

SweepInv == /\ doomed # {} => sweep = "sweep"
            /\ \A x, y \in doomed : x = y

RateInv == RateTypeOK /\ (\A h \in Handler : HandlerInv(h)) /\ Owned /\ SweepInv

Record == [tokens : 0 .. Capacity, age : 0 .. IdleTime + 1]

-----------------------------------------------------------------------------
LEMMA CapacityIs == Capacity \in Nat /\ Cost \in Nat /\ Cost > 0 /\ IdleTime \in Nat
                    /\ Capacity <= IdleTime
  <1>1. Cost \in Nat /\ Burst \in Nat /\ Cost > 0 /\ IdleTime \in Nat /\ Capacity <= IdleTime
    BY RateAssumption
  <1>2. \A x, y \in Nat : x * y \in Nat
    OBVIOUS
  <1>3. QED BY <1>1, <1>2 DEF Capacity

LEMMA LeastIs ==
  ASSUME NEW x \in Nat, NEW y \in Nat
  PROVE  Least(x, y) \in Nat /\ Least(x, y) <= x /\ Least(x, y) <= y
         /\ (x <= y => Least(x, y) = x) /\ (y <= x => Least(x, y) = y)
  BY DEF Least

LEMMA RecordIs ==
  ASSUME NEW x \in Record
  PROVE  x.tokens \in 0 .. Capacity /\ x.age \in 0 .. IdleTime + 1 /\ x.tokens \in Nat /\ x.age \in Nat
  BY CapacityIs DEF Record

(* There is always a name left for a new bucket. *)
LEMMA NameLeft ==
  ASSUME RateInv, NEW ip \in Ip, buckets[ip] = NoBucket
  PROVE  \E n \in Number : <<ip, n>> \notin DOMAIN heap
  <1> DEFINE f == [g \in Handler |-> held[g][2]]
             T == {f[g] : g \in Handler}
  <1>1. f \in Surjection(Handler, T)
    BY DEF Surjection
  <1>2. IsFiniteSet(T) /\ Cardinality(T) <= Cardinality(Handler)
    BY <1>1, FS_Surjection, NamesAssumption
  <1>3. ~(Number \subseteq T)
    <2>1. ASSUME Number \subseteq T PROVE FALSE
      <3>1. Cardinality(Number) <= Cardinality(T)
        BY <1>2, <2>1, FS_Subset
      <3>2. Cardinality(Number) \in Nat /\ Cardinality(T) \in Nat /\ Cardinality(Handler) \in Nat
        BY <1>2, NamesAssumption, FS_CardinalityType
      <3>3. QED BY <1>2, <3>1, <3>2, NamesAssumption
    <2>2. QED BY <2>1
  <1>4. PICK n \in Number : n \notin T
    BY <1>3
  <1>5. \A g \in Handler : held[g] # <<ip, n>>
    BY <1>4
  <1>6. \A x \in Ip : buckets[x] # <<ip, n>>
    <2>1. ASSUME NEW x \in Ip, buckets[x] = <<ip, n>> PROVE FALSE
      <3>1. buckets[x] # NoBucket
        BY <2>1, NamesAssumption DEF Bucket
      <3>2. x = ip
        BY <2>1, <3>1 DEF RateInv, Owned
      <3>3. QED BY <2>1, <3>1, <3>2
    <2>2. QED BY <2>1
  <1>7. DOMAIN heap = InUse(buckets, held)
    BY DEF RateInv, RateTypeOK
  <1>8. QED BY <1>5, <1>6, <1>7 DEF InUse

(* The buckets in use have a count of tokens and an age. *)
LEMMA HeapIs ==
  ASSUME RateTypeOK
  PROVE  /\ heap \in [InUse(buckets, held) -> Record]
         /\ \A ip \in Ip : buckets[ip] # NoBucket => buckets[ip] \in DOMAIN heap
         /\ \A h \in Handler : held[h] # NoBucket => held[h] \in DOMAIN heap
  BY DEF RateTypeOK, InUse, Record

LEMMA FilledIs ==
  ASSUME RateTypeOK, NEW b \in DOMAIN heap
  PROVE  /\ heap[b] \in Record /\ Filled(b) \in 0 .. Capacity
         /\ Idle(b) => Filled(b) = Capacity
  <1>1. heap[b] \in Record
    BY HeapIs
  <1>2. /\ heap[b].tokens \in Nat /\ heap[b].age \in Nat
    BY <1>1, RecordIs
  <1>3. QED BY <1>1, <1>2, CapacityIs, LeastIs DEF Filled, Idle

-----------------------------------------------------------------------------
(* The steps keep the invariant. *)
LEMMA RateInitInv == RateInit => RateInv
  <1> SUFFICES ASSUME RateInit PROVE RateInv
    OBVIOUS
  <1> USE DEF RateInit
  <1>1. InUse(buckets, held) = {}
    BY NamesAssumption DEF InUse
  <1>2. RateTypeOK
    BY <1>1 DEF RateTypeOK
  <1>3. QED BY <1>2 DEF RateInv, HandlerInv, Owned, SweepInv

LEMMA TickInv == ASSUME RateInv, Tick PROVE RateInv'
  <1> USE DEF Tick, hvars, svars
  <1>1. ASSUME NEW b \in DOMAIN heap
        PROVE  [heap[b] EXCEPT !.age = Least(@ + 1, IdleTime + 1)] \in Record
    <2>1. heap[b] \in Record /\ heap[b].age \in Nat
      BY FilledIs, RecordIs DEF RateInv
    <2>2. Least(heap[b].age + 1, IdleTime + 1) \in 0 .. IdleTime + 1
      BY <2>1, CapacityIs, LeastIs
    <2>3. QED BY <2>1, <2>2 DEF Record
  <1>2. heap' \in [InUse(buckets, held) -> Record]
    BY <1>1, HeapIs DEF RateInv
  <1>3. RateTypeOK'
    BY <1>2 DEF RateInv, RateTypeOK, Record
  <1>4. QED BY <1>3 DEF RateInv, HandlerInv, Owned, SweepInv

LEMMA ArriveInv == ASSUME RateInv, NEW h \in Handler, Arrive(h) PROVE RateInv'
  <1> USE DEF Arrive, svars
  <1>1. RateTypeOK'
    BY DEF RateInv, RateTypeOK
  <1>2. ASSUME NEW g \in Handler PROVE HandlerInv(g)'
    BY DEF RateInv, RateTypeOK, HandlerInv
  <1>3. QED BY <1>1, <1>2 DEF RateInv, Owned, SweepInv

LEMMA EndInv == ASSUME RateInv, NEW h \in Handler, End(h) PROVE RateInv'
  <1> USE DEF End, svars
  <1>1. RateTypeOK'
    BY DEF RateInv, RateTypeOK
  <1>2. ASSUME NEW g \in Handler PROVE HandlerInv(g)'
    BY DEF RateInv, RateTypeOK, HandlerInv
  <1>3. QED BY <1>1, <1>2 DEF RateInv, Owned, SweepInv

(* get, of a bucket that is there and of a new one. *)
GetOld(h) == /\ buckets[from[h]] # NoBucket
             /\ held' = [held EXCEPT ![h] = buckets[from[h]]]
             /\ UNCHANGED <<buckets, heap>>

GetNew(h, b) == /\ buckets[from[h]] = NoBucket
                /\ b \in Bucket /\ b[1] = from[h] /\ b \notin DOMAIN heap
                /\ held' = [held EXCEPT ![h] = b]
                /\ buckets' = [buckets EXCEPT ![from[h]] = b]
                /\ heap' = [x \in DOMAIN heap \cup {b} |->
                              IF x = b THEN [tokens |-> Capacity, age |-> 0] ELSE heap[x]]

LEMMA GetIs ==
  ASSUME RateInv, NEW h \in Handler, Get(h)
  PROVE  /\ phase[h] = "get" /\ sweep # "sweep" /\ from[h] \in Ip /\ held[h] = NoBucket /\ doomed = {}
         /\ phase' = [phase EXCEPT ![h] = "allow"] /\ UNCHANGED <<from, free, svars>>
         /\ GetOld(h) \/ \E b : GetNew(h, b)
  <1>1. /\ phase[h] = "get" /\ sweep # "sweep" /\ from[h] \in Ip /\ held[h] = NoBucket /\ doomed = {}
        /\ phase' = [phase EXCEPT ![h] = "allow"] /\ UNCHANGED <<from, free, svars>>
    BY DEF Get, Unlocked, RateInv, HandlerInv, SweepInv
  <1>2. CASE buckets[from[h]] # NoBucket
    <2>1. held' = [held EXCEPT ![h] = buckets[from[h]]] /\ UNCHANGED <<buckets, heap>>
      BY <1>2, Zenon DEF Get
    <2>2. QED BY <1>1, <1>2, <2>1 DEF GetOld
  <1>3. CASE buckets[from[h]] = NoBucket
    <2> DEFINE n == CHOOSE n \in Number : <<from[h], n>> \notin DOMAIN heap
               b == <<from[h], n>>
    <2>1. n \in Number /\ b \notin DOMAIN heap
      BY <1>1, <1>3, NameLeft
    <2>2. b \in Bucket /\ b[1] = from[h]
      <3> HIDE DEF n
      <3>1. QED BY <1>1, <2>1 DEF Bucket
    <2>3. /\ held' = [held EXCEPT ![h] = b]
          /\ buckets' = [buckets EXCEPT ![from[h]] = b]
          /\ heap' = [x \in DOMAIN heap \cup {b} |->
                              IF x = b THEN [tokens |-> Capacity, age |-> 0] ELSE heap[x]]
      BY <1>3 DEF Get
    <2> HIDE DEF b
    <2>4. GetNew(h, b)
      BY <1>3, <2>1, <2>2, <2>3 DEF GetNew
    <2>5. QED BY <1>1, <2>4
  <1>4. QED BY <1>1, <1>2, <1>3

LEMMA GetInv == ASSUME RateInv, NEW h \in Handler, Get(h) PROVE RateInv'
  <1>1. /\ phase[h] = "get" /\ sweep # "sweep" /\ from[h] \in Ip /\ held[h] = NoBucket /\ doomed = {}
        /\ phase' = [phase EXCEPT ![h] = "allow"] /\ UNCHANGED <<from, free, svars>>
        /\ GetOld(h) \/ \E b : GetNew(h, b)
    BY GetIs
  <1>2. CASE GetOld(h)
    <2>1. InUse(buckets, held)' = InUse(buckets, held)
      BY <1>1, <1>2, NamesAssumption DEF GetOld, InUse, RateInv, RateTypeOK
    <2>2. RateTypeOK'
      BY <1>1, <1>2, <2>1 DEF GetOld, RateInv, RateTypeOK, svars
    <2>3. ASSUME NEW g \in Handler PROVE HandlerInv(g)'
      BY <1>1, <1>2 DEF GetOld, RateInv, RateTypeOK, HandlerInv, Owned
    <2>4. QED BY <1>1, <1>2, <2>2, <2>3 DEF GetOld, RateInv, Owned, SweepInv, svars
  <1>3. ASSUME NEW b, GetNew(h, b) PROVE RateInv'
    <2> USE <1>3 DEF GetNew
    <2>1. InUse(buckets, held)' = DOMAIN heap \cup {b}
      <3>1. DOMAIN heap = InUse(buckets, held)
        BY DEF RateInv, RateTypeOK
      <3>2. b # NoBucket
        BY NamesAssumption
      <3>3. /\ \A ip \in Ip : buckets'[ip] = IF ip = from[h] THEN b ELSE buckets[ip]
            /\ \A g \in Handler : held'[g] = IF g = h THEN b ELSE held[g]
        BY <1>1 DEF RateInv, RateTypeOK
      <3>4. QED BY <1>1, <3>1, <3>2, <3>3, NamesAssumption DEF InUse
    <2>2. heap' \in [DOMAIN heap \cup {b} -> Record]
      <3>1. [tokens |-> Capacity, age |-> 0] \in Record
        BY CapacityIs DEF Record
      <3>2. heap \in [DOMAIN heap -> Record]
        BY HeapIs DEF RateInv
      <3>3. QED BY <3>1, <3>2
    <2>3. RateTypeOK'
      BY <1>1, <2>1, <2>2 DEF RateInv, RateTypeOK, svars, Record
    <2>4. ASSUME NEW g \in Handler PROVE HandlerInv(g)'
      BY <1>1 DEF RateInv, RateTypeOK, HandlerInv
    <2>5. Owned'
      BY <1>1 DEF RateInv, RateTypeOK, Owned
    <2>6. QED BY <1>1, <2>3, <2>4, <2>5 DEF RateInv, SweepInv, svars
  <1>4. QED BY <1>1, <1>2, <1>3

(* allow, with what it leaves in the bucket. *)
Left(h) == IF Filled(held[h]) >= Cost THEN Filled(held[h]) - Cost ELSE Filled(held[h])

LEMMA AllowIs ==
  ASSUME RateInv, NEW h \in Handler, Allow(h)
  PROVE  /\ phase[h] = "allow" /\ from[h] \in Ip /\ held[h] \in Bucket /\ held[h][1] = from[h]
         /\ held[h] \in DOMAIN heap /\ held[h] # NoBucket
         /\ Left(h) \in 0 .. Capacity
         /\ phase' = [phase EXCEPT ![h] = IF Filled(held[h]) >= Cost THEN "passed" ELSE "429"]
         /\ held' = [held EXCEPT ![h] = NoBucket] /\ from' = [from EXCEPT ![h] = NoIp]
         /\ InUse(buckets, held)' \subseteq DOMAIN heap
         /\ heap' \in [InUse(buckets, held)' -> Record]
         /\ \A b \in InUse(buckets, held)' :
              heap'[b] = IF b = held[h] THEN [tokens |-> Left(h), age |-> 0] ELSE heap[b]
         /\ free' = IF Lost(h) THEN free \cup {h} ELSE free
         /\ UNCHANGED <<svars, buckets>>
  <1>1. /\ phase[h] = "allow" /\ from[h] \in Ip /\ held[h] \in Bucket /\ held[h][1] = from[h]
        /\ held[h] # NoBucket
    BY NamesAssumption DEF Allow, RateInv, HandlerInv
  <1>2. held[h] \in DOMAIN heap /\ heap \in [DOMAIN heap -> Record]
    BY <1>1, HeapIs DEF RateInv
  <1>3. Left(h) \in 0 .. Capacity
    BY <1>2, FilledIs, CapacityIs DEF RateInv, Left
  <1>4. /\ phase' = [phase EXCEPT ![h] = IF Filled(held[h]) >= Cost THEN "passed" ELSE "429"]
        /\ held' = [held EXCEPT ![h] = NoBucket] /\ from' = [from EXCEPT ![h] = NoIp]
        /\ free' = IF Lost(h) THEN free \cup {h} ELSE free
        /\ UNCHANGED <<svars, buckets>>
        /\ heap' = Only([heap EXCEPT ![held[h]] = [tokens |-> Left(h), age |-> 0]], InUse(buckets, held'))
    BY DEF Allow, Left
  <1>5. InUse(buckets, held)' = InUse(buckets, held')
    BY <1>4 DEF InUse
  <1>6. InUse(buckets, held') \subseteq DOMAIN heap
    BY <1>4, NamesAssumption DEF InUse, RateInv, RateTypeOK
  <1>7. \A b \in InUse(buckets, held') :
          heap'[b] = IF b = held[h] THEN [tokens |-> Left(h), age |-> 0] ELSE heap[b]
    BY <1>2, <1>4, <1>6 DEF Only
  <1>8. [tokens |-> Left(h), age |-> 0] \in Record
    BY <1>3, CapacityIs DEF Record
  <1>9. heap' \in [InUse(buckets, held') -> Record]
    <2>1. heap' = [b \in InUse(buckets, held') |->
                    [heap EXCEPT ![held[h]] = [tokens |-> Left(h), age |-> 0]][b]]
      BY <1>4 DEF Only
    <2>2. QED BY <1>2, <1>6, <1>7, <1>8, <2>1
  <1>10. QED BY <1>1, <1>2, <1>3, <1>4, <1>5, <1>6, <1>7, <1>9

LEMMA AllowInv == ASSUME RateInv, NEW h \in Handler, Allow(h) PROVE RateInv'
  <1>1. RateTypeOK'
    <2>1. heap' \in [InUse(buckets, held)' -> Record]
      BY AllowIs
    <2>2. /\ phase' = [phase EXCEPT ![h] = IF Filled(held[h]) >= Cost THEN "passed" ELSE "429"]
          /\ held' = [held EXCEPT ![h] = NoBucket] /\ from' = [from EXCEPT ![h] = NoIp]
          /\ free' \subseteq free \cup {h} /\ UNCHANGED <<svars, buckets>>
      BY AllowIs
    <2>3. QED BY <2>1, <2>2 DEF RateInv, RateTypeOK, svars, Record
  <1>2. ASSUME NEW g \in Handler PROVE HandlerInv(g)'
    <2>1. /\ phase' = [phase EXCEPT ![h] = IF Filled(held[h]) >= Cost THEN "passed" ELSE "429"]
          /\ held' = [held EXCEPT ![h] = NoBucket] /\ from' = [from EXCEPT ![h] = NoIp]
          /\ free' \subseteq free \cup {h}
      BY AllowIs
    <2>2. QED BY <2>1 DEF RateInv, RateTypeOK, HandlerInv
  <1>3. QED BY <1>1, <1>2, AllowIs DEF RateInv, Owned, SweepInv, svars

LEMMA EvictIs ==
  ASSUME RateInv, Evict
  PROVE  /\ UNCHANGED <<hvars, unswept, sweep>> /\ doomed' = {}
         /\ \E ip \in Ip : doomed = {ip} /\ buckets' = [buckets EXCEPT ![ip] = NoBucket]
         /\ InUse(buckets, held)' \subseteq DOMAIN heap
         /\ heap' = [b \in InUse(buckets, held)' |-> heap[b]]
  <1>1. PICK ip \in doomed : /\ buckets' = [buckets EXCEPT ![ip] = NoBucket]
                             /\ heap' = Only(heap, InUse(buckets', held))
    BY DEF Evict
  <1>2. UNCHANGED <<hvars, unswept, sweep>> /\ doomed' = {}
    BY DEF Evict
  <1>3. ip \in Ip /\ doomed = {ip}
    BY DEF RateInv, RateTypeOK, SweepInv
  <1>4. InUse(buckets, held)' = InUse(buckets', held)
    BY <1>2 DEF InUse, hvars
  <1>5. InUse(buckets', held) \subseteq DOMAIN heap
    BY <1>1, <1>3, NamesAssumption DEF InUse, RateInv, RateTypeOK
  <1>6. QED BY <1>1, <1>2, <1>3, <1>4, <1>5 DEF Only

LEMMA EvictorInv == ASSUME RateInv, Evictor \/ Stop PROVE RateInv'
  <1>1. CASE Evict
    <2>1. heap' \in [InUse(buckets, held)' -> Record]
      BY <1>1, EvictIs, HeapIs DEF RateInv
    <2>2. RateTypeOK'
      BY <1>1, <2>1, EvictIs DEF RateInv, RateTypeOK, hvars, Record
    <2>3. QED BY <1>1, <2>2, EvictIs DEF RateInv, RateTypeOK, HandlerInv, Owned, SweepInv, hvars
  <1>2. CASE SweepBegin \/ Judge \/ SweepEnd \/ Stop
    <2> USE <1>2 DEF SweepBegin, Judge, SweepEnd, Stop, hvars
    <2>1. UNCHANGED <<phase, from, held, free, buckets, heap>>
      OBVIOUS
    <2>2. unswept' \subseteq Ip /\ doomed' \subseteq Ip /\ sweep' \in {"sleep", "sweep", "ended"}
      BY DEF RateInv, RateTypeOK
    <2>3. RateTypeOK'
      BY <2>1, <2>2 DEF RateInv, RateTypeOK
    <2>4. SweepInv'
      BY DEF RateInv, SweepInv
    <2>5. QED BY <2>1, <2>3, <2>4 DEF RateInv, HandlerInv, Owned
  <1>3. QED BY <1>1, <1>2 DEF Evictor

LEMMA RateStutterInv == ASSUME RateInv, UNCHANGED rateVars PROVE RateInv'
  <1> USE DEF rateVars, hvars, svars
  <1>1. InUse(buckets, held)' = InUse(buckets, held)
    BY DEF InUse
  <1>2. RateTypeOK'
    BY <1>1 DEF RateInv, RateTypeOK
  <1>3. QED BY <1>2 DEF RateInv, HandlerInv, Owned, SweepInv

LEMMA RateNextInv == RateInv /\ [RateNext]_rateVars => RateInv'
  <1> SUFFICES ASSUME RateInv, [RateNext]_rateVars PROVE RateInv'
    OBVIOUS
  <1>1. ASSUME NEW h \in Handler, Arrive(h) \/ Step(h) PROVE RateInv'
    BY <1>1, ArriveInv, GetInv, AllowInv, EndInv DEF Step
  <1>2. QED BY <1>1, TickInv, EvictorInv, RateStutterInv DEF RateNext

LEMMA RateInductive == RateSpec => []RateInv
  BY RateInitInv, RateNextInv, PTL DEF RateSpec

(* Every variable stays within its type: a bucket never holds more than    *)
(* the burst (middleware.go:31).                                           *)
THEOREM RateTypeCorrect == RateSpec => []RateTypeOK
  BY RateInductive, PTL DEF RateInv

(* get returns the bucket that is in the store, and not one a sweep is     *)
(* about to delete: both hold s.mu (middleware.go:61, 91).                 *)
THEOREM BucketsAreCurrent == RateSpec => GetIsCurrent
  <1> DEFINE A == \A h \in Handler : held[h] = NoBucket /\ held'[h] # NoBucket => ~Lost(h)'
  <1>1. ASSUME RateInv, [RateNext]_rateVars PROVE A
    <2> SUFFICES ASSUME NEW h \in Handler, held[h] = NoBucket, held'[h] # NoBucket PROVE ~Lost(h)'
      OBVIOUS
    <2>1. CASE Tick \/ Evictor \/ Stop \/ UNCHANGED rateVars
      BY <1>1, <2>1 DEF Tick, Evictor, SweepBegin, Judge, Evict, SweepEnd, Stop, rateVars, hvars
    <2>2. ASSUME NEW q \in Handler, Arrive(q) \/ End(q) PROVE FALSE
      BY <2>2 DEF Arrive, End
    <2>3. ASSUME NEW q \in Handler, Allow(q) PROVE FALSE
      <3>1. held' = [held EXCEPT ![q] = NoBucket]
        BY <2>3 DEF Allow
      <3>2. QED BY <1>1, <3>1 DEF RateInv, RateTypeOK
    <2>4. ASSUME NEW q \in Handler, Get(q) PROVE ~Lost(h)'
      <3>1. /\ from[q] \in Ip /\ doomed = {} /\ from' = from /\ doomed' = doomed
            /\ GetOld(q) \/ \E b : GetNew(q, b)
        <4>1. UNCHANGED svars
          BY <1>1, <2>4, GetIs
        <4>2. QED BY <1>1, <2>4, <4>1, GetIs DEF svars
      <3>2. CASE GetOld(q)
        <4>1. h = q /\ held'[h] = buckets'[from[h]]
          BY <1>1, <3>1, <3>2 DEF GetOld, RateInv, RateTypeOK
        <4>2. QED BY <3>1, <4>1 DEF Lost
      <3>3. ASSUME NEW b, GetNew(q, b) PROVE ~Lost(h)'
        <4>1. h = q /\ held'[h] = buckets'[from[h]]
          BY <1>1, <3>1, <3>3 DEF GetNew, RateInv, RateTypeOK
        <4>2. QED BY <3>1, <4>1 DEF Lost
      <3>4. QED BY <3>1, <3>2, <3>3
    <2>5. QED BY <1>1, <2>1, <2>2, <2>3, <2>4 DEF RateNext, Step
  <1> HIDE DEF A
  <1>2. ASSUME RateInv, [RateNext]_rateVars PROVE [A]_rateVars
    BY <1>1, <1>2
  <1>3. QED BY <1>2, RateInductive, PTL DEF RateSpec, GetIsCurrent, A

-----------------------------------------------------------------------------
(* The refinement.  What the meter sees of a step.                         *)
FilledIn(hp, b) == Least(hp[b].tokens + hp[b].age, Capacity)

LEMMA CreditIs ==
  ASSUME RateInv
  PROVE  /\ Credit \in [Ip -> 0 .. Capacity]
         /\ \A ip \in Ip : Credit[ip] = IF buckets[ip] = NoBucket \/ ip \in doomed
                                        THEN Capacity ELSE FilledIn(heap, buckets[ip])
  <1>1. ASSUME NEW ip \in Ip, buckets[ip] # NoBucket PROVE Filled(buckets[ip]) \in 0 .. Capacity
    BY <1>1, FilledIs, HeapIs DEF RateInv
  <1>2. QED BY <1>1, CapacityIs DEF Credit, Filled, FilledIn

LEMMA CreditNext ==
  \A ip \in Ip : Credit'[ip] = IF buckets'[ip] = NoBucket \/ ip \in doomed'
                               THEN Capacity ELSE FilledIn(heap', buckets'[ip])
  BY DEF Credit, Filled, FilledIn

(* A bucket that stays as it is stays worth the same. *)
LEMMA FilledInKept == ASSUME NEW b, heap'[b] = heap[b] PROVE FilledIn(heap', b) = FilledIn(heap, b)
  BY DEF FilledIn

(* Decisions and credit are the same when these are. *)
LEMMA VerdictKept == ASSUME UNCHANGED <<phase, free>> PROVE Verdict' = Verdict
  BY DEF Verdict

LEMMA CreditKept == ASSUME \A ip \in Ip : Credit'[ip] = Credit[ip] PROVE Credit' = Credit
  BY DEF Credit

LEMMA VerdictIs ==
  ASSUME NEW h \in Handler, HandlerInv(h), phase[h] \in {"idle", "get", "allow", "passed", "403", "429"}
  PROVE  /\ Verdict[h] = "none" <=> phase[h] \in {"idle", "403"}
         /\ Verdict[h] = "asked" <=> phase[h] \in {"get", "allow"}
         /\ Verdict[h] = "free" <=> h \in free
         /\ Verdict[h] = "refused" <=> h \notin free /\ phase[h] = "429"
         /\ Verdict[h] = "passed" <=> h \notin free /\ phase[h] = "passed"
         /\ Verdict[h] \in {"none", "asked", "free", "refused", "passed"}
  BY DEF Verdict, HandlerInv

(* The step of one handler changes its verdict only. *)
LEMMA VerdictStep ==
  ASSUME RateInv, NEW h \in Handler, NEW v, Verdict'[h] = v,
         \A g \in Handler \ {h} : phase'[g] = phase[g] /\ (g \in free' <=> g \in free)
  PROVE  Verdict' = [Verdict EXCEPT ![h] = v]
  <1>1. \A g \in Handler \ {h} : Verdict'[g] = Verdict[g]
    BY DEF Verdict
  <1>2. QED BY <1>1 DEF Verdict

LEMMA TickRefines == ASSUME RateInv, RateInv', Tick PROVE Meter!Tick
  <1> USE DEF Tick, hvars, svars
  <1>1. doomed = {} /\ doomed' = {} /\ buckets' = buckets
    BY DEF RateInv, SweepInv
  <1>2. ASSUME NEW ip \in Ip
        PROVE  Credit'[ip] = IF Credit[ip] < Capacity THEN Credit[ip] + 1 ELSE Capacity
    <2>1. CASE buckets[ip] = NoBucket
      BY <1>1, <2>1, CreditIs, CreditNext, CapacityIs
    <2>2. CASE buckets[ip] # NoBucket
      <3> DEFINE b == buckets[ip]
      <3>1. b \in DOMAIN heap /\ heap[b] \in Record /\ heap[b].tokens \in Nat /\ heap[b].age \in Nat
            /\ heap[b].tokens <= Capacity /\ heap[b].age <= IdleTime + 1
        BY <2>2, HeapIs, FilledIs, RecordIs DEF RateInv
      <3>2. heap'[b].tokens = heap[b].tokens /\ heap'[b].age = Least(heap[b].age + 1, IdleTime + 1)
        BY <3>1 DEF Record
      <3>3. Credit[ip] = FilledIn(heap, b) /\ Credit'[ip] = FilledIn(heap', b)
        BY <1>1, <2>2, CreditIs, CreditNext
      <3>4. FilledIn(heap, b) = Least(heap[b].tokens + heap[b].age, Capacity)
            /\ FilledIn(heap', b) = Least(heap[b].tokens + Least(heap[b].age + 1, IdleTime + 1), Capacity)
        BY <3>2 DEF FilledIn
      <3>5. ASSUME NEW t \in Nat, NEW g \in Nat, t <= Capacity, g <= IdleTime + 1
            PROVE  Least(t + Least(g + 1, IdleTime + 1), Capacity) =
                     IF Least(t + g, Capacity) < Capacity THEN Least(t + g, Capacity) + 1 ELSE Capacity
        <4>1. CASE g + 1 <= IdleTime + 1
          BY <3>5, <4>1, CapacityIs DEF Least
        <4>2. CASE ~(g + 1 <= IdleTime + 1)
          BY <3>5, <4>2, CapacityIs DEF Least
        <4>3. QED BY <4>1, <4>2
      <3>6. QED BY <3>1, <3>3, <3>4, <3>5
    <2>3. QED BY <2>1, <2>2
  <1>3. Credit' = [ip \in Ip |-> IF Credit[ip] < Capacity THEN Credit[ip] + 1 ELSE Capacity]
    BY <1>2, CreditIs DEF Credit
  <1>4. QED BY <1>3, VerdictKept DEF Meter!Tick

LEMMA ArriveRefines ==
  ASSUME RateInv, RateInv', NEW h \in Handler, Arrive(h) PROVE [Meter!Next]_Meter!vars
  <1>1. phase[h] = "idle" /\ UNCHANGED <<held, free, svars, buckets, heap>>
    BY DEF Arrive
  <1>2. Credit' = Credit
    BY <1>1 DEF Credit, Filled, svars
  <1>3. PICK ip \in Ip : \/ phase' = [phase EXCEPT ![h] = "403"] /\ from' = from
                         \/ phase' = [phase EXCEPT ![h] = "get"] /\ from' = [from EXCEPT ![h] = ip]
    BY DEF Arrive
  <1>4. \A g \in Handler \ {h} : phase'[g] = phase[g] /\ (g \in free' <=> g \in free)
    BY <1>1, <1>3 DEF RateInv, RateTypeOK
  <1>5. Verdict[h] = "none" /\ HandlerInv(h)'
    BY <1>1, VerdictIs DEF RateInv
  <1>6. CASE phase' = [phase EXCEPT ![h] = "403"] /\ from' = from
    <2>1. phase'[h] = "403" /\ h \notin free'
      BY <1>1, <1>5, <1>6 DEF RateInv, RateTypeOK, HandlerInv
    <2>2. Verdict'[h] = "none"
      BY <2>1 DEF Verdict
    <2>3. Verdict' = Verdict
      BY <1>4, <1>5, <2>2, VerdictStep DEF Verdict
    <2>4. QED BY <1>2, <1>6, <2>3 DEF Meter!vars
  <1>7. CASE phase' = [phase EXCEPT ![h] = "get"] /\ from' = [from EXCEPT ![h] = ip]
    <2>1. phase'[h] = "get" /\ h \notin free'
      BY <1>5, <1>7 DEF RateInv, RateTypeOK, HandlerInv
    <2>2. Verdict'[h] = "asked"
      BY <2>1 DEF Verdict
    <2>3. Verdict' = [Verdict EXCEPT ![h] = "asked"]
      BY <1>4, <2>2, VerdictStep
    <2>4. Meter!Ask(h)
      BY <1>2, <1>5, <1>7, <2>3 DEF Meter!Ask
    <2>5. QED BY <2>4 DEF Meter!Next
  <1>8. QED BY <1>3, <1>6, <1>7

LEMMA GetRefines ==
  ASSUME RateInv, RateInv', NEW h \in Handler, Get(h) PROVE UNCHANGED Meter!vars
  <1>1. /\ phase[h] = "get" /\ from[h] \in Ip /\ doomed = {} /\ doomed' = {}
        /\ phase' = [phase EXCEPT ![h] = "allow"] /\ UNCHANGED <<from, free>>
        /\ GetOld(h) \/ \E b : GetNew(h, b)
    BY GetIs DEF svars
  <1>2. Verdict' = Verdict
    <2>1. phase'[h] = "allow" /\ h \notin free /\ \A g \in Handler \ {h} : phase'[g] = phase[g]
      BY <1>1 DEF RateInv, RateTypeOK, HandlerInv
    <2>2. Verdict'[h] = "asked" /\ Verdict[h] = "asked"
      BY <1>1, <2>1 DEF Verdict
    <2>3. QED BY <1>1, <2>1, <2>2, VerdictStep DEF Verdict
  <1>3. Credit' = Credit
    <2>1. CASE GetOld(h)
      BY <1>1, <2>1 DEF GetOld, Credit, Filled
    <2>2. ASSUME NEW b, GetNew(h, b) PROVE Credit' = Credit
      <3> USE <2>2 DEF GetNew
      <3>1. b # NoBucket /\ buckets'[from[h]] = b
        BY <1>1, NamesAssumption DEF RateInv, RateTypeOK
      <3>2. Credit[from[h]] = Capacity
        BY <1>1, CreditIs
      <3>3. Credit'[from[h]] = Capacity
        <4>1. FilledIn(heap', b) = Least(Capacity + 0, Capacity)
          BY DEF FilledIn
        <4>2. Least(Capacity + 0, Capacity) = Capacity
          BY CapacityIs, LeastIs
        <4>3. QED BY <1>1, <3>1, <4>1, <4>2, CreditNext
      <3>4. ASSUME NEW ip \in Ip, ip # from[h] PROVE Credit'[ip] = Credit[ip]
        <4>1. buckets'[ip] = buckets[ip]
          BY <3>4 DEF RateInv, RateTypeOK
        <4>2. CASE buckets[ip] # NoBucket
          <5>1. buckets[ip] \in DOMAIN heap
            BY <4>2, HeapIs DEF RateInv
          <5>2. heap'[buckets[ip]] = heap[buckets[ip]]
            BY <5>1
          <5>3. FilledIn(heap', buckets[ip]) = FilledIn(heap, buckets[ip])
            BY <5>2, FilledInKept
          <5>4. ip \notin doomed /\ ip \notin doomed'
            BY <1>1
          <5>5. Credit[ip] = FilledIn(heap, buckets[ip])
            BY <4>2, <5>4, CreditIs
          <5>6. Credit'[ip] = FilledIn(heap', buckets[ip])
            BY <4>1, <4>2, <5>4, CreditNext
          <5>7. QED BY <5>3, <5>5, <5>6
        <4>3. CASE buckets[ip] = NoBucket
          BY <4>1, <4>3, CreditIs, CreditNext
        <4>4. QED BY <4>2, <4>3
      <3>5. QED BY <3>2, <3>3, <3>4, CreditKept
    <2>3. QED BY <1>1, <2>1, <2>2
  <1>4. QED BY <1>1, <1>2, <1>3 DEF Meter!vars

LEMMA AllowRefines ==
  ASSUME RateInv, RateInv', NEW h \in Handler, Allow(h) PROVE Meter!Next
  <1> DEFINE b == held[h]
             ip == from[h]
             pays == Filled(b) >= Cost
  <1>1. /\ phase[h] = "allow" /\ ip \in Ip /\ b[1] = ip /\ b # NoBucket /\ Left(h) \in 0 .. Capacity
        /\ phase' = [phase EXCEPT ![h] = IF pays THEN "passed" ELSE "429"]
        /\ from' = [from EXCEPT ![h] = NoIp]
        /\ free' = IF Lost(h) THEN free \cup {h} ELSE free
        /\ buckets' = buckets /\ doomed' = doomed
    BY AllowIs DEF svars
  <1>2. \A x \in InUse(buckets, held)' :
          heap'[x] = IF x = b THEN [tokens |-> Left(h), age |-> 0] ELSE heap[x]
    BY AllowIs
  <1>3. ASSUME NEW x \in Ip, buckets[x] # b \/ x \in doomed PROVE Credit'[x] = Credit[x]
    <2>1. CASE buckets[x] = NoBucket \/ x \in doomed
      BY <1>1, <2>1, CreditIs, CreditNext
    <2>2. CASE buckets[x] # NoBucket /\ x \notin doomed
      <3>1. buckets[x] \in InUse(buckets, held)'
        BY <1>1, <2>2 DEF InUse, RateInv, RateTypeOK
      <3>2. heap'[buckets[x]] = heap[buckets[x]]
        BY <1>2, <1>3, <2>2, <3>1
      <3>3. QED BY <1>1, <2>2, <3>2, FilledInKept, CreditIs, CreditNext
    <2>3. QED BY <2>1, <2>2
  <1>4. \A x \in Ip : x # ip => buckets[x] # b
    BY <1>1 DEF RateInv, Owned
  <1>5. Verdict[h] = "asked" /\ (\A g \in Handler \ {h} : phase'[g] = phase[g] /\ (g \in free' <=> g \in free))
        /\ phase'[h] = (IF pays THEN "passed" ELSE "429") /\ HandlerInv(h) /\ h \notin free
    BY <1>1, VerdictIs DEF RateInv, RateTypeOK, HandlerInv
  <1>6. ASSUME NEW v, Verdict'[h] = v PROVE Meter!Decide(h, v)
    <2>1. Verdict' = [Verdict EXCEPT ![h] = v]
      BY <1>5, <1>6, VerdictStep
    <2>2. QED BY <1>1, <1>5, <2>1 DEF Meter!Decide
  <1>7. CASE Lost(h)
    <2>1. Verdict'[h] = "free"
      BY <1>1, <1>5, <1>7 DEF Verdict
    <2>2. \A x \in Ip : Credit'[x] = Credit[x]
      BY <1>1, <1>3, <1>4, <1>7 DEF Lost
    <2>3. Credit' = Credit
      BY <2>2, CreditKept
    <2>4. Meter!Free(h)
      BY <1>6, <2>1, <2>3 DEF Meter!Free
    <2>5. QED BY <2>4 DEF Meter!Next
  <1>8. CASE ~Lost(h)
    <2>1. buckets[ip] = b /\ ip \notin doomed /\ h \notin free'
      BY <1>1, <1>5, <1>8 DEF Lost
    <2>2. Credit[ip] = Filled(b) /\ Credit'[ip] = Left(h)
      <3>1. b \in InUse(buckets, held)'
        BY <1>1, <2>1 DEF InUse, RateInv, RateTypeOK
      <3>2. heap'[b].tokens = Left(h) /\ heap'[b].age = 0
        BY <1>2, <3>1
      <3>3. Least(Left(h) + 0, Capacity) = Left(h)
        BY <1>1, CapacityIs, LeastIs
      <3>4. FilledIn(heap', b) = Left(h) /\ FilledIn(heap, b) = Filled(b)
        BY <3>2, <3>3 DEF FilledIn, Filled
      <3>5. QED BY <1>1, <2>1, <3>4, CreditIs, CreditNext
    <2>3. \A x \in Ip : x # ip => Credit'[x] = Credit[x]
      BY <1>3, <1>4
    <2>4. CASE pays
      <3>1. Verdict'[h] = "passed"
        BY <1>5, <2>1, <2>4 DEF Verdict
      <3>2. Credit' = [Credit EXCEPT ![ip] = @ - Cost]
        BY <1>1, <2>2, <2>3, <2>4, CreditIs DEF Left, Credit
      <3>3. Meter!Pass(h)
        BY <1>6, <2>2, <2>4, <3>1, <3>2 DEF Meter!Pass
      <3>4. QED BY <3>3 DEF Meter!Next
    <2>5. CASE ~pays
      <3>1. Verdict'[h] = "refused"
        BY <1>5, <2>1, <2>5 DEF Verdict
      <3>2. \A x \in Ip : Credit'[x] = Credit[x]
        BY <2>2, <2>3, <2>5 DEF Left
      <3>3. Credit' = Credit
        BY <3>2, CreditKept
      <3>4. Credit[ip] < Cost
        BY <1>1, <2>2, <2>5, CreditIs, CapacityIs
      <3>5. Meter!Refuse(h)
        BY <1>6, <3>1, <3>3, <3>4 DEF Meter!Refuse
      <3>6. QED BY <3>5 DEF Meter!Next
    <2>6. QED BY <2>4, <2>5
  <1>9. QED BY <1>7, <1>8

LEMMA EndRefines ==
  ASSUME RateInv, RateInv', NEW h \in Handler, End(h) PROVE [Meter!Next]_Meter!vars
  <1>1. /\ phase[h] \in {"403", "429", "passed"} /\ phase' = [phase EXCEPT ![h] = "idle"]
        /\ free' = free \ {h} /\ UNCHANGED <<from, held, svars, buckets, heap>>
    BY DEF End
  <1>2. Credit' = Credit
    BY <1>1 DEF Credit, Filled, svars
  <1>3. phase'[h] = "idle" /\ h \notin free'
        /\ \A g \in Handler \ {h} : phase'[g] = phase[g] /\ (g \in free' <=> g \in free)
    BY <1>1 DEF RateInv, RateTypeOK
  <1>4. Verdict' = [Verdict EXCEPT ![h] = "none"]
    <2>1. Verdict'[h] = "none"
      BY <1>3 DEF Verdict
    <2>2. QED BY <1>3, <2>1, VerdictStep
  <1>5. Verdict[h] \in {"none", "passed", "refused", "free"}
    BY <1>1, VerdictIs DEF RateInv, RateTypeOK
  <1>6. CASE Verdict[h] = "none"
    <2>1. Verdict' = Verdict
      BY <1>4, <1>6 DEF Verdict
    <2>2. QED BY <1>1, <1>2, <2>1 DEF Meter!vars
  <1>7. CASE Verdict[h] # "none"
    BY <1>1, <1>2, <1>4, <1>5, <1>7 DEF Meter!Next, Meter!End
  <1>8. QED BY <1>6, <1>7

LEMMA EvictorRefines ==
  ASSUME RateInv, RateInv', Evictor \/ Stop \/ UNCHANGED rateVars PROVE UNCHANGED Meter!vars
  <1>1. UNCHANGED <<phase, from, held, free>>
    BY DEF Evictor, SweepBegin, Judge, Evict, SweepEnd, Stop, hvars, rateVars
  <1>2. ASSUME NEW ip \in Ip PROVE Credit'[ip] = Credit[ip]
    <2>1. CASE SweepBegin \/ SweepEnd \/ Stop \/ UNCHANGED rateVars
      <3>1. UNCHANGED <<doomed, buckets, heap>>
        BY <2>1 DEF SweepBegin, SweepEnd, Stop, rateVars, svars
      <3>2. QED BY <3>1 DEF Credit, Filled
    <2>2. CASE Judge
      <3>1. buckets' = buckets /\ heap' = heap /\ doomed = {}
        BY <2>2 DEF Judge
      <3>2. FilledIn(heap', buckets'[ip]) = FilledIn(heap, buckets[ip])
        BY <3>1 DEF FilledIn
      <3>3. CASE ip \in doomed' /\ buckets[ip] # NoBucket
        <4>1. Idle(buckets[ip])
          BY <2>2, <3>3 DEF Judge
        <4>2. Filled(buckets[ip]) = Capacity
          BY <3>3, <4>1, HeapIs, FilledIs DEF RateInv
        <4>3. FilledIn(heap, buckets[ip]) = Capacity
          BY <4>2 DEF FilledIn, Filled
        <4>4. QED BY <3>1, <3>3, <4>3, CreditIs, CreditNext
      <3>4. CASE ~(ip \in doomed' /\ buckets[ip] # NoBucket)
        BY <3>1, <3>2, <3>4, CreditIs, CreditNext
      <3>5. QED BY <3>3, <3>4
    <2>3. CASE Evict
      <3>1. PICK d \in Ip : doomed = {d} /\ buckets' = [buckets EXCEPT ![d] = NoBucket]
        BY <2>3, EvictIs
      <3>2. doomed' = {} /\ heap' = [b \in InUse(buckets, held)' |-> heap[b]]
        BY <2>3, EvictIs
      <3>3. CASE ip = d
        <4>1. buckets'[ip] = NoBucket
          BY <3>1, <3>3 DEF RateInv, RateTypeOK
        <4>2. QED BY <3>1, <3>3, <4>1, CreditIs, CreditNext
      <3>4. CASE ip # d
        <4>1. buckets'[ip] = buckets[ip]
          BY <3>1, <3>4 DEF RateInv, RateTypeOK
        <4>2. buckets[ip] # NoBucket => heap'[buckets[ip]] = heap[buckets[ip]]
          <5>1. buckets[ip] # NoBucket => buckets[ip] \in InUse(buckets, held)'
            BY <4>1 DEF InUse, RateInv, RateTypeOK
          <5>2. QED BY <3>2, <5>1
        <4>3. buckets[ip] # NoBucket => FilledIn(heap', buckets[ip]) = FilledIn(heap, buckets[ip])
          BY <4>2, FilledInKept
        <4>4. ip \notin doomed /\ ip \notin doomed'
          BY <3>1, <3>2, <3>4
        <4>5. QED BY <4>1, <4>3, <4>4, CreditIs, CreditNext
      <3>5. QED BY <3>3, <3>4
    <2>4. QED BY <2>1, <2>2, <2>3 DEF Evictor
  <1>3. Credit' = Credit
    BY <1>2, CreditKept
  <1>4. QED BY <1>1, <1>3, VerdictKept DEF Meter!vars

(* Requests pass and are refused as if each address had one bucket for     *)
(* ever, whenever it is evicted, but for the handlers that still held it   *)
(* (middleware.go:182).                                                    *)
THEOREM LimiterImplementsMeter == RateSpec => KeepsTheRate
  <1>1. RateInit => Meter!Init
    <2> SUFFICES ASSUME RateInit PROVE Meter!Init
      OBVIOUS
    <2>1. Credit = [ip \in Ip |-> Capacity]
      BY DEF RateInit, Credit
    <2>2. Verdict = [h \in Handler |-> "none"]
      BY DEF RateInit, Verdict
    <2>3. QED BY <2>1, <2>2 DEF RateInit, Meter!Init
  <1>2. ASSUME RateInv, RateInv', [RateNext]_rateVars PROVE [Meter!Next]_Meter!vars
    <2>1. CASE Tick
      BY <1>2, <2>1, TickRefines DEF Meter!Next
    <2>2. CASE Evictor \/ Stop \/ UNCHANGED rateVars
      BY <1>2, <2>2, EvictorRefines
    <2>3. ASSUME NEW h \in Handler, Arrive(h) \/ Step(h) PROVE [Meter!Next]_Meter!vars
      BY <1>2, <2>3, ArriveRefines, GetRefines, AllowRefines, EndRefines DEF Step
    <2>4. QED BY <1>2, <2>1, <2>2, <2>3 DEF RateNext
  <1>3. QED BY <1>1, <1>2, RateInductive, PTL DEF RateSpec, KeepsTheRate, Meter!Spec
=============================================================================
