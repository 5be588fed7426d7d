---------------------------- MODULE WatcherProofs ----------------------------
(***************************************************************************)
(* For any files, directories, batch delay, watch cap, queue and number of *)
(* changes, errors and restarts: a quiet watcher has an index that agrees  *)
(* with every file whose last change was noticed and on which neither      *)
(* flush nor the bulk indexer failed, a batch always has its timer, and    *)
(* flush tells the cache of every path it has changed.                     *)
(***************************************************************************)
EXTENDS Watcher, TLAPS

USE PathAssumption, LimitAssumption

Kind == {"create", "write", "remove"}

ScanJob == [state : {"todo", "read", "done"}, content : Content \cup {NoFile},
            overtaken : BOOLEAN]

-----------------------------------------------------------------------------
(* The events that wait for one path.                                      *)

Waits(q, p) == \E i \in 1 .. Len(q) : q[i].name = p

(* The last event for p in the queue is of kind k. *)
Newest(q, p, k) == \E i \in 1 .. Len(q) :
                     /\ q[i].name = p /\ q[i].kind = k
                     /\ \A j \in 1 .. Len(q) : j > i => q[j].name # p

LEMMA NewestAfterAppend ==
  ASSUME NEW q \in Seq(Event), NEW e \in Event, NEW p
  PROVE  /\ Waits(Append(q, e), p) <=> Waits(q, p) \/ e.name = p
         /\ \A k : Newest(Append(q, e), p, k) => IF e.name = p THEN k = e.kind
                                                              ELSE Newest(q, p, k)
  <1> DEFINE r == Append(q, e)
  <1>1. /\ Len(q) \in Nat /\ Len(r) = Len(q) + 1
        /\ r[Len(q) + 1] = e
        /\ \A i \in 1 .. Len(q) : r[i] = q[i]
    OBVIOUS
  <1> HIDE DEF r
  <1>2. Waits(r, p) <=> Waits(q, p) \/ e.name = p
    BY <1>1 DEF Waits
  <1>3. ASSUME NEW k, Newest(r, p, k), e.name = p PROVE k = e.kind
    BY <1>1, <1>3 DEF Newest
  <1>4. ASSUME NEW k, Newest(r, p, k), e.name # p PROVE Newest(q, p, k)
    BY <1>1, <1>4 DEF Newest
  <1>5. QED BY <1>2, <1>3, <1>4 DEF r

LEMMA NewestAfterTail ==
  ASSUME NEW q \in Seq(Event), q # <<>>, NEW p
  PROVE  /\ Waits(Tail(q), p) => Waits(q, p)
         /\ Waits(q, p) => Waits(Tail(q), p) \/ Head(q).name = p
         /\ \A k : Newest(Tail(q), p, k) => Newest(q, p, k)
         /\ Head(q).name = p => Waits(Tail(q), p) \/ Newest(q, p, Head(q).kind)
  <1> DEFINE r == Tail(q)
  <1>1. /\ Len(q) \in Nat /\ Len(q) >= 1 /\ Len(r) = Len(q) - 1
        /\ Head(q) = q[1]
        /\ \A i \in 1 .. Len(r) : r[i] = q[i + 1]
    OBVIOUS
  <1>2. \A i \in 1 .. Len(q) : i = 1 \/ (i - 1 \in 1 .. Len(r) /\ q[i] = r[i - 1])
    BY <1>1
  <1> HIDE DEF r
  <1>3. /\ Waits(r, p) => Waits(q, p)
        /\ Waits(q, p) => Waits(r, p) \/ Head(q).name = p
    BY <1>1, <1>2 DEF Waits
  <1>4. ASSUME NEW k, Newest(r, p, k) PROVE Newest(q, p, k)
    <2>1. PICK i \in 1 .. Len(r) : /\ r[i].name = p /\ r[i].kind = k
                                   /\ \A j \in 1 .. Len(r) : j > i => r[j].name # p
      BY <1>4 DEF Newest
    <2>2. ASSUME NEW j \in 1 .. Len(q), j > i + 1 PROVE q[j].name # p
      <3>1. j - 1 \in 1 .. Len(r) /\ q[j] = r[j - 1] /\ j - 1 > i
        BY <1>1, <1>2, <2>1, <2>2
      <3>2. QED BY <2>1, <3>1
    <2>3. i + 1 \in 1 .. Len(q) /\ q[i + 1] = r[i]
      BY <1>1
    <2>4. QED BY <2>1, <2>2, <2>3 DEF Newest
  <1>5. Head(q).name = p => Waits(r, p) \/ Newest(q, p, Head(q).kind)
    <2> SUFFICES ASSUME Head(q).name = p, ~Waits(r, p) PROVE Newest(q, p, Head(q).kind)
      OBVIOUS
    <2>1. ASSUME NEW j \in 1 .. Len(q), j > 1 PROVE q[j].name # p
      <3>1. j - 1 \in 1 .. Len(r) /\ q[j] = r[j - 1]
        BY <1>1, <1>2, <2>1
      <3>2. QED BY <3>1 DEF Waits
    <2>2. 1 \in 1 .. Len(q)
      BY <1>1
    <2>3. QED BY <1>1, <2>1, <2>2 DEF Newest
  <1>6. QED BY <1>3, <1>4, <1>5 DEF r

-----------------------------------------------------------------------------
(* The strengthening.                                                      *)

(* flush holds a content of p that it is about to write; it is p's. *)
Held(p)      == pc = "upsert" /\ cur.path = p
WillWrite(p) == Held(p) /\ cur.content = fs[p]

(* What makes index[p] agree with fs[p] in the end, for a path whose last  *)
(* change was noticed: the newest event for it, or else the batch, knows   *)
(* whether it exists; what flush and the bulk indexer have read of it is   *)
(* current, or is going to be corrected; and so is the index.              *)
Follows(p) ==
  /\ \A k \in Kind : Newest(queue, p, k) => (k = "remove" <=> fs[p] = NoFile)
  /\ ~Waits(queue, p) /\ pending[p] # NoFile => (pending[p] = "delete" <=> fs[p] = NoFile)
  /\ Held(p) => WillWrite(p) \/ Noticed(p)
  /\ scan[p].state = "read" /\ ~scan[p].overtaken =>
       scan[p].content = fs[p] \/ Noticed(p) \/ WillWrite(p)
  /\ \/ index[p] = fs[p] \/ Noticed(p) \/ WillWrite(p)
     \/ scan[p].state = "read"
     \/ scan[p].state = "todo" /\ fs[p] # NoFile /\ p \notin Excluded

Following == \A p \in Path \ missed : Follows(p)

(* What flush has in hand, by where it is. *)
InHand == /\ stale = IF pc = "invalidate" THEN {cur.path} ELSE {}
          /\ pc \in {"upsert", "invalidate"} => cur.path \in Path
          /\ pc = "start" => pending = Nothing

IndInv == TypeOK /\ InHand /\ BatchIsTimed /\ Following

(* Nothing that concerns p changes, but for an event that is dequeued. *)
LEMMA Undisturbed ==
  ASSUME NEW p \in Path, Follows(p),
         fs'[p] = fs[p], index'[p] = index[p], scan'[p] = scan[p], pending'[p] = pending[p],
         Waits(queue, p)' <=> Waits(queue, p),
         \A k \in Kind : Newest(queue, p, k)' => Newest(queue, p, k),
         Held(p)' <=> Held(p),
         Held(p) => cur' = cur
  PROVE  Follows(p)'
  BY DEF Follows, Held, WillWrite, Noticed, Waits

LEMMA InitInv == Init => IndInv
  <1> SUFFICES ASSUME Init PROVE IndInv
    OBVIOUS
  <1>1. TypeOK
    BY DEF Init, TypeOK, Nothing, NoJob, Unscanned
  <1>2. InHand /\ BatchIsTimed
    BY DEF Init, InHand, BatchIsTimed
  <1>3. ASSUME NEW p \in Path \ missed PROVE Follows(p)
    <2>1. queue = <<>> /\ pending[p] = NoFile /\ pc = "start"
      BY DEF Init, Nothing
    <2>2. ~Waits(queue, p) /\ \A k : ~Newest(queue, p, k)
      BY <2>1 DEF Waits, Newest
    <2>3. scan[p].state = "todo" /\ (index[p] = fs[p] \/ (fs[p] # NoFile /\ p \notin Excluded))
      BY DEF Init, Nothing, Unscanned
    <2>4. QED BY <2>1, <2>2, <2>3 DEF Follows, Held
  <1>4. QED BY <1>1, <1>2, <1>3 DEF IndInv, Following

-----------------------------------------------------------------------------
(* The file system.                                                        *)

LEMMA Notified ==
  ASSUME TypeOK, NEW d, NEW name \in Path \cup Dir, NEW kind \in Kind, Notify(d, name, kind)
  PROVE  /\ queue' \in Seq(Event) /\ Len(queue') <= QueueCap
         /\ \A p : p # name => /\ Waits(queue, p)' <=> Waits(queue, p)
                              /\ \A k : Newest(queue, p, k)' => Newest(queue, p, k)
         /\ Heard(d) => /\ Waits(queue, name)'
                        /\ \A k : Newest(queue, name, k)' => k = kind
         /\ ~Heard(d) => queue' = queue
  <1> DEFINE e == [name |-> name, kind |-> kind]
  <1>1. e \in Event /\ e.name = name /\ e.kind = kind
    BY DEF Event, Kind
  <1>2. queue \in Seq(Event) /\ Len(queue) \in Nat /\ Len(queue) <= QueueCap
    BY DEF TypeOK
  <1>3. CASE Heard(d)
    <2>1. queue' = Append(queue, e)
      BY <1>3 DEF Notify
    <2> HIDE DEF e
    <2>2. queue' \in Seq(Event) /\ Len(queue') <= QueueCap
      BY <1>1, <1>2, <1>3, <2>1 DEF Heard
    <2>3. ASSUME NEW p
          PROVE  /\ Waits(queue', p) <=> Waits(queue, p) \/ name = p
                 /\ \A k : Newest(queue', p, k) => IF name = p THEN k = kind
                                                              ELSE Newest(queue, p, k)
      BY <1>1, <1>2, <2>1, NewestAfterAppend
    <2>4. QED BY <1>3, <2>2, <2>3 DEF Waits, Newest
  <1>4. CASE ~Heard(d)
    <2>1. queue' = queue
      BY <1>4 DEF Notify
    <2>2. QED BY <1>2, <1>4, <2>1 DEF Waits, Newest
  <1>5. QED BY <1>3, <1>4

LEMMA WriteFileInv ==
  ASSUME IndInv, NEW p \in Path, NEW c \in Content, WriteFile(p, c)
  PROVE  IndInv'
  <1> DEFINE kind == IF fs[p] = NoFile THEN "create" ELSE "write"
             d == dirOf[p]
  <1> USE DEF IndInv
  <1>1. kind \in Kind /\ kind # "remove"
    BY DEF Kind
  <1>2. Notify(d, p, kind)
    BY DEF WriteFile
  <1> HIDE DEF kind, d
  <1>3. /\ queue' \in Seq(Event) /\ Len(queue') <= QueueCap
        /\ \A q : q # p => /\ Waits(queue, q)' <=> Waits(queue, q)
                          /\ \A k : Newest(queue, q, k)' => Newest(queue, q, k)
        /\ Heard(d) => /\ Waits(queue, p)'
                       /\ \A k : Newest(queue, p, k)' => k = kind
        /\ ~Heard(d) => queue' = queue
    BY <1>1, <1>2, Notified
  <1>4. TypeOK'
    BY <1>3 DEF WriteFile, Change, TypeOK, run
  <1>5. InHand' /\ BatchIsTimed'
    BY DEF WriteFile, InHand, BatchIsTimed, run
  <1>6. ASSUME NEW q \in Path \ missed' PROVE Follows(q)'
    <2>1. CASE q # p
      <3>1. q \in Path \ missed /\ fs'[q] = fs[q]
        BY <2>1 DEF WriteFile, TypeOK
      <3>2. QED BY <1>3, <2>1, <3>1, Undisturbed DEF WriteFile, run, Held, Following
    <2>2. CASE q = p /\ Heard(d)
      <3>1. fs'[p] = c /\ c # NoFile
        BY DEF WriteFile, TypeOK
      <3>2. Noticed(p)' /\ Waits(queue, p)'
        BY <1>3, <2>2 DEF Noticed, Waits
      <3>3. QED BY <1>1, <1>3, <2>2, <3>1, <3>2 DEF Follows
    <2>3. CASE q = p /\ ~Heard(d)
      <3>1. WillBeScanned(p)
        BY <2>3 DEF WriteFile, d
      <3>2. fs'[p] = c /\ c # NoFile
        BY DEF WriteFile, TypeOK
      <3>3. queue' = queue /\ pending' = pending /\ scan' = scan /\ pc' = pc /\ cur' = cur
        BY <1>3, <2>3 DEF WriteFile, run
      <3>4. pending[p] = NoFile /\ ~Waits(queue, p) /\ \A k : ~Newest(queue, p, k)
        BY <3>1 DEF WillBeScanned, Noticed, Waits, Newest
      <3>5. ~Held(p) /\ scan[p].state = "todo" /\ p \notin Excluded
        BY <3>1 DEF WillBeScanned, Held
      <3>6. QED BY <2>3, <3>2, <3>3, <3>4, <3>5 DEF Follows, Held
    <2>4. QED BY <2>1, <2>2, <2>3
  <1>7. QED BY <1>4, <1>5, <1>6 DEF Following

LEMMA RemoveFileInv ==
  ASSUME IndInv, NEW p \in Path, RemoveFile(p)
  PROVE  IndInv'
  <1> DEFINE d == dirOf[p]
  <1> USE DEF IndInv
  <1>1. Notify(d, p, "remove")
    BY DEF RemoveFile
  <1> HIDE DEF d
  <1>2. /\ queue' \in Seq(Event) /\ Len(queue') <= QueueCap
        /\ \A q : q # p => /\ Waits(queue, q)' <=> Waits(queue, q)
                          /\ \A k : Newest(queue, q, k)' => Newest(queue, q, k)
        /\ Heard(d) => /\ Waits(queue, p)'
                       /\ \A k : Newest(queue, p, k)' => k = "remove"
    BY <1>1, Notified DEF Kind
  <1>3. TypeOK'
    BY <1>2 DEF RemoveFile, Change, TypeOK, run
  <1>4. InHand' /\ BatchIsTimed'
    BY DEF RemoveFile, InHand, BatchIsTimed, run
  <1>5. ASSUME NEW q \in Path \ missed' PROVE Follows(q)'
    <2>1. CASE q # p
      <3>1. q \in Path \ missed /\ fs'[q] = fs[q]
        BY <2>1 DEF RemoveFile, TypeOK
      <3>2. QED BY <1>2, <2>1, <3>1, Undisturbed DEF RemoveFile, run, Held, Following
    <2>2. CASE q = p
      <3>1. fs'[p] = NoFile
        BY DEF RemoveFile, TypeOK
      <3>2. Heard(d)
        BY <2>2 DEF RemoveFile, d
      <3>3. Noticed(p)' /\ Waits(queue, p)'
        BY <1>2, <3>2 DEF Noticed, Waits
      <3>4. QED BY <1>2, <2>2, <3>1, <3>2, <3>3 DEF Follows
    <2>3. QED BY <2>1, <2>2
  <1>6. QED BY <1>3, <1>4, <1>5 DEF Following

LEMMA DirectoryInv ==
  ASSUME IndInv, NEW d \in Dir, MakeDir(d) \/ MoveDirAway(d)
  PROVE  IndInv'
  <1> USE DEF IndInv
  <1>1. PICK kind \in Kind : Notify(Root, d, kind)
    BY DEF MakeDir, MoveDirAway, Kind
  <1>2. /\ queue' \in Seq(Event) /\ Len(queue') <= QueueCap
        /\ \A q : q # d => /\ Waits(queue, q)' <=> Waits(queue, q)
                          /\ \A k : Newest(queue, q, k)' => Newest(queue, q, k)
    BY <1>1, Notified
  <1>3. fs' \in [Path -> Content \cup {NoFile}]
    BY DEF MakeDir, MoveDirAway, TypeOK
  <1>4. TypeOK'
    BY <1>2, <1>3 DEF MakeDir, MoveDirAway, Change, TypeOK, run
  <1>5. InHand' /\ BatchIsTimed'
    BY DEF MakeDir, MoveDirAway, InHand, BatchIsTimed, run
  <1>6. ASSUME NEW q \in Path \ missed' PROVE Follows(q)'
    <2>1. q # d
      OBVIOUS
    <2>2. q \in Path \ missed /\ fs'[q] = fs[q]
      BY DEF MakeDir, MoveDirAway, TypeOK
    <2>3. UNCHANGED <<index, scan, pending, pc, cur>>
      BY DEF MakeDir, MoveDirAway, run
    <2>4. QED BY <1>2, <2>1, <2>2, <2>3, Undisturbed DEF Held, Following
  <1>7. QED BY <1>4, <1>5, <1>6 DEF Following

-----------------------------------------------------------------------------
(* The select loop.                                                        *)

(* Steps that change neither a file nor what is known of one. *)
LEMMA CalmInv ==
  ASSUME IndInv,
         AddDirs \/ AddDirsFails \/ Tick \/ TimerFires \/ FlushInvalidate \/ FlushReturns
  PROVE  IndInv'
  <1> USE DEF IndInv, AddDirs, AddDirsFails, Tick, TimerFires, FlushInvalidate, FlushReturns
  <1>1. UNCHANGED <<fs, index, scan, pending, queue, missed>>
    BY DEF disk, bounds
  <1>2. pc # "upsert" => pc' # "upsert"
    OBVIOUS
  <1>3. pc = "upsert" => pc' = "upsert" /\ cur' = cur
    OBVIOUS
  <1>4. TypeOK'
    BY <1>1 DEF TypeOK, disk, bounds, NoJob
  <1>5. InHand'
    BY DEF InHand, disk, bounds, TypeOK
  <1>6. BatchIsTimed'
    BY DEF InHand, BatchIsTimed, TypeOK, Nothing
  <1>7. Following'
    BY <1>1, <1>2, <1>3, Undisturbed DEF Following, Held, Waits, Newest
  <1>8. QED BY <1>4, <1>5, <1>6, <1>7

LEMMA DirEventInv ==
  ASSUME IndInv, DirEvent
  PROVE  IndInv'
  <1> USE DEF IndInv, DirEvent
  <1>1. queue \in Seq(Event) /\ queue # <<>> /\ queue' = Tail(queue)
    BY DEF TypeOK
  <1>2. queue' \in Seq(Event) /\ Len(queue') <= QueueCap
    BY <1>1 DEF TypeOK
  <1>3. UNCHANGED <<disk, run, index, scan, stale, missed, bounds>>
    OBVIOUS
  <1>4. TypeOK'
    BY <1>2 DEF TypeOK, disk, bounds, run
  <1>5. InHand' /\ BatchIsTimed'
    BY <1>3 DEF InHand, BatchIsTimed, run
  <1>6. ASSUME NEW p \in Path \ missed' PROVE Follows(p)'
    <2>1. p \in Path \ missed /\ p # Head(queue).name
      OBVIOUS
    <2>2. /\ Waits(queue, p)' <=> Waits(queue, p)
          /\ \A k : Newest(queue, p, k)' => Newest(queue, p, k)
      BY <1>1, <2>1, NewestAfterTail
    <2>3. QED BY <1>3, <2>1, <2>2, Undisturbed DEF disk, run, Held, Following
  <1>7. QED BY <1>4, <1>5, <1>6 DEF Following

LEMMA FileEventInv ==
  ASSUME IndInv, FileEvent
  PROVE  IndInv'
  <1> DEFINE e == Head(queue)
  <1> USE DEF IndInv
  <1>1. queue \in Seq(Event) /\ queue # <<>> /\ queue' = Tail(queue)
    BY DEF TypeOK, FileEvent
  <1>2. queue' \in Seq(Event) /\ Len(queue') <= QueueCap /\ e \in Event
    BY <1>1 DEF TypeOK
  <1>3. e.name \in Path /\ e.kind \in Kind
    BY <1>2 DEF Event, Kind, FileEvent
  <1>4. UNCHANGED <<fs, dirs, watched, pc, cur, index, scan, stale, missed, bounds>>
    BY DEF FileEvent, disk
  <1>5. pending' = [pending EXCEPT ![e.name] = IF e.kind = "remove" THEN "delete" ELSE "index"]
    BY DEF FileEvent
  <1>6. TypeOK'
    <2>1. timer' = Delay
      BY DEF FileEvent
    <2>2. pending' \in [Path -> {"delete", "index", NoFile}]
      BY <1>5 DEF TypeOK
    <2>3. QED BY <1>2, <1>4, <2>1, <2>2 DEF TypeOK, bounds
  <1>7. InHand' /\ BatchIsTimed'
    BY <1>4 DEF FileEvent, InHand, BatchIsTimed
  <1> HIDE DEF e
  <1>8. ASSUME NEW p \in Path \ missed' PROVE Follows(p)'
    <2>1. Follows(p)
      BY <1>4 DEF Following
    <2>2. /\ Waits(queue, p) => Waits(queue, p)' \/ e.name = p
          /\ Waits(queue, p)' => Waits(queue, p)
          /\ \A k : Newest(queue, p, k)' => Newest(queue, p, k)
          /\ e.name = p => Waits(queue, p)' \/ Newest(queue, p, e.kind)
      BY <1>1, NewestAfterTail DEF e
    <2>3. CASE p # e.name
      <3>1. pending'[p] = pending[p]
        BY <1>3, <1>5, <2>3 DEF TypeOK
      <3>2. QED BY <1>4, <2>1, <2>2, <2>3, <3>1, Undisturbed DEF Held
    <2>4. CASE p = e.name
      <3>1. pending'[p] = IF e.kind = "remove" THEN "delete" ELSE "index"
        BY <1>3, <1>5, <2>4 DEF TypeOK
      <3>2. Noticed(p)'
        BY <3>1 DEF Noticed
      <3>3. ~Waits(queue, p)' => (e.kind = "remove" <=> fs[p] = NoFile)
        BY <1>3, <2>1, <2>2, <2>4 DEF Follows
      <3>4. \A k \in Kind : Newest(queue, p, k)' => (k = "remove" <=> fs[p] = NoFile)
        BY <2>1, <2>2 DEF Follows
      <3>5. ~Waits(queue, p)' => (pending'[p] = "delete" <=> fs[p] = NoFile)
        BY <3>1, <3>3
      <3>6. QED BY <1>4, <3>2, <3>4, <3>5 DEF Follows
    <2>5. QED BY <2>3, <2>4
  <1>9. QED BY <1>6, <1>7, <1>8 DEF Following

-----------------------------------------------------------------------------
(* flush.                                                                  *)

(* Nothing changes for the paths flush is not concerned with.              *)
LEMMA Elsewhere ==
  ASSUME TypeOK, Following, NEW p \in Path,
         UNCHANGED <<fs, queue>>, missed \subseteq missed',
         \A q \in Path \ {p} : /\ index'[q] = index[q]
                               /\ scan'[q] = scan[q]
                               /\ pending'[q] = pending[q]
                               /\ ~Held(q) /\ ~Held(q)'
  PROVE  \A q \in Path \ missed' : q # p => Follows(q)'
  <1> SUFFICES ASSUME NEW q \in Path \ missed', q # p PROVE Follows(q)'
    OBVIOUS
  <1>1. q \in Path \ missed /\ Follows(q)
    BY DEF Following
  <1>2. QED BY <1>1, Undisturbed DEF Waits, Newest

LEMMA OvertakeType ==
  ASSUME TypeOK, NEW p \in Path, Overtake(p)
  PROVE  /\ scan' \in [Path -> ScanJob]
         /\ \A q \in Path \ {p} : scan'[q] = scan[q]
         /\ scan'[p].state = scan[p].state
         /\ scan'[p].state = "read" => scan'[p].overtaken
  <1> DEFINE known == scan[p].overtaken \/ scan[p].state = "read"
  <1>1. known \in BOOLEAN /\ (scan[p].state = "read" => known = TRUE)
    OBVIOUS
  <1>2. scan' = [scan EXCEPT ![p].overtaken = known]
    BY DEF Overtake
  <1> DEFINE job == [scan[p] EXCEPT !.overtaken = known]
  <1>3. scan' = [scan EXCEPT ![p] = job]
    BY <1>2
  <1>4. scan[p] \in ScanJob
    BY DEF TypeOK, ScanJob
  <1> HIDE DEF known
  <1>5. job \in ScanJob
    BY <1>1, <1>4 DEF ScanJob
  <1>6. job.state = scan[p].state /\ job.overtaken = known
    BY <1>4 DEF ScanJob
  <1> HIDE DEF job
  <1>7. QED BY <1>1, <1>3, <1>5, <1>6 DEF TypeOK, ScanJob

LEMMA FlushDeleteInv ==
  ASSUME IndInv, NEW p \in Path, FlushDelete(p)
  PROVE  IndInv'
  <1> USE DEF IndInv, FlushDelete
  <1>1. UNCHANGED <<fs, queue, missed>> /\ pc = "flush" /\ pc' = "invalidate"
    BY DEF disk
  <1>2. pending' = [pending EXCEPT ![p] = NoFile] /\ index' = [index EXCEPT ![p] = NoFile]
    OBVIOUS
  <1>3. TypeOK'
    BY <1>2, OvertakeType DEF TypeOK, ScanJob, disk, bounds
  <1>4. InHand' /\ BatchIsTimed'
    BY DEF InHand, BatchIsTimed, TypeOK
  <1>5. \A q \in Path \ missed' : q # p => Follows(q)'
    <2>1. \A q \in Path \ {p} : pending'[q] = pending[q] /\ index'[q] = index[q]
      BY <1>2 DEF TypeOK
    <2>2. \A q \in Path \ {p} : scan'[q] = scan[q]
      BY OvertakeType
    <2>3. \A q \in Path \ {p} : ~Held(q) /\ ~Held(q)'
      BY <1>1 DEF Held
    <2>4. QED BY <1>1, <2>1, <2>2, <2>3, Elsewhere
  <1>6. p \notin missed' => Follows(p)'
    <2> SUFFICES ASSUME p \notin missed' PROVE Follows(p)'
      OBVIOUS
    <2>1. Follows(p)
      BY <1>1 DEF Following
    <2>2. pending[p] = "delete" /\ pending'[p] = NoFile /\ index'[p] = NoFile
      BY <1>2 DEF Deletes, TypeOK
    <2>3. Waits(queue, p) \/ fs[p] = NoFile
      BY <2>1, <2>2 DEF Follows
    <2>4. index'[p] = fs'[p] \/ Noticed(p)'
      BY <1>1, <2>2, <2>3 DEF Waits, Noticed
    <2>5. scan'[p].state = "read" => scan'[p].overtaken
      BY OvertakeType
    <2>6. \A k \in Kind : Newest(queue, p, k)' => (k = "remove" <=> fs'[p] = NoFile)
      BY <1>1, <2>1 DEF Follows, Newest
    <2>7. QED BY <1>1, <2>2, <2>4, <2>5, <2>6 DEF Follows, Held
  <1>7. QED BY <1>3, <1>4, <1>5, <1>6 DEF Following

LEMMA FlushReadInv ==
  ASSUME IndInv, NEW p \in Path, FlushRead(p)
  PROVE  IndInv'
  <1> USE DEF IndInv, FlushRead
  <1>1. UNCHANGED <<fs, queue, missed, index, scan>> /\ pc = "flush" /\ pc' = "upsert"
    BY DEF disk
  <1>2. pending' = [pending EXCEPT ![p] = NoFile] /\ cur' = [path |-> p, content |-> fs[p]]
    OBVIOUS
  <1>3. TypeOK'
    BY <1>2 DEF TypeOK, disk, bounds
  <1>4. InHand' /\ BatchIsTimed'
    BY DEF InHand, BatchIsTimed, TypeOK
  <1>5. \A q \in Path \ missed' : q # p => Follows(q)'
    <2>1. \A q \in Path \ {p} : pending'[q] = pending[q]
      BY <1>2 DEF TypeOK
    <2>2. \A q \in Path \ {p} : ~Held(q) /\ ~Held(q)'
      BY <1>1, <1>2 DEF Held
    <2>3. QED BY <1>1, <2>1, <2>2, Elsewhere
  <1>6. p \notin missed' => Follows(p)'
    <2> SUFFICES ASSUME p \notin missed' PROVE Follows(p)'
      OBVIOUS
    <2>1. Follows(p)
      BY <1>1 DEF Following
    <2>2. WillWrite(p)' /\ pending'[p] = NoFile
      BY <1>1, <1>2 DEF WillWrite, Held, TypeOK
    <2>3. \A k \in Kind : Newest(queue, p, k)' => (k = "remove" <=> fs'[p] = NoFile)
      BY <1>1, <2>1 DEF Follows, Newest
    <2>4. QED BY <2>2, <2>3 DEF Follows
  <1>7. QED BY <1>3, <1>4, <1>5, <1>6 DEF Following

LEMMA FlushUpsertInv ==
  ASSUME IndInv, FlushUpsert
  PROVE  IndInv'
  <1> DEFINE p == cur.path
  <1> USE DEF IndInv, FlushUpsert
  <1>1. UNCHANGED <<fs, queue, missed, pending, cur>> /\ pc = "upsert" /\ pc' = "invalidate"
    BY DEF disk
  <1>2. p \in Path
    BY <1>1 DEF InHand
  <1>3. index' = [index EXCEPT ![p] = cur.content] /\ Overtake(p)
    OBVIOUS
  <1>4. TypeOK'
    BY <1>2, <1>3, OvertakeType DEF TypeOK, ScanJob, disk, bounds
  <1>5. InHand' /\ BatchIsTimed'
    BY <1>2 DEF InHand, BatchIsTimed, TypeOK
  <1>6. \A q \in Path \ missed' : q # p => Follows(q)'
    <2>1. \A q \in Path \ {p} : index'[q] = index[q]
      BY <1>3 DEF TypeOK
    <2>2. \A q \in Path \ {p} : scan'[q] = scan[q]
      BY <1>2, <1>3, OvertakeType
    <2>3. \A q \in Path \ {p} : ~Held(q) /\ ~Held(q)'
      BY <1>1 DEF Held
    <2>4. QED BY <1>1, <1>2, <2>1, <2>2, <2>3, Elsewhere
  <1>7. p \notin missed' => Follows(p)'
    <2> SUFFICES ASSUME p \notin missed' PROVE Follows(p)'
      OBVIOUS
    <2>1. Follows(p)
      BY <1>1, <1>2 DEF Following
    <2>2. index'[p] = cur.content
      BY <1>2, <1>3 DEF TypeOK
    <2>3. index'[p] = fs'[p] \/ Noticed(p)'
      BY <1>1, <2>1, <2>2 DEF Follows, Held, WillWrite, Noticed
    <2>4. scan'[p].state = "read" => scan'[p].overtaken
      BY <1>2, <1>3, OvertakeType
    <2>5. /\ \A k \in Kind : Newest(queue, p, k)' => (k = "remove" <=> fs'[p] = NoFile)
          /\ ~Waits(queue, p)' /\ pending'[p] # NoFile =>
                (pending'[p] = "delete" <=> fs'[p] = NoFile)
      BY <1>1, <2>1 DEF Follows, Newest, Waits
    <2> HIDE DEF FlushUpsert
    <2>6. QED BY <1>1, <2>3, <2>4, <2>5 DEF Follows, Held
  <1>8. QED BY <1>4, <1>5, <1>6, <1>7 DEF Following

(* A path leaves the batch, or flush's hands, and is not indexed: it is    *)
(* missed unless an event for it waits.                                    *)
LEMMA DroppedInv ==
  ASSUME IndInv, NEW p \in Path, Dropped(p),
         \/ pc = "flush" /\ pending' = [pending EXCEPT ![p] = NoFile]
         \/ pc = "upsert" /\ cur.path = p /\ pending' = pending
  PROVE  IndInv'
  <1> USE DEF IndInv, Dropped
  <1>1. /\ UNCHANGED <<fs, queue, index, scan>> /\ pc' = "flush" /\ cur' = NoJob
        /\ missed' = IF Waits(queue, p) THEN missed ELSE missed \cup {p}
    BY DEF disk, Waits
  <1>2. pending' \in [Path -> {"delete", "index", NoFile}]
    BY DEF TypeOK
  <1>3. TypeOK'
    BY <1>1, <1>2 DEF TypeOK, disk, NoJob
  <1>4. InHand' /\ BatchIsTimed'
    BY DEF InHand, BatchIsTimed, TypeOK
  <1>5. \A q \in Path \ missed' : q # p => Follows(q)'
    <2>1. \A q \in Path \ {p} : pending'[q] = pending[q]
      BY DEF TypeOK
    <2>2. \A q \in Path \ {p} : ~Held(q) /\ ~Held(q)'
      BY <1>1 DEF Held
    <2>3. missed \subseteq missed'
      BY <1>1
    <2>4. QED BY <1>1, <2>1, <2>2, <2>3, Elsewhere
  <1>6. p \notin missed' => Follows(p)'
    <2> SUFFICES ASSUME p \notin missed' PROVE Follows(p)'
      OBVIOUS
    <2>1. Waits(queue, p) /\ Follows(p)
      BY <1>1 DEF Following
    <2>2. Waits(queue, p)' /\ Noticed(p)'
      BY <1>1, <2>1 DEF Noticed, Waits
    <2>3. \A k \in Kind : Newest(queue, p, k)' => (k = "remove" <=> fs'[p] = NoFile)
      BY <1>1, <2>1 DEF Follows, Newest
    <2>4. QED BY <2>2, <2>3 DEF Follows
  <1>7. QED BY <1>3, <1>4, <1>5, <1>6 DEF Following

(* The file is gone: its removal has been noticed, or it is in missed. *)
LEMMA FlushGoneInv ==
  ASSUME IndInv, NEW p \in Path, FlushGone(p)
  PROVE  IndInv'
  <1> USE DEF IndInv, FlushGone
  <1>1. UNCHANGED <<fs, queue, missed, index, scan, pc, cur>> /\ pc = "flush"
    BY DEF disk
  <1>2. pending' = [pending EXCEPT ![p] = NoFile]
    OBVIOUS
  <1>3. TypeOK'
    BY <1>2 DEF TypeOK, disk, bounds
  <1>4. InHand' /\ BatchIsTimed'
    BY DEF InHand, BatchIsTimed
  <1>5. \A q \in Path \ missed' : q # p => Follows(q)'
    <2>1. \A q \in Path \ {p} : pending'[q] = pending[q]
      BY <1>2 DEF TypeOK
    <2>2. \A q \in Path \ {p} : ~Held(q) /\ ~Held(q)'
      BY <1>1 DEF Held
    <2>3. QED BY <1>1, <2>1, <2>2, Elsewhere
  <1>6. p \notin missed' => Follows(p)'
    <2> SUFFICES ASSUME p \notin missed' PROVE Follows(p)'
      OBVIOUS
    <2>1. Follows(p)
      BY <1>1 DEF Following
    <2>2. pending[p] = "index" /\ fs[p] = NoFile
      BY DEF Indexes
    <2>3. Waits(queue, p)
      BY <2>1, <2>2 DEF Follows
    <2>4. Waits(queue, p)' /\ Noticed(p)'
      BY <1>1, <2>3 DEF Waits, Noticed
    <2>5. \A k \in Kind : Newest(queue, p, k)' => (k = "remove" <=> fs'[p] = NoFile)
      BY <1>1, <2>1 DEF Follows, Newest
    <2>6. QED BY <2>4, <2>5 DEF Follows
  <1>7. QED BY <1>3, <1>4, <1>5, <1>6 DEF Following

-----------------------------------------------------------------------------
(* The bulk indexer, and a restart.                                        *)

LEMMA ScanInv ==
  ASSUME IndInv, NEW p \in Path, ScanRead(p) \/ ScanSkip(p)
  PROVE  IndInv'
  <1> USE DEF IndInv
  <1>1. /\ UNCHANGED <<fs, queue, missed, index, pc, cur, pending>>
        /\ scan[p].state = "todo"
    BY DEF ScanRead, ScanSkip, disk, run
  <1>2. PICK job \in ScanJob :
          /\ scan' = [scan EXCEPT ![p] = job]
          /\ \/ job.state = "read" /\ job.content = fs[p]
             \/ job.state = "done" /\ (fs[p] = NoFile \/ p \in Excluded)
    <2>1. CASE ScanRead(p)
      <3> DEFINE job == [scan[p] EXCEPT !.state = "read", !.content = fs[p]]
      <3>1. scan[p] \in ScanJob /\ fs[p] \in Content \cup {NoFile}
        BY DEF TypeOK, ScanJob
      <3>2. job \in ScanJob /\ job.state = "read" /\ job.content = fs[p]
        BY <3>1 DEF ScanJob
      <3>3. scan' = [scan EXCEPT ![p] = job]
        BY <2>1 DEF ScanRead
      <3>4. QED BY <3>2, <3>3
    <2>2. CASE ScanSkip(p)
      <3>1. Scanned \in ScanJob /\ Scanned.state = "done"
        BY DEF Scanned, ScanJob
      <3>2. QED BY <2>2, <3>1 DEF ScanSkip
    <2>3. QED BY <2>1, <2>2
  <1>3. /\ scan' \in [Path -> ScanJob] /\ scan'[p] = job
        /\ \A q \in Path \ {p} : scan'[q] = scan[q]
    BY <1>2 DEF TypeOK, ScanJob
  <1>4. TypeOK'
    BY <1>3 DEF ScanRead, ScanSkip, TypeOK, ScanJob, disk, run, bounds
  <1>5. InHand' /\ BatchIsTimed'
    BY DEF ScanRead, ScanSkip, InHand, BatchIsTimed, run
  <1>6. ASSUME NEW q \in Path \ missed', q # p PROVE Follows(q)'
    BY <1>1, <1>3, <1>6, Undisturbed DEF Following, Held, Waits, Newest
  <1>7. p \notin missed' => Follows(p)'
    <2> SUFFICES ASSUME p \notin missed' PROVE Follows(p)'
      OBVIOUS
    <2>1. Follows(p)
      BY <1>1 DEF Following
    <2>2. QED BY <1>1, <1>2, <1>3, <2>1 DEF Follows, Held, WillWrite, Noticed, Waits, Newest
  <1>8. QED BY <1>4, <1>5, <1>6, <1>7 DEF Following

LEMMA ScanUpsertInv ==
  ASSUME IndInv, NEW p \in Path, ScanUpsert(p)
  PROVE  IndInv'
  <1> USE DEF IndInv, ScanUpsert
  <1>1. /\ UNCHANGED <<fs, queue, pc, cur, pending, stale>>
        /\ scan[p].state = "read"
        /\ missed' = IF scan[p].overtaken /\ ~Noticed(p) THEN missed \cup {p} ELSE missed
    BY DEF disk, run
  <1>2. /\ scan' = [scan EXCEPT ![p] = Scanned]
        /\ index' = [index EXCEPT ![p] = scan[p].content]
    OBVIOUS
  <1>3. TypeOK'
    <2>1. scan[p].content \in Content \cup {NoFile}
      BY DEF TypeOK
    <2>2. missed' \subseteq Path
      BY <1>1 DEF TypeOK
    <2>3. QED BY <1>1, <1>2, <2>1, <2>2 DEF TypeOK, disk, run, bounds, Scanned
  <1>4. InHand' /\ BatchIsTimed'
    BY <1>1 DEF InHand, BatchIsTimed, run
  <1>5. ASSUME NEW q \in Path \ missed', q # p PROVE Follows(q)'
    <2>1. q \in Path \ missed /\ scan'[q] = scan[q] /\ index'[q] = index[q]
      BY <1>1, <1>2, <1>5 DEF TypeOK
    <2>2. QED BY <1>1, <2>1, Undisturbed DEF Following, Held, Waits, Newest
  <1>6. p \notin missed' => Follows(p)'
    <2> SUFFICES ASSUME p \notin missed' PROVE Follows(p)'
      OBVIOUS
    <2>1. Follows(p) /\ (~scan[p].overtaken \/ Noticed(p))
      BY <1>1 DEF Following
    <2>2. index'[p] = scan[p].content /\ scan'[p].state = "done"
      BY <1>2 DEF TypeOK, Scanned
    <2>3. index'[p] = fs[p] \/ Noticed(p) \/ WillWrite(p)
      BY <1>1, <2>1, <2>2 DEF Follows
    <2> HIDE DEF ScanUpsert
    <2>4. QED BY <1>1, <2>1, <2>2, <2>3 DEF Follows, Held, WillWrite, Noticed, Waits, Newest
  <1>7. QED BY <1>3, <1>4, <1>5, <1>6 DEF Following

(* The bulk indexer gives p up: what it would have corrected is missed. *)
LEMMA ScanFailsInv ==
  ASSUME IndInv, NEW p \in Path, ScanFails(p)
  PROVE  IndInv'
  <1> USE DEF IndInv, ScanFails
  <1>1. /\ UNCHANGED <<fs, queue, pc, cur, pending, index, stale>>
        /\ missed' = IF index[p] = fs[p] \/ Noticed(p) \/ Held(p)
                     THEN missed ELSE missed \cup {p}
    BY DEF disk, run, Held
  <1>2. scan' = [scan EXCEPT ![p] = Scanned]
    OBVIOUS
  <1>3. TypeOK'
    <2>1. missed' \subseteq Path
      BY <1>1 DEF TypeOK
    <2>2. QED BY <1>1, <1>2, <2>1 DEF TypeOK, disk, run, bounds, Scanned
  <1>4. InHand' /\ BatchIsTimed'
    BY <1>1 DEF InHand, BatchIsTimed, run
  <1>5. ASSUME NEW q \in Path \ missed', q # p PROVE Follows(q)'
    <2>1. q \in Path \ missed /\ scan'[q] = scan[q]
      BY <1>1, <1>2, <1>5 DEF TypeOK
    <2>2. QED BY <1>1, <2>1, Undisturbed DEF Following, Held, Waits, Newest
  <1>6. p \notin missed' => Follows(p)'
    <2> SUFFICES ASSUME p \notin missed' PROVE Follows(p)'
      OBVIOUS
    <2>1. Follows(p) /\ (index[p] = fs[p] \/ Noticed(p) \/ Held(p))
      BY <1>1 DEF Following
    <2>2. index[p] = fs[p] \/ Noticed(p) \/ WillWrite(p)
      BY <2>1 DEF Follows
    <2>3. scan'[p].state = "done"
      BY <1>2 DEF TypeOK, Scanned
    <2> HIDE DEF ScanFails
    <2>4. QED BY <1>1, <2>1, <2>2, <2>3 DEF Follows, Held, WillWrite, Noticed, Waits, Newest
  <1>7. QED BY <1>3, <1>4, <1>5, <1>6 DEF Following

LEMMA RestartInv ==
  ASSUME IndInv, Restart
  PROVE  IndInv'
  <1> USE DEF IndInv, Restart
  <1>1. TypeOK'
    <2>1. scan' \in [Path -> ScanJob]
      BY DEF Unscanned, ScanJob
    <2>2. queue' \in Seq(Event) /\ Len(queue') <= QueueCap
      OBVIOUS
    <2>3. QED BY <2>1, <2>2 DEF TypeOK, ScanJob, Nothing, NoJob, disk
  <1>2. InHand' /\ BatchIsTimed'
    BY DEF InHand, BatchIsTimed
  <1>3. ASSUME NEW p \in Path \ missed' PROVE Follows(p)'
    <2>1. queue' = <<>> /\ pending'[p] = NoFile /\ pc' = "start"
      BY DEF Nothing
    <2>2. ~Waits(queue, p)' /\ \A k : ~Newest(queue, p, k)'
      BY <2>1 DEF Waits, Newest
    <2>3. scan'[p].state = "todo" /\ (index'[p] = fs'[p] \/ (fs'[p] # NoFile /\ p \notin Excluded))
      BY DEF Unscanned, disk
    <2>4. QED BY <2>1, <2>2, <2>3 DEF Follows, Held
  <1>4. QED BY <1>1, <1>2, <1>3 DEF Following

-----------------------------------------------------------------------------
LEMMA NextInv == IndInv /\ [Next]_vars => IndInv'
  <1> SUFFICES ASSUME IndInv, [Next]_vars PROVE IndInv'
    OBVIOUS
  <1>1. CASE User
    BY <1>1, WriteFileInv, RemoveFileInv, DirectoryInv DEF User
  <1>2. CASE Watching
    <2>1. CASE Flushing
      <3>1. CASE UpsertFails
        <4>1. cur.path \in Path
          BY <3>1 DEF UpsertFails, IndInv, InHand
        <4>2. QED BY <3>1, <4>1, DroppedInv DEF UpsertFails
      <3>2. ASSUME NEW p \in Path, FlushFails(p) PROVE IndInv'
        BY <3>2, DroppedInv DEF FlushFails
      <3>3. QED BY <2>1, <3>1, <3>2, CalmInv, FlushDeleteInv, FlushReadInv, FlushUpsertInv,
                   FlushGoneInv DEF Flushing
    <2>2. QED BY <1>2, <2>1, CalmInv, DirEventInv, FileEventInv DEF Watching
  <1>3. CASE Tick \/ Restart
    BY <1>3, CalmInv, RestartInv
  <1>4. ASSUME NEW p \in Path, Scanning(p) PROVE IndInv'
    BY <1>4, ScanInv, ScanUpsertInv, ScanFailsInv DEF Scanning
  <1>5. CASE UNCHANGED vars
    <2>1. TypeOK' /\ InHand' /\ BatchIsTimed'
      BY <1>5 DEF vars, IndInv, TypeOK, InHand, BatchIsTimed
    <2>2. Following'
      BY <1>5 DEF vars, IndInv, Following, Follows, Noticed, Held, WillWrite, Waits, Newest
    <2>3. QED BY <2>1, <2>2 DEF IndInv
  <1>6. QED BY <1>1, <1>2, <1>3, <1>4, <1>5 DEF Next

LEMMA Inductive == Spec => []IndInv
  BY InitInv, NextInv, PTL DEF Spec

-----------------------------------------------------------------------------
(* Every variable of the watcher keeps its type; the kernel's queue its    *)
(* limit.                                                                  *)
THEOREM TypeCorrect == Spec => []TypeOK
  <1>1. IndInv => TypeOK
    BY DEF IndInv
  <1>2. QED BY Inductive, <1>1, PTL

(* watcher.Run never waits for events with a batch and no timer. *)
THEOREM BatchesAreTimed == Spec => []BatchIsTimed
  <1>1. IndInv => BatchIsTimed
    BY DEF IndInv
  <1>2. QED BY Inductive, <1>1, PTL

(* flush has told the cache of every path it has changed before it goes on *)
(* to the next, whatever fails.                                            *)
THEOREM CacheIsTold == Spec => []FlushTellsCache
  <1>1. IndInv => FlushTellsCache
    BY DEF IndInv, InHand, FlushTellsCache
  <1>2. QED BY Inductive, <1>1, PTL

(* A quiet watcher means an index that says of every file what the file    *)
(* system says, unless its last change went unnoticed or the one attempt   *)
(* on it failed, in flush or in the bulk indexer: the event decides which  *)
(* batch holds the path, and what flush or the bulk indexer has read of it *)
(* is current or will be overwritten.                                      *)
THEOREM IndexSettles == Spec => []Settled
  <1>1. IndInv => Settled
    <2> SUFFICES ASSUME IndInv, Quiet, NEW p \in Path \ missed PROVE index[p] = fs[p]
      BY DEF Settled
    <2>1. Follows(p) /\ pending[p] = NoFile /\ ~Waits(queue, p)
      BY DEF IndInv, Following, Quiet, Nothing, Waits
    <2>2. ~Noticed(p) /\ ~WillWrite(p) /\ scan[p].state = "done"
      BY <2>1 DEF Quiet, Noticed, Waits, WillWrite, Held
    <2>3. QED BY <2>1, <2>2 DEF Follows
  <1>2. QED BY Inductive, <1>1, PTL
=============================================================================
