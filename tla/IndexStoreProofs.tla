-------------------------- MODULE IndexStoreProofs --------------------------
(***************************************************************************)
(* For every set of paths, contents and callers: the tables on disk agree, *)
(* whatever statement fails or is the last one before a crash.             *)
(***************************************************************************)
EXTENDS IndexStore, TLAPS, FiniteSetTheorems

USE DataAssumption, SentinelAssumption, HashIsInjective, NoRequestAssumption

LEMMA HitsAreFinite ==
  ASSUME NEW q, NEW s
  PROVE  IsFiniteSet(Hits(q, s)) /\ Cardinality(Hits(q, s)) \in Nat
  <1>1. IsFiniteSet(Rowid)
    BY FS_Interval DEF Rowid
  <1>2. Hits(q, s) \subseteq Rowid
    BY DEF Hits
  <1>3. QED BY <1>1, <1>2, FS_Subset, FS_CardinalityType

(* What the kind of a request tells about its fields. *)
LEMMA RequestFields ==
  ASSUME NEW r \in Request
  PROVE  /\ r.op = "upsert" => r.path \in Path /\ r.content \in Content /\ r.mtime \in Mtime
         /\ r.op = "delete" => r.path \in Path
         /\ r.op \in {"upsert", "delete", "search"}
  BY DEF Request

LEMMA InitInv == Init => IndInv
  BY DEF Init, IndInv, TypeOK, Store, NoDocs, NoFiles, Silent, Running, Answer, Stage,
         OneOwner, Isolation, CommittedConsistent, Consistent, Progress, Busy, InTx

(* While one caller is inside the store, the others are outside. *)
LEMMA OthersOutside ==
  ASSUME TypeOK, OneOwner, NEW c \in Caller, pc[c] \in Busy,
         NEW d \in Caller, d # c
  PROVE  pc[d] \in {"idle", "begin"}
  BY DEF TypeOK, OneOwner

-----------------------------------------------------------------------------
(* One lemma per action of a caller.                                       *)

LEMMA CallInv == ASSUME IndInv, NEW c \in Caller, Call(c) PROVE IndInv'
  <1> USE DEF Call, IndInv, tables, locals
  <1>1. TypeOK'
    BY DEF TypeOK, Running, Answer
  <1>2. Stage'
    BY DEF TypeOK, Stage, Running, Answer, InTx, Busy
  <1>3. OneOwner' /\ Isolation' /\ CommittedConsistent'
    BY DEF TypeOK, OneOwner, Busy, InTx, Isolation, CommittedConsistent, Consistent, Linked
  <1>4. Progress'
    <2>1. \A d \in Caller : pc'[d] # "begin" => pc'[d] = pc[d] /\ req'[d] = req[d]
      BY DEF TypeOK
    <2>2. QED
      BY <2>1 DEF TypeOK, Progress, Working, Untouched, ConsistentBut, Linked, Differs, Done,
                  Consistent
  <1>5. QED BY <1>1, <1>2, <1>3, <1>4

LEMMA BeginInv == ASSUME IndInv, NEW c \in Caller, Begin(c) PROVE IndInv'
  <1> USE DEF Begin, IndInv, tables, locals
  <1>1. TypeOK'
    BY DEF TypeOK, Busy, InTx
  <1>2. Stage'
    BY RequestFields DEF TypeOK, Stage, InTx
  <1>3. OneOwner' /\ Isolation' /\ CommittedConsistent'
    BY DEF TypeOK, OneOwner, Busy, InTx, Isolation, CommittedConsistent, Consistent, Linked
  <1>4. Progress'
    BY DEF TypeOK, Progress, Working, Isolation, OneOwner, Busy, InTx, Store
  <1>5. QED BY <1>1, <1>2, <1>3, <1>4

LEMMA LookupInv == ASSUME IndInv, NEW c \in Caller, Lookup(c) PROVE IndInv'
  <1> USE DEF Lookup, GoTo, AfterLookup, IndInv, tables, locals
  <1> DEFINE p == req[c].path
  <1>0. /\ p \in Path /\ req[c] \in Request
        /\ \A d \in Caller : d # c => pc[d] \in {"idle", "begin"}
    BY OthersOutside, RequestFields DEF TypeOK, Stage, InTx, Busy
  <1>1. TypeOK'
    <2>1. files[p] # NoRow => files[p].rowid \in Nat
      BY <1>0 DEF TypeOK, FileRow, Rowid
    <2>2. QED BY <1>0, <2>1 DEF TypeOK, Busy, InTx
  <1>2. Stage'
    BY <1>0, RequestFields DEF TypeOK, Stage, InTx, Busy
  <1>3. OneOwner' /\ Isolation' /\ CommittedConsistent'
    BY <1>0 DEF TypeOK, OneOwner, Busy, InTx, Isolation, CommittedConsistent, Consistent, Linked
  <1>4. Progress'
    BY <1>0, RequestFields DEF TypeOK, Progress, Working, Untouched, ConsistentBut, Linked, Differs, Done,
              Consistent, CommittedConsistent, Stage, Store, DocRow, FileRow, InTx
  <1>5. QED BY <1>1, <1>2, <1>3, <1>4

LEMMA DeleteDocInv == ASSUME IndInv, NEW c \in Caller, DeleteDoc(c) PROVE IndInv'
  <1> USE DEF DeleteDoc, GoTo, IndInv, tables, locals
  <1> DEFINE p == req[c].path
  <1>0. /\ p \in Path /\ req[c] \in Request
        /\ \A d \in Caller : d # c => pc[d] \in {"idle", "begin"}
    BY OthersOutside, RequestFields DEF TypeOK, Stage, InTx, Busy
  <1>1. TypeOK'
    BY <1>0, RequestFields DEF TypeOK, Busy, InTx, Stage, DocRow, FileRow
  <1>2. Stage'
    BY <1>0, RequestFields DEF TypeOK, Stage, InTx, Busy
  <1>3. OneOwner' /\ Isolation' /\ CommittedConsistent'
    BY <1>0 DEF TypeOK, OneOwner, Busy, InTx, Isolation, CommittedConsistent, Consistent, Linked
  <1>4. Progress'
    BY <1>0, RequestFields DEF TypeOK, Progress, Working, Untouched, ConsistentBut, Linked, Differs, Done,
              Consistent, CommittedConsistent, Stage, Store, DocRow, FileRow, InTx
  <1>5. QED BY <1>1, <1>2, <1>3, <1>4

LEMMA InsertDocInv == ASSUME IndInv, NEW c \in Caller, InsertDoc(c) PROVE IndInv'
  <1> USE DEF InsertDoc, GoTo, NextRowid, IndInv, tables, locals
  <1> DEFINE p == req[c].path
  <1>0. /\ p \in Path /\ req[c] \in Request
        /\ \A d \in Caller : d # c => pc[d] \in {"idle", "begin"}
    BY OthersOutside, RequestFields DEF TypeOK, Stage, InTx, Busy
  <1>1. TypeOK'
    <2>1. [path |-> p, content |-> req[c].content] \in DocRow
      BY <1>0, RequestFields DEF DocRow, Stage
    <2>2. QED BY <1>0, <2>1 DEF TypeOK, Busy, InTx, Rowid
  <1>2. Stage'
    BY <1>0, RequestFields DEF TypeOK, Stage, InTx, Busy
  <1>3. OneOwner' /\ Isolation' /\ CommittedConsistent'
    BY <1>0 DEF TypeOK, OneOwner, Busy, InTx, Isolation, CommittedConsistent, Consistent, Linked
  <1>4. Progress'
    <2>1. PICK r \in Rowid : /\ NextRowid(r) /\ new' = r
             /\ docs' = [docs EXCEPT ![r] = [path |-> p, content |-> req[c].content]]
      OBVIOUS
    <2>2. docs[r] = NoRow
      <3>1. r < r => FALSE
        BY DEF Rowid
      <3>2. QED BY <2>1, <3>1 DEF NextRowid
    <2>3. \A q \in Path : files[q] # NoRow => files[q].rowid \in Rowid
      BY DEF TypeOK, FileRow
    <2>4. /\ Untouched(p) /\ ConsistentBut(p) /\ Differs(req[c]) /\ files = saved.files
          /\ \A q \in Rowid : docs[q] # NoRow => docs[q].path # p
      BY DEF Progress
    <2>5. \A q \in Rowid \ {r} : docs'[q] = docs[q]
      BY <2>1 DEF TypeOK
    <2>6. docs'[r] = [path |-> p, content |-> req[c].content]
      BY <2>1 DEF TypeOK
    <2>7. \A q \in Path \ {p} : files[q] # NoRow => files[q].rowid # r
      BY <2>2, <2>4 DEF ConsistentBut
    <2>8. Untouched(p)' /\ ConsistentBut(p)'
      BY <2>2, <2>3, <2>4, <2>5, <2>6, <2>7, NoRow \notin DocRow DEF Untouched, ConsistentBut, Linked, Working
    <2>9. \A q \in Rowid : docs'[q] # NoRow /\ docs'[q].path = p => q = r
      BY <2>4, <2>5
    <2>10. p' = p /\ req' = req /\ files' = files /\ saved' = saved
      OBVIOUS
    <2>11. Differs(req[c])'
      BY <2>4, <2>10 DEF Differs
    <2>12. pc' = [pc EXCEPT ![c] = "putFile"]
      OBVIOUS
    <2>13. QED
      BY <1>0, <2>1, <2>4, <2>6, <2>8, <2>9, <2>10, <2>11, <2>12 DEF Progress, TypeOK
  <1>5. QED BY <1>1, <1>2, <1>3, <1>4

LEMMA PutFileInv == ASSUME IndInv, NEW c \in Caller, PutFile(c) PROVE IndInv'
  <1> USE DEF PutFile, GoTo, IndInv, tables, locals
  <1> DEFINE p == req[c].path
  <1>0. /\ p \in Path /\ req[c] \in Request
        /\ \A d \in Caller : d # c => pc[d] \in {"idle", "begin"}
    BY OthersOutside, RequestFields DEF TypeOK, Stage, InTx, Busy
  <1>1. TypeOK'
    <2>1. new \in Rowid /\ req[c].content \in Content /\ req[c].mtime \in Mtime
      BY <1>0, RequestFields DEF Stage, Progress
    <2>2. [rowid |-> new, hash |-> contentHash[req[c].content], mtime |-> req[c].mtime] \in FileRow
      BY <2>1 DEF FileRow
    <2>3. QED BY <1>0, <2>2 DEF TypeOK, Busy, InTx
  <1>2. Stage'
    BY <1>0, RequestFields DEF TypeOK, Stage, InTx, Busy
  <1>3. OneOwner' /\ Isolation' /\ CommittedConsistent'
    BY <1>0 DEF TypeOK, OneOwner, Busy, InTx, Isolation, CommittedConsistent, Consistent, Linked
  <1>4. Progress'
    BY <1>0, RequestFields DEF TypeOK, Progress, Working, Untouched, ConsistentBut, Linked, Differs, Done,
              Consistent, CommittedConsistent, Stage, Store, DocRow, FileRow, InTx
  <1>5. QED BY <1>1, <1>2, <1>3, <1>4

LEMMA DropFileInv == ASSUME IndInv, NEW c \in Caller, DropFile(c) PROVE IndInv'
  <1> USE DEF DropFile, GoTo, IndInv, tables, locals
  <1> DEFINE p == req[c].path
  <1>0. /\ p \in Path /\ req[c] \in Request
        /\ \A d \in Caller : d # c => pc[d] \in {"idle", "begin"}
    BY OthersOutside, RequestFields DEF TypeOK, Stage, InTx, Busy
  <1>1. TypeOK'
    BY <1>0, RequestFields DEF TypeOK, Busy, InTx, Stage, DocRow, FileRow
  <1>2. Stage'
    BY <1>0, RequestFields DEF TypeOK, Stage, InTx, Busy
  <1>3. OneOwner' /\ Isolation' /\ CommittedConsistent'
    BY <1>0 DEF TypeOK, OneOwner, Busy, InTx, Isolation, CommittedConsistent, Consistent, Linked
  <1>4. Progress'
    BY <1>0, RequestFields DEF TypeOK, Progress, Working, Untouched, ConsistentBut, Linked, Differs, Done,
              Consistent, CommittedConsistent, Stage, Store, DocRow, FileRow, InTx
  <1>5. QED BY <1>1, <1>2, <1>3, <1>4

LEMMA CommitInv == ASSUME IndInv, NEW c \in Caller, Commit(c) PROVE IndInv'
  <1> USE DEF Commit, Return, IndInv, tables, locals
  <1>0. \A d \in Caller : d # c => pc[d] \in {"idle", "begin"}
    BY OthersOutside DEF InTx, Busy
  <1>1. TypeOK'
    BY DEF TypeOK, Store, Ok, Answer
  <1>2. Stage'
    BY <1>0 DEF TypeOK, Stage, InTx, Busy, Ok, Running, Answer
  <1>3. CommittedConsistent'
    BY DEF CommittedConsistent, Consistent, Linked, Progress, Working
  <1>4. OneOwner' /\ Isolation'
    BY <1>0 DEF TypeOK, OneOwner, Busy, InTx, Isolation
  <1>5. Progress'
    BY <1>0 DEF TypeOK, Progress
  <1>6. QED BY <1>1, <1>2, <1>3, <1>4, <1>5

LEMMA ScanInv == ASSUME IndInv, NEW c \in Caller, Scan(c) PROVE IndInv'
  <1> USE DEF Scan, Return, IndInv, tables, locals
  <1> DEFINE hits == Hits(req[c].query, req[c].since)
  <1>0. \A d \in Caller : d # c => pc[d] \in {"idle", "begin"}
    BY OthersOutside DEF Busy
  <1>1. TypeOK'
    <2>1. {docs[r].path : r \in hits} \subseteq Path
      BY DEF Hits, TypeOK, DocRow
    <2>2. Cardinality(hits) \in Nat
      BY HitsAreFinite
    <2> HIDE DEF hits
    <2>3. ret' \in [Caller -> [status : {"none", "running", "ok", "err"},
                              paths : SUBSET Path, rows : Nat]]
      BY <2>1, <2>2 DEF hits, TypeOK, Answer
    <2>4. QED BY <2>3 DEF TypeOK
  <1>2. Stage'
    BY <1>0 DEF TypeOK, Stage, InTx, Busy, Running, Answer
  <1>3. CommittedConsistent'
    BY DEF CommittedConsistent, Consistent, Linked
  <1>4. OneOwner' /\ Isolation'
    BY <1>0 DEF TypeOK, OneOwner, Busy, InTx, Isolation
  <1>5. Progress'
    BY <1>0 DEF TypeOK, Progress
  <1>6. QED BY <1>1, <1>2, <1>3, <1>4, <1>5

LEMMA FailInv == ASSUME IndInv, NEW c \in Caller, Fail(c) PROVE IndInv'
  <1> USE DEF Fail, Return, IndInv, tables, locals
  <1>0. \A d \in Caller : d # c => pc[d] \in {"idle", "begin"}
    BY OthersOutside DEF Busy
  <1>1. TypeOK'
    BY DEF TypeOK, Store, Err, Answer
  <1>2. Stage'
    BY <1>0 DEF TypeOK, Stage, InTx, Busy, Err, Running, Answer
  <1>3. CommittedConsistent'
    BY DEF CommittedConsistent, Consistent, Linked
  <1>4. OneOwner' /\ Isolation'
    BY <1>0 DEF TypeOK, OneOwner, Busy, InTx, Isolation
  <1>5. Progress'
    BY <1>0 DEF TypeOK, Progress
  <1>6. QED BY <1>1, <1>2, <1>3, <1>4, <1>5

LEMMA GiveUpInv == ASSUME IndInv, NEW c \in Caller, GiveUp(c) PROVE IndInv'
  <1> USE DEF GiveUp, IndInv, tables, locals
  <1>1. TypeOK'
    BY DEF TypeOK, Err, Answer
  <1>2. Stage'
    BY DEF TypeOK, Stage, InTx, Busy, Err, Running, Answer
  <1>3. OneOwner' /\ Isolation' /\ CommittedConsistent'
    BY DEF TypeOK, OneOwner, Busy, InTx, Isolation, CommittedConsistent, Consistent, Linked
  <1>4. Progress'
    <2>1. \A d \in Caller : pc'[d] # "idle" => pc'[d] = pc[d] /\ req'[d] = req[d]
      BY DEF TypeOK
    <2>2. QED
      BY <2>1 DEF TypeOK, Progress, Working, Untouched, ConsistentBut, Linked, Differs, Done,
                  Consistent
  <1>5. QED BY <1>1, <1>2, <1>3, <1>4

LEMMA CrashInv == ASSUME IndInv, Crash PROVE IndInv'
  <1> USE DEF Crash, IndInv
  <1>1. TypeOK'
    BY DEF TypeOK, Store, Silent, Answer
  <1>2. Stage' /\ OneOwner' /\ Isolation' /\ Progress'
    BY DEF Stage, OneOwner, Isolation, Progress, InTx, Busy, Silent, Running, Answer
  <1>3. CommittedConsistent'
    BY DEF CommittedConsistent, Consistent, Linked
  <1>4. QED BY <1>1, <1>2, <1>3

LEMMA StutterInv == ASSUME IndInv, UNCHANGED vars PROVE IndInv'
  BY DEF vars, IndInv, TypeOK, Stage, OneOwner, Isolation, CommittedConsistent, Consistent,
         Linked, Progress, Working, Untouched, ConsistentBut, Differs, Done

-----------------------------------------------------------------------------
LEMMA NextInv == IndInv /\ [Next]_vars => IndInv'
  BY CallInv, BeginInv, LookupInv, DeleteDocInv, InsertDocInv, PutFileInv, DropFileInv,
     CommitInv, ScanInv, FailInv, GiveUpInv, CrashInv, StutterInv DEF Next, Statement

LEMMA Inductive == Spec => []IndInv
  BY InitInv, NextInv, PTL DEF Spec

(* Every variable keeps its type. *)
THEOREM TypeCorrect == Spec => []TypeOK
  BY Inductive, PTL DEF IndInv

(* The tables a crash leaves agree with each other, wherever it strikes:   *)
(* no document without a files row, no files row without its document.     *)
THEOREM CommittedIsConsistent == Spec => []CommittedConsistent
  BY Inductive, PTL DEF IndInv

(* The connection has one owner, and nobody else sees what it has not      *)
(* committed.                                                              *)
THEOREM TransactionsAreIsolated == Spec => [](OneOwner /\ Isolation)
  BY Inductive, PTL DEF IndInv

-----------------------------------------------------------------------------
(* The store implements the atomic map.                                    *)

(* The rows a query finds and the paths it finds are as many: in tables    *)
(* that agree with each other the documents stand for different paths.     *)
LEMMA OneRowForEachPath ==
  ASSUME TypeOK, CommittedConsistent, Working = saved, NEW q, NEW s \in Mtime
  PROVE  LET hits == Hits(q, s) IN
         /\ {docs[r].path : r \in hits} = Map!Found(q, s)
         /\ Cardinality(hits) = Cardinality(Map!Found(q, s))
  <1> DEFINE hits == Hits(q, s)
             found == Map!Found(q, s)
             pathOf == [r \in hits |-> docs[r].path]
  <1> USE DEF Working
  <1>1. \A r \in Rowid : docs[r] # NoRow =>
          /\ docs[r].path \in Path
          /\ files[docs[r].path] # NoRow /\ files[docs[r].path].rowid = r
    BY DEF TypeOK, DocRow, CommittedConsistent, Consistent, Linked
  <1>2. \A p \in Path : files[p] # NoRow =>
          /\ files[p].rowid \in Rowid /\ files[p].mtime \in Nat
          /\ docs[files[p].rowid] # NoRow /\ docs[files[p].rowid].path = p
    BY DEF TypeOK, FileRow, CommittedConsistent, Consistent
  <1>3. \A p \in Path : p \in found <=>
          /\ files[p] # NoRow
          /\ docs[files[p].rowid].content \in q
          /\ files[p].mtime >= s
    <2> SUFFICES ASSUME NEW p \in Path
                 PROVE  (index[p] # NoRow /\ index[p].content \in q /\ index[p].mtime >= s)
                          <=> (/\ files[p] # NoRow
                               /\ docs[files[p].rowid].content \in q
                               /\ files[p].mtime >= s)
      BY DEF Map!Found
    <2>1. CASE files[p] = NoRow
      BY <2>1 DEF index
    <2>2. CASE files[p] # NoRow
      <3>1. files[p] \in FileRow /\ docs[files[p].rowid] \in DocRow
        BY <1>2, <2>2 DEF TypeOK
      <3>2. docs[files[p].rowid].content \in Content /\ files[p].mtime \in Mtime
        BY <3>1 DEF DocRow, FileRow
      <3>3. index[p] = [content |-> docs[files[p].rowid].content, mtime |-> files[p].mtime]
        BY <2>2 DEF index
      <3>4. index[p] # NoRow
        BY <3>2, <3>3
      <3>5. QED BY <2>2, <3>3, <3>4
    <2>3. QED BY <2>1, <2>2
  <1>4. \A r \in hits : docs[r].path \in found
    BY <1>1, <1>2, <1>3 DEF Hits, RecentPath
  <1>5. \A p \in found : files[p].rowid \in hits /\ docs[files[p].rowid].path = p
    BY <1>2, <1>3 DEF Hits, RecentPath, Map!Found
  <1>6. {docs[r].path : r \in hits} = found
    BY <1>4, <1>5
  <1>7. pathOf \in Bijection(hits, found)
    <2>1. pathOf \in [hits -> found]
      BY <1>4
    <2>2. \A a, b \in hits : pathOf[a] = pathOf[b] => a = b
      BY <1>1 DEF Hits
    <2>3. \A p \in found : \E r \in hits : pathOf[r] = p
      BY <1>5
    <2>4. QED BY <2>1, <2>2, <2>3 DEF Bijection, Injection, Surjection, IsInjective
  <1>8. QED
    BY <1>6, <1>7, HitsAreFinite, FS_Bijection DEF ExistsBijection

LEMMA CommitIsPutOrRemove ==
  ASSUME IndInv, NEW c \in Caller, Commit(c)
  PROVE  Map!Put(c) \/ Map!Remove(c)
  <1> DEFINE r == req[c]
             p == r.path
  <1> USE DEF IndInv
  <1>1. /\ r \in Request /\ p \in Path /\ r.op \in {"upsert", "delete"}
        /\ ret[c] = Running
    BY RequestFields DEF Commit, Stage, TypeOK, InTx
  <1>2. /\ Untouched(p) /\ Done(r) /\ Consistent(Working)
        /\ saved' = Working
    BY DEF Progress, Commit, Working
  <1>3. /\ req' = [req EXCEPT ![c] = NoRequest]
        /\ ret' = [ret EXCEPT ![c] = Ok]
    BY DEF Commit, Return
  <1>4. ASSUME NEW q \in Path \ {p}
        PROVE  index'[q] = index[q]
    BY <1>2 DEF index, Untouched, Working
  <1>5. ASSUME NEW row, index'[p] = row PROVE index' = [index EXCEPT ![p] = row]
    <2>1. index = [q \in Path |-> index[q]]
      BY DEF index
    <2>2. index' = [q \in Path |-> index'[q]]
      BY DEF index
    <2>3. \A q \in Path \ {p} : index'[q] = index[q]
      BY <1>4
    <2>4. QED BY <1>5, <2>1, <2>2, <2>3
  <1>6. CASE r.op = "delete"
    <2>1. index'[p] = NoRow
      BY <1>1, <1>2, <1>6 DEF Done, index, Working
    <2>2. index' = [index EXCEPT ![p] = NoRow]
      BY <1>5, <2>1
    <2>3. QED
      BY <1>1, <1>3, <1>6, <2>2 DEF Map!Remove, Map!Return, Map!Running, Map!Ok, Map!Answer,
         Running, Ok, Answer
  <1>7. CASE r.op = "upsert"
    <2>1. /\ files[p] # NoRow /\ files[p] \in FileRow
          /\ docs[files[p].rowid].content = r.content
      BY <1>1, <1>2, <1>7 DEF Done, TypeOK
    <2>2. index'[p] = [content |-> r.content, mtime |-> files[p].mtime]
      BY <1>1, <1>2, <2>1 DEF index, Working
    <2>3. r.content \in Content /\ r.mtime \in Mtime
      BY <1>1, <1>7, RequestFields
    <2>4. CASE Working = saved
      <3>1. index' = index
        BY <1>2, <2>4 DEF index
      <3>2. index[p] = [content |-> r.content, mtime |-> files[p].mtime]
        BY <2>2, <3>1
      <3>3. index[p] # NoRow /\ index[p].content = r.content
        BY <2>1, <2>3, <3>2 DEF FileRow
      <3>4. QED
        BY <1>1, <1>3, <1>7, <3>1, <3>3 DEF Map!Put, Map!Return, Map!Running, Map!Ok, Map!Answer,
           Running, Ok, Answer
    <2>5. CASE Differs(r) /\ files[p].mtime = r.mtime
      <3>1. index[p] = NoRow \/ index[p].content # r.content
        <4>1. CASE saved.files[p] = NoRow
          BY <1>1, <4>1 DEF index
        <4>2. CASE saved.files[p] # NoRow
          <5>1. /\ saved.files[p].hash # contentHash[r.content]
                /\ saved.files[p] \in FileRow
            BY <1>1, <2>5, <4>2 DEF Differs, TypeOK, Store
          <5>2. /\ saved.docs[saved.files[p].rowid] # NoRow
                /\ saved.docs[saved.files[p].rowid].path = p
            BY <1>1, <4>2 DEF CommittedConsistent, Consistent
          <5>3. saved.files[p].hash = contentHash[saved.docs[saved.files[p].rowid].content]
            BY <5>1, <5>2 DEF CommittedConsistent, Consistent, Linked, FileRow
          <5>4. index[p].content = saved.docs[saved.files[p].rowid].content
            BY <1>1, <4>2 DEF index
          <5>5. QED BY <5>1, <5>3, <5>4
        <4>3. QED BY <4>1, <4>2
      <3>2. index' = [index EXCEPT ![p] = [content |-> r.content, mtime |-> r.mtime]]
        BY <1>5, <2>2, <2>5
      <3>3. QED
        BY <1>1, <1>3, <1>7, <3>1, <3>2 DEF Map!Put, Map!Return, Map!Running, Map!Ok, Map!Answer,
           Running, Ok, Answer
    <2>6. QED BY <1>1, <1>2, <1>7, <2>4, <2>5 DEF Done
  <1>8. QED BY <1>1, <1>6, <1>7

LEMMA ScanIsFind ==
  ASSUME IndInv, NEW c \in Caller, Scan(c)
  PROVE  Map!Find(c)
  <1> USE DEF IndInv
  <1>1. req[c] \in Request /\ req[c].op = "search" /\ ret[c] = Running
    BY DEF Scan, Stage, TypeOK
  <1>2. req[c].since \in Mtime
    BY <1>1 DEF Request
  <1>3. Working = saved
    BY DEF Scan, Progress
  <1>4. index' = index
    BY DEF Scan, index
  <1> DEFINE q == req[c].query
             since == req[c].since
             hits == Hits(q, since)
             names == {docs[r].path : r \in hits}
             rows == Cardinality(hits)
             found == Map!Found(q, since)
  <1>5. /\ req' = [req EXCEPT ![c] = NoRequest]
        /\ ret' = [ret EXCEPT ![c] = Answer("ok", names, rows)]
    BY DEF Scan, Return
  <1>6. names = found /\ rows = Cardinality(found)
    BY <1>2, <1>3, OneRowForEachPath
  <1> HIDE DEF names, rows, found
  <1>7. ret' = [ret EXCEPT ![c] = Map!Answer("ok", found, Cardinality(found))]
    BY <1>5, <1>6 DEF Map!Answer, Answer
  <1>8. ret[c] = Map!Running
    BY <1>1 DEF Map!Running, Map!Answer, Running, Answer
  <1>9. QED
    BY <1>1, <1>4, <1>5, <1>7, <1>8 DEF found, Map!Find, Map!Return

LEMMA OtherStepsAreMapSteps ==
  ASSUME IndInv, NEW c \in Caller
  PROVE  /\ Call(c) => Map!Call(c)
         /\ Fail(c) \/ GiveUp(c) => Map!Fail(c)
         /\ Crash => Map!Crash
         /\ Begin(c) \/ Lookup(c) \/ DeleteDoc(c) \/ InsertDoc(c) \/ PutFile(c) \/ DropFile(c)
              => UNCHANGED Map!vars
  <1> USE DEF IndInv, Map!Answer, Map!Running, Map!Err, Map!Silent, Answer, Running, Err, Silent
  <1>1. Call(c) => Map!Call(c)
    BY DEF Call, Map!Call, Stage, index
  <1>2. Fail(c) \/ GiveUp(c) => Map!Fail(c)
    BY DEF Fail, GiveUp, Return, Map!Fail, Map!Return, Stage, index, Busy, InTx
  <1>3. Crash => Map!Crash
    BY DEF Crash, Map!Crash, index
  <1>4. Begin(c) \/ Lookup(c) \/ DeleteDoc(c) \/ InsertDoc(c) \/ PutFile(c) \/ DropFile(c)
          => UNCHANGED Map!vars
    BY DEF Begin, Lookup, DeleteDoc, InsertDoc, PutFile, DropFile, GoTo, Map!vars, index
  <1>5. QED BY <1>1, <1>2, <1>3, <1>4

(* Upsert, Delete and Search are atomic operations on a map from paths to  *)
(* contents: statements, failures, crashes and row numbers do not show.    *)
THEOREM StoreImplementsMap == Spec => ImplementsMap
  <1>1. Init => Map!Init
    BY DEF Init, Map!Init, index, NoFiles, NoDocs, Map!Silent, Map!Answer, Silent, Answer
  <1>2. IndInv /\ [Next]_vars => [Map!Next]_(Map!vars)
    <2> SUFFICES ASSUME IndInv, [Next]_vars PROVE Map!Next \/ UNCHANGED Map!vars
      OBVIOUS
    <2>1. ASSUME NEW c \in Caller,
                 Call(c) \/ Begin(c) \/ Statement(c) \/ Fail(c) \/ GiveUp(c)
          PROVE  Map!Next \/ UNCHANGED Map!vars
      BY <2>1, CommitIsPutOrRemove, ScanIsFind, OtherStepsAreMapSteps DEF Statement, Map!Next
    <2>2. CASE Crash
      BY <2>2 DEF Map!Next, Map!Crash, Crash, index, Map!Silent, Map!Answer, Silent, Answer
    <2>3. CASE UNCHANGED vars
      BY <2>3 DEF vars, Map!vars, index
    <2>4. QED BY <2>1, <2>2, <2>3 DEF Next
  <1>3. QED BY <1>1, <1>2, Inductive, PTL DEF Spec, ImplementsMap, Map!Spec
=============================================================================
