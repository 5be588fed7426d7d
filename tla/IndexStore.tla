----------------------------- MODULE IndexStore -----------------------------
(***************************************************************************)
(* The index of internal/db/db.go: an FTS5 table `documents` keyed by      *)
(* rowid, a shadow table `files` keyed by path that remembers the rowid of *)
(* the path's document and the hash of its content, and one connection     *)
(* (SetMaxOpenConns(1)) that every call has to take.  UpsertWithMtime and  *)
(* Delete are SQL transactions; each statement is a step here, may fail,   *)
(* and may be the last one before the process dies.                        *)
(***************************************************************************)
EXTENDS Naturals, FiniteSets

CONSTANTS Path, Content, Mtime,
          Hash, contentHash,   \* SHA-256, as a function from Content to Hash
          Query,               \* a query is the set of contents it matches
          Caller,              \* the goroutines that call the store
          NoRow, NoCaller, NoRequest,
          MaxRowid             \* bound: rowids the model lets SQLite hand out

ASSUME HashIsInjective ==
  /\ contentHash \in [Content -> Hash]
  /\ \A a, b \in Content : contentHash[a] = contentHash[b] => a = b

ASSUME DataAssumption == /\ Mtime \subseteq Nat
                         /\ Query \subseteq SUBSET Content
                         /\ MaxRowid \in Nat

Rowid   == 1 .. MaxRowid
DocRow  == [path : Path, content : Content]
FileRow == [rowid : Rowid, hash : Hash, mtime : Mtime]

ASSUME SentinelAssumption == /\ NoRow \notin DocRow \cup FileRow
                             /\ NoRow \notin [content : Content, mtime : Mtime]
                             /\ NoCaller \notin Caller

Request == [op : {"upsert"}, path : Path, content : Content, mtime : Mtime]
             \cup [op : {"delete"}, path : Path]
             \cup [op : {"search"}, query : Query, since : Mtime]

ASSUME NoRequestAssumption == NoRequest \notin Request

VARIABLES docs,      \* docs[r]: row r of `documents`, or NoRow
          files,     \* files[p]: the row of `files` for p, or NoRow
          saved,     \* both tables as last committed: what a crash leaves
          conn,      \* the caller that holds the connection
          pc,        \* pc[c]: the statement caller c executes next
          req,       \* req[c]: the arguments of its call, while it runs
          ret,       \* ret[c]: what the call returned
          existing,  \* existingRowid of the open transaction
          new        \* newRowid of the open transaction

tables == <<docs, files>>
locals == <<existing, new>>
vars   == <<docs, files, saved, conn, pc, req, ret, existing, new>>

Answer(status, paths, rows) == [status |-> status, paths |-> paths, rows |-> rows]

Silent  == Answer("none", {}, 0)
Running == Answer("running", {}, 0)
Ok      == Answer("ok", {}, 0)
Err     == Answer("err", {}, 0)

InTx == {"lookup", "deleteDoc", "insertDoc", "putFile", "dropFile", "commit"}
Busy == InTx \cup {"scan"}        \* holds the connection

NoDocs  == [r \in Rowid |-> NoRow]
NoFiles == [p \in Path |-> NoRow]

Init == /\ docs = NoDocs
        /\ files = NoFiles
        /\ saved = [docs |-> NoDocs, files |-> NoFiles]
        /\ conn = NoCaller
        /\ pc = [c \in Caller |-> "idle"]
        /\ req = [c \in Caller |-> NoRequest]
        /\ ret = [c \in Caller |-> Silent]
        /\ existing = 0
        /\ new = 0

-----------------------------------------------------------------------------
(* Taking and giving back the connection.                                  *)

Call(c) == /\ pc[c] = "idle"
           /\ \E r \in Request : req' = [req EXCEPT ![c] = r]
           /\ pc' = [pc EXCEPT ![c] = "begin"]
           /\ ret' = [ret EXCEPT ![c] = Running]
           /\ UNCHANGED <<tables, saved, conn, locals>>

(* BeginTx, or the implicit acquisition of QueryContext. *)
Begin(c) == /\ pc[c] = "begin" /\ conn = NoCaller
            /\ conn' = c
            /\ pc' = [pc EXCEPT ![c] = IF req[c].op = "search" THEN "scan" ELSE "lookup"]
            /\ UNCHANGED <<tables, saved, req, ret, locals>>

Return(c, answer) == /\ conn' = NoCaller
                     /\ pc' = [pc EXCEPT ![c] = "idle"]
                     /\ req' = [req EXCEPT ![c] = NoRequest]
                     /\ ret' = [ret EXCEPT ![c] = answer]
                     /\ existing' = 0
                     /\ new' = 0

GoTo(c, label) == /\ pc' = [pc EXCEPT ![c] = label]
                  /\ UNCHANGED <<conn, req, ret, saved>>

(* Mutants of Fail: no deferred Rollback; an error path that keeps the     *)
(* connection (rows not closed, transaction neither committed nor undone). *)
FailWithoutRollback(c) == /\ pc[c] \in Busy
                          /\ Return(c, Err)
                          /\ UNCHANGED <<tables, saved>>

FailKeepingConnection(c) == /\ pc[c] \in Busy
                            /\ pc' = [pc EXCEPT ![c] = "idle"]
                            /\ req' = [req EXCEPT ![c] = NoRequest]
                            /\ ret' = [ret EXCEPT ![c] = Err]
                            /\ UNCHANGED <<tables, saved, conn, locals>>

(* A statement fails (I/O error, full disk, cancelled context): the call   *)
(* returns the error and the deferred Rollback undoes the transaction.     *)
(* Rolling back nothing, a failed query only gives the connection back.    *)
Fail(c) == /\ pc[c] \in Busy
           /\ docs' = saved.docs
           /\ files' = saved.files
           /\ Return(c, Err)
           /\ UNCHANGED saved

(* The context ends while the caller still waits for the connection. *)
GiveUp(c) == /\ pc[c] = "begin"
             /\ pc' = [pc EXCEPT ![c] = "idle"]
             /\ req' = [req EXCEPT ![c] = NoRequest]
             /\ ret' = [ret EXCEPT ![c] = Err]
             /\ UNCHANGED <<tables, saved, conn, locals>>

Commit(c) == /\ pc[c] = "commit"
             /\ saved' = [docs |-> docs, files |-> files]
             /\ Return(c, Ok)
             /\ UNCHANGED tables

-----------------------------------------------------------------------------
(* UpsertWithMtime and Delete, statement by statement.                     *)

(* Mutant of AfterLookup: the old document is not deleted first. *)
AfterLookupKeepingOldDoc(row, r) ==
  CASE r.op = "upsert" /\ row # NoRow /\ row.hash = contentHash[r.content] -> "commit"
    [] r.op = "upsert" -> "insertDoc"
    [] r.op = "delete" /\ row = NoRow -> "commit"
    [] OTHER -> "deleteDoc"

AfterLookup(row, r) ==
  CASE r.op = "upsert" /\ row # NoRow /\ row.hash = contentHash[r.content] -> "commit"
    [] r.op = "upsert" /\ row = NoRow -> "insertDoc"
    [] r.op = "delete" /\ row = NoRow -> "commit"
    [] OTHER -> "deleteDoc"

Lookup(c) ==
  LET row == files[req[c].path] IN
  /\ pc[c] = "lookup"
  /\ existing' = IF row = NoRow THEN existing ELSE row.rowid
  /\ GoTo(c, AfterLookup(row, req[c]))
  /\ UNCHANGED <<tables, new>>

DeleteDoc(c) ==
  /\ pc[c] = "deleteDoc"
  /\ docs' = [docs EXCEPT ![existing] = NoRow]
  /\ GoTo(c, IF req[c].op = "upsert" THEN "insertDoc" ELSE "dropFile")
  /\ UNCHANGED <<files, locals>>

(* SQLite gives a new row of a table without AUTOINCREMENT the rowid after *)
(* the largest one in use.                                                 *)
NextRowid(r) == /\ \A q \in Rowid : docs[q] # NoRow => q < r
                /\ \A q \in Rowid : q + 1 = r => docs[q] # NoRow

InsertDoc(c) ==
  /\ pc[c] = "insertDoc"
  /\ \E r \in Rowid :
       /\ NextRowid(r)
       /\ docs' = [docs EXCEPT ![r] = [path |-> req[c].path, content |-> req[c].content]]
       /\ new' = r
  /\ GoTo(c, "putFile")
  /\ UNCHANGED <<files, existing>>

(* Mutant of PutFile: ON CONFLICT leaves the old mtime. *)
PutFileKeepingMtime(c) ==
  LET old == files[req[c].path] IN
  /\ pc[c] = "putFile"
  /\ files' = [files EXCEPT ![req[c].path] =
                 [rowid |-> new, hash |-> contentHash[req[c].content],
                  mtime |-> IF old = NoRow THEN req[c].mtime ELSE old.mtime]]
  /\ GoTo(c, "commit")
  /\ UNCHANGED <<docs, locals>>

PutFile(c) ==
  /\ pc[c] = "putFile"
  /\ files' = [files EXCEPT ![req[c].path] =
                 [rowid |-> new, hash |-> contentHash[req[c].content], mtime |-> req[c].mtime]]
  /\ GoTo(c, "commit")
  /\ UNCHANGED <<docs, locals>>

DropFile(c) ==
  /\ pc[c] = "dropFile"
  /\ files' = [files EXCEPT ![req[c].path] = NoRow]
  /\ GoTo(c, "commit")
  /\ UNCHANGED <<docs, locals>>

-----------------------------------------------------------------------------
(* Search: one SELECT over `documents`; the date filter asks `files`.      *)

RecentPath(p, since) == files[p] # NoRow /\ files[p].mtime >= since

Hits(q, since) ==
  {r \in Rowid : /\ docs[r] # NoRow
                 /\ docs[r].content \in q
                 /\ since = 0 \/ RecentPath(docs[r].path, since)}

Scan(c) ==
  LET hits == Hits(req[c].query, req[c].since) IN
  /\ pc[c] = "scan"
  /\ Return(c, Answer("ok", {docs[r].path : r \in hits}, Cardinality(hits)))
  /\ UNCHANGED <<tables, saved>>

-----------------------------------------------------------------------------
(* The process dies and starts again: SQLite keeps what was committed.     *)
Crash == /\ docs' = saved.docs
         /\ files' = saved.files
         /\ conn' = NoCaller
         /\ pc' = [c \in Caller |-> "idle"]
         /\ req' = [c \in Caller |-> NoRequest]
         /\ ret' = [c \in Caller |-> Silent]
         /\ existing' = 0
         /\ new' = 0
         /\ UNCHANGED saved

Statement(c) == \/ Lookup(c) \/ DeleteDoc(c) \/ InsertDoc(c) \/ PutFile(c)
                \/ DropFile(c) \/ Commit(c) \/ Scan(c)

Next == \/ \E c \in Caller : Call(c) \/ Begin(c) \/ Statement(c) \/ Fail(c) \/ GiveUp(c)
        \/ Crash

Spec == Init /\ [][Next]_vars

(* A statement that was sent finishes or fails, and the pool of            *)
(* database/sql hands a freed connection to a waiting caller picked at     *)
(* random, so that no caller waits for ever.                               *)
Fairness == \A c \in Caller : /\ WF_vars(Statement(c) \/ Fail(c))
                              /\ SF_vars(Begin(c))

FairSpec == Spec /\ Fairness

-----------------------------------------------------------------------------
Store == [docs : [Rowid -> DocRow \cup {NoRow}], files : [Path -> FileRow \cup {NoRow}]]

TypeOK ==
  /\ docs \in [Rowid -> DocRow \cup {NoRow}]
  /\ files \in [Path -> FileRow \cup {NoRow}]
  /\ saved \in Store
  /\ conn \in Caller \cup {NoCaller}
  /\ pc \in [Caller -> {"idle", "begin"} \cup Busy]
  /\ req \in [Caller -> Request \cup {NoRequest}]
  /\ ret \in [Caller -> [status : {"none", "running", "ok", "err"},
                          paths : SUBSET Path, rows : Nat]]
  /\ existing \in Nat
  /\ new \in Nat

(* Row r is the document that the files row of its path stands for. *)
Linked(s, r) ==
  LET row == s.files[s.docs[r].path] IN
  /\ row # NoRow
  /\ row.rowid = r
  /\ row.hash = contentHash[s.docs[r].content]

Consistent(s) ==
  /\ \A p \in Path : s.files[p] # NoRow =>
       s.docs[s.files[p].rowid] # NoRow /\ s.docs[s.files[p].rowid].path = p
  /\ \A r \in Rowid : s.docs[r] # NoRow => Linked(s, r)

(* At whatever statement the process dies or a call fails, the tables on   *)
(* disk agree: every files row points to a document of its own path and of *)
(* its own hash, and no document is left without one (a ghost result no    *)
(* later Delete could reach).  db.go, UpsertWithMtime and Delete.          *)
CommittedConsistent == Consistent(saved)

(* Nobody sees half of a transaction: a caller without the connection, or  *)
(* one about to read, finds the tables as committed.                       *)
Isolation ==
  /\ conn = NoCaller => docs = saved.docs /\ files = saved.files
  /\ \A c \in Caller : pc[c] \in {"scan", "lookup"} =>
       docs = saved.docs /\ files = saved.files

(* The one connection has one owner, and a call that has returned, with or *)
(* without an error, holds nothing.                                        *)
OneOwner == \A c \in Caller : pc[c] \in Busy <=> conn = c

-----------------------------------------------------------------------------
(* The inductive strengthening of CommittedConsistent: how far the open    *)
(* transaction has come, and what it has left alone.                       *)
Working == [docs |-> docs, files |-> files]

(* A caller's statement fits what it asked for. *)
Stage == \A c \in Caller :
  /\ pc[c] = "idle" <=> req[c] = NoRequest
  /\ pc[c] = "idle" <=> ret[c] # Running
  /\ pc[c] \in InTx => req[c].op \in {"upsert", "delete"}
  /\ pc[c] \in {"insertDoc", "putFile"} => req[c].op = "upsert"
  /\ pc[c] = "dropFile" => req[c].op = "delete"
  /\ pc[c] = "scan" => req[c].op = "search"

(* Apart from path p the transaction has changed nothing, and what it has  *)
(* not changed is still consistent.                                        *)
Untouched(p) == \A q \in Path \ {p} :
  /\ files[q] = saved.files[q]
  /\ files[q] # NoRow => docs[files[q].rowid] = saved.docs[files[q].rowid]

ConsistentBut(p) ==
  /\ \A q \in Path \ {p} : files[q] # NoRow =>
       docs[files[q].rowid] # NoRow /\ docs[files[q].rowid].path = q
  /\ \A r \in Rowid : docs[r] # NoRow /\ docs[r].path # p => Linked(Working, r)

(* The content asked for is not what is indexed under its path. *)
Differs(r) == saved.files[r.path] # NoRow =>
                saved.files[r.path].hash # contentHash[r.content]

(* What the transaction of request r amounts to once it may commit. *)
Done(r) ==
  LET row == files[r.path] IN
  IF r.op = "delete" THEN row = NoRow
  ELSE /\ row # NoRow
       /\ docs[row.rowid].content = r.content
       /\ \/ Working = saved
          \/ Differs(r) /\ row.mtime = r.mtime

Progress == \A c \in Caller :
  LET p == req[c].path IN
  /\ pc[c] \in {"lookup", "deleteDoc", "scan"} => Working = saved
  /\ pc[c] \in {"insertDoc", "putFile", "dropFile"} => files = saved.files
  /\ pc[c] = "deleteDoc" =>
       /\ files[p] # NoRow /\ existing = files[p].rowid
       /\ req[c].op = "upsert" => Differs(req[c])
  /\ pc[c] \in {"insertDoc", "putFile"} => Differs(req[c])
  /\ pc[c] \in {"insertDoc", "putFile", "dropFile", "commit"} =>
       Untouched(p) /\ ConsistentBut(p)
  /\ pc[c] \in {"insertDoc", "dropFile"} =>
       \A r \in Rowid : docs[r] # NoRow => docs[r].path # p
  /\ pc[c] = "putFile" =>
       /\ new \in Rowid
       /\ docs[new] = [path |-> p, content |-> req[c].content]
       /\ \A r \in Rowid : docs[r] # NoRow /\ docs[r].path = p => r = new
  /\ pc[c] = "commit" => Consistent(Working) /\ Done(req[c])

(* CommittedConsistent is not inductive: whether a Commit keeps it depends *)
(* on how far each statement before it has brought the working tables.     *)
IndInv == TypeOK /\ Stage /\ OneOwner /\ Isolation /\ CommittedConsistent /\ Progress

-----------------------------------------------------------------------------
(* A call answers, even if others keep calling and statements fail: no     *)
(* path through the store keeps the one connection for good.               *)
EveryCallReturns == \A c \in Caller : pc[c] = "begin" ~> pc[c] = "idle"

(* The store implements the atomic map of IndexMap. *)
index == [p \in Path |->
            IF saved.files[p] = NoRow THEN NoRow
            ELSE [content |-> saved.docs[saved.files[p].rowid].content,
                  mtime |-> saved.files[p].mtime]]

Map == INSTANCE IndexMap WITH Size <- Cardinality

ImplementsMap == Map!Spec
=============================================================================
