------------------------------ MODULE IndexMap ------------------------------
(***************************************************************************)
(* What internal/db promises its callers about the index: a map from paths *)
(* to what is indexed under them.  A call takes effect at one instant and  *)
(* then answers "ok", or has no effect at all and answers "err"; a query   *)
(* answers from the map as it is at one instant, one row for each path.    *)
(***************************************************************************)
EXTENDS Naturals

CONSTANTS Path,      \* the paths of files
          Caller,    \* the goroutines that call the store
          Request,   \* what a caller may ask for
          NoRequest, \* the caller asks for nothing
          Size(_),   \* the number of elements of a finite set
          NoRow      \* "nothing is indexed under this path"

VARIABLES index,     \* index[p]: what is indexed under p, or NoRow
          req,       \* req[c]: what c is asking for
          ret        \* ret[c]: what the store answered c

vars == <<index, req, ret>>

Answer(status, paths, rows) == [status |-> status, paths |-> paths, rows |-> rows]

Silent   == Answer("none", {}, 0)      \* no call, or a call cut by a crash
Running  == Answer("running", {}, 0)
Ok       == Answer("ok", {}, 0)
Err      == Answer("err", {}, 0)

(* The paths a query finds: their content matches, and they are no older  *)
(* than `since` when the query has a date filter (since > 0).              *)
Found(q, since) ==
  {p \in Path : /\ index[p] # NoRow
                /\ index[p].content \in q
                /\ index[p].mtime >= since}

Init == /\ index = [p \in Path |-> NoRow]
        /\ req = [c \in Caller |-> NoRequest]
        /\ ret = [c \in Caller |-> Silent]

Call(c) == /\ ret[c] # Running
           /\ \E r \in Request : req' = [req EXCEPT ![c] = r]
           /\ ret' = [ret EXCEPT ![c] = Running]
           /\ UNCHANGED index

Return(c, answer) == /\ req' = [req EXCEPT ![c] = NoRequest]
                     /\ ret' = [ret EXCEPT ![c] = answer]

(* Put overwrites, except that content equal to what is indexed leaves the *)
(* entry alone, its modification time included.                            *)
Put(c) ==
  LET r == req[c] IN
  /\ ret[c] = Running /\ r.op = "upsert"
  /\ index' = IF index[r.path] # NoRow /\ index[r.path].content = r.content
              THEN index
              ELSE [index EXCEPT ![r.path] = [content |-> r.content, mtime |-> r.mtime]]
  /\ Return(c, Ok)

Remove(c) ==
  /\ ret[c] = Running /\ req[c].op = "delete"
  /\ index' = [index EXCEPT ![req[c].path] = NoRow]
  /\ Return(c, Ok)

Find(c) ==
  LET found == Found(req[c].query, req[c].since) IN
  /\ ret[c] = Running /\ req[c].op = "search"
  /\ Return(c, Answer("ok", found, Size(found)))
  /\ UNCHANGED index

Fail(c) == /\ ret[c] = Running
           /\ Return(c, Err)
           /\ UNCHANGED index

Crash == /\ ret' = [c \in Caller |-> Silent]
         /\ req' = [c \in Caller |-> NoRequest]
         /\ UNCHANGED index

Next == \/ \E c \in Caller : Call(c) \/ Put(c) \/ Remove(c) \/ Find(c) \/ Fail(c)
        \/ Crash

Spec == Init /\ [][Next]_vars
=============================================================================
