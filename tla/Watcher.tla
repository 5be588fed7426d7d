------------------------------- MODULE Watcher -------------------------------
(***************************************************************************)
(* How the index follows the file system under one root: the bulk indexer  *)
(* (indexer.Run, one goroutine per file) walks the tree once, while the    *)
(* watcher (watcher.Run) collects fsnotify events, waits until none came   *)
(* for batchDelay, and then deletes or re-indexes the paths it collected.  *)
(* The store is the atomic map that IndexStore implements.                 *)
(***************************************************************************)
EXTENDS Naturals, Sequences, FiniteSets

CONSTANTS Path,        \* files with an extension both packages support
          Excluded,    \* those the bulk walk skips (excluded directories, secrets)
          Content,
          Dir, Root, dirOf,  \* directories, and the one each file is in
          NoFile,      \* no such file; nothing indexed; no pending operation
          Off,         \* the debounce timer is stopped
          Delay,       \* batchDelay, in ticks
          MaxWatched,  \* maxWatchedDirs
          QueueCap,    \* the events the kernel queues before it drops some
          MaxChanges,  \* bound: changes of the file system
          MaxRestarts, \* bound: restarts of the process
          MaxErrors    \* bound: operations of the watcher that fail

ASSUME PathAssumption == /\ dirOf \in [Path -> Dir] /\ Root \in Dir
                         /\ Path \cap Dir = {}
                         /\ Excluded \subseteq Path
                         /\ NoFile \notin Content \cup Path \cup {"delete", "index"}

ASSUME LimitAssumption == /\ Delay \in Nat /\ QueueCap \in Nat
                          /\ Off \notin Nat

VARIABLES fs,        \* fs[p]: the content of file p, or NoFile
          dirs,      \* the directories that exist
          watched,   \* the directories fsnotify watches
          queue,     \* events not yet received from fsw.Events
          pending,   \* pending[p]: "delete", "index" or NoFile
          timer,     \* ticks until timer.C fires, or Off
          pc,        \* where Run is
          cur,       \* the path flush works on, and the content it has read
          index,     \* index[p]: the content indexed under p, or NoFile
          scan,      \* scan[p]: the bulk indexer's goroutine for p
          stale,     \* paths flush has changed in the index but not invalidated
          missed,    \* ghost: paths whose last change went unnoticed, or failed
          changes, restarts, errors  \* counters for the bounds

disk    == <<fs, dirs>>
run     == <<pending, timer, pc, cur>>
bounds  == <<changes, restarts, errors>>
vars    == <<fs, dirs, watched, queue, pending, timer, pc, cur, index, scan, stale, missed,
             changes, restarts, errors>>

Nothing   == [p \in Path |-> NoFile]
NoJob     == [path |-> NoFile, content |-> NoFile]
Unscanned == [state |-> "todo", content |-> NoFile, overtaken |-> FALSE]
Scanned   == [state |-> "done", content |-> NoFile, overtaken |-> FALSE]
Event     == [name : Path \cup Dir, kind : {"create", "write", "remove"}]

(* p will be looked at again: an event for it waits, or a batch holds it. *)
Noticed(p) == \/ \E i \in 1 .. Len(queue) : queue[i].name = p
              \/ pending[p] # NoFile

-----------------------------------------------------------------------------
(* The file system, and what fsnotify tells of it.                         *)

Heard(d) == d \in watched /\ Len(queue) < QueueCap

Notify(d, name, kind) ==
  queue' = IF Heard(d) THEN Append(queue, [name |-> name, kind |-> kind]) ELSE queue

(* The bulk walk is still to read p, and no older event and no older read  *)
(* of flush will undo that.                                                *)
WillBeScanned(p) == /\ scan[p].state = "todo" /\ p \notin Excluded
                    /\ ~Noticed(p) /\ (pc = "upsert" => cur.path # p)

Change == changes < MaxChanges /\ changes' = changes + 1

WriteFile(p, c) ==
  /\ dirOf[p] \in dirs /\ fs[p] # c
  /\ Change
  /\ fs' = [fs EXCEPT ![p] = c]
  /\ Notify(dirOf[p], p, IF fs[p] = NoFile THEN "create" ELSE "write")
  /\ missed' = IF Heard(dirOf[p]) \/ WillBeScanned(p) THEN missed \ {p} ELSE missed \cup {p}
  /\ UNCHANGED <<dirs, watched, run, index, scan, stale, restarts, errors>>

RemoveFile(p) ==
  /\ fs[p] # NoFile
  /\ Change
  /\ fs' = [fs EXCEPT ![p] = NoFile]
  /\ Notify(dirOf[p], p, "remove")
  /\ missed' = IF Heard(dirOf[p]) THEN missed \ {p} ELSE missed \cup {p}
  /\ UNCHANGED <<dirs, watched, run, index, scan, stale, restarts, errors>>

MakeDir(d) ==
  /\ d \notin dirs
  /\ Change
  /\ dirs' = dirs \cup {d}
  /\ Notify(Root, d, "create")
  /\ UNCHANGED <<fs, watched, run, index, scan, stale, missed, restarts, errors>>

(* A directory is moved out of the root: one event, for the directory. *)
MoveDirAway(d) ==
  LET inside == {p \in Path : dirOf[p] = d /\ fs[p] # NoFile} IN
  /\ d \in dirs \ {Root}
  /\ Change
  /\ dirs' = dirs \ {d}
  /\ watched' = watched \ {d}
  /\ fs' = [p \in Path |-> IF p \in inside THEN NoFile ELSE fs[p]]
  /\ Notify(Root, d, "remove")
  /\ missed' = missed \cup inside
  /\ UNCHANGED <<run, index, scan, stale, restarts, errors>>

-----------------------------------------------------------------------------
(* watcher.Run: the select loop.                                           *)

(* addDirsRecursive: at most maxWatchedDirs directories in walk order,     *)
(* which starts at the root.                                               *)
AddDirs ==
  /\ pc = "start"
  /\ \E D \in SUBSET dirs :
       /\ Root \in D
       /\ Cardinality(D) = (IF Cardinality(dirs) > MaxWatched THEN MaxWatched
                                                              ELSE Cardinality(dirs))
       /\ watched' = D
  /\ pc' = "select"
  /\ UNCHANGED <<disk, queue, pending, timer, cur, index, scan, stale, missed, bounds>>

(* One fsw.Add fails (no watch descriptor left): WalkDir stops and Run     *)
(* returns, closing the watches it had.                                    *)
AddDirsFails ==
  /\ pc = "start" /\ errors < MaxErrors
  /\ errors' = errors + 1
  /\ pc' = "dead"
  /\ UNCHANGED <<disk, watched, queue, pending, timer, cur, index, scan, stale, missed,
                 changes, restarts>>

(* A new directory is watched from here on; its event goes no further. *)
DirEvent ==
  /\ pc = "select" /\ queue # <<>> /\ Head(queue).name \in Dir
  /\ LET e == Head(queue) IN
     watched' = IF e.kind = "create" /\ e.name \in dirs THEN watched \cup {e.name} ELSE watched
  /\ queue' = Tail(queue)
  /\ UNCHANGED <<disk, run, index, scan, stale, missed, bounds>>

(* Mutants of FileEvent: the batch holds the operation of the event itself; *)
(* the first event of a batch decides what is done with its path; a removal *)
(* does not start the timer.                                                *)
FileEventUnmapped ==
  /\ pc = "select" /\ queue # <<>> /\ Head(queue).name \in Path
  /\ pending' = [pending EXCEPT ![Head(queue).name] = Head(queue).kind]
  /\ timer' = Delay
  /\ queue' = Tail(queue)
  /\ UNCHANGED <<disk, watched, pc, cur, index, scan, stale, missed, bounds>>

FileEventFirstWins ==
  /\ pc = "select" /\ queue # <<>> /\ Head(queue).name \in Path
  /\ LET e == Head(queue) IN
     pending' = [pending EXCEPT ![e.name] =
                   IF @ # NoFile THEN @ ELSE IF e.kind = "remove" THEN "delete" ELSE "index"]
  /\ timer' = Delay
  /\ queue' = Tail(queue)
  /\ UNCHANGED <<disk, watched, pc, cur, index, scan, stale, missed, bounds>>

FileEventUntimedRemoval ==
  /\ pc = "select" /\ queue # <<>> /\ Head(queue).name \in Path
  /\ LET e == Head(queue) IN
     /\ pending' = [pending EXCEPT ![e.name] = IF e.kind = "remove" THEN "delete" ELSE "index"]
     /\ timer' = IF e.kind = "remove" THEN timer ELSE Delay
  /\ queue' = Tail(queue)
  /\ UNCHANGED <<disk, watched, pc, cur, index, scan, stale, missed, bounds>>

(* Any event for a file restarts the one timer of the root. *)
FileEvent ==
  /\ pc = "select" /\ queue # <<>> /\ Head(queue).name \in Path
  /\ LET e == Head(queue) IN
     pending' = [pending EXCEPT ![e.name] = IF e.kind = "remove" THEN "delete" ELSE "index"]
  /\ timer' = Delay
  /\ queue' = Tail(queue)
  /\ UNCHANGED <<disk, watched, pc, cur, index, scan, stale, missed, bounds>>

Tick == /\ timer # Off /\ timer > 0
        /\ timer' = timer - 1
        /\ UNCHANGED <<disk, watched, queue, pending, pc, cur, index, scan, stale, missed, bounds>>

TimerFires ==
  /\ pc = "select" /\ timer = 0
  /\ timer' = Off
  /\ pc' = "flush"
  /\ UNCHANGED <<disk, watched, queue, pending, cur, index, scan, stale, missed, bounds>>

-----------------------------------------------------------------------------
(* flush: first the deletes, then the files to index.  `pending` holds     *)
(* what is left of the batch; no event enters it before flush returns.     *)

Deletes == {p \in Path : pending[p] = "delete"}
Indexes == {p \in Path : pending[p] = "index"}

Overtake(p) == scan' = [scan EXCEPT ![p].overtaken = @ \/ scan[p].state = "read"]

(* Mutant of FlushDelete: the cache is not told. *)
FlushDeleteSilently(p) ==
  /\ pc = "flush" /\ p \in Deletes
  /\ pending' = [pending EXCEPT ![p] = NoFile]
  /\ index' = [index EXCEPT ![p] = NoFile]
  /\ stale' = stale \cup {p}
  /\ Overtake(p)
  /\ UNCHANGED <<disk, watched, queue, timer, pc, cur, missed, bounds>>

FlushDelete(p) ==
  /\ pc = "flush" /\ p \in Deletes
  /\ pending' = [pending EXCEPT ![p] = NoFile]
  /\ index' = [index EXCEPT ![p] = NoFile]
  /\ stale' = stale \cup {p}
  /\ Overtake(p)
  /\ cur' = [path |-> p, content |-> NoFile]
  /\ pc' = "invalidate"
  /\ UNCHANGED <<disk, watched, queue, timer, missed, bounds>>

(* IndexFile, first half: stat and extractText. *)
FlushRead(p) ==
  /\ pc = "flush" /\ Deletes = {} /\ p \in Indexes
  /\ fs[p] # NoFile
  /\ pending' = [pending EXCEPT ![p] = NoFile]
  /\ cur' = [path |-> p, content |-> fs[p]]
  /\ pc' = "upsert"
  /\ UNCHANGED <<disk, watched, queue, timer, index, scan, stale, missed, bounds>>

FlushUpsert ==
  LET p == cur.path IN
  /\ pc = "upsert"
  /\ index' = [index EXCEPT ![p] = cur.content]
  /\ stale' = stale \cup {p}
  /\ Overtake(p)
  /\ pc' = "invalidate"
  /\ UNCHANGED <<disk, watched, queue, pending, timer, cur, missed, bounds>>

(* cache.InvalidateByPath after a successful operation. *)
FlushInvalidate ==
  /\ pc = "invalidate"
  /\ stale' = stale \ {cur.path}
  /\ cur' = NoJob
  /\ pc' = "flush"
  /\ UNCHANGED <<disk, watched, queue, pending, timer, index, scan, missed, bounds>>

(* Mutant of FlushGone: the path stays in the batch until the file is back. *)
FlushGoneRetries(p) ==
  /\ pc = "flush" /\ Deletes = {} /\ p \in Indexes
  /\ fs[p] = NoFile
  /\ UNCHANGED vars

(* The file is gone when flush stats it: logged, dropped. *)
FlushGone(p) ==
  /\ pc = "flush" /\ Deletes = {} /\ p \in Indexes
  /\ fs[p] = NoFile
  /\ pending' = [pending EXCEPT ![p] = NoFile]
  /\ UNCHANGED <<disk, watched, queue, timer, pc, cur, index, scan, stale, missed, bounds>>

(* Any other error, of the file or of the database: logged, dropped. *)
Dropped(p) == /\ errors < MaxErrors
              /\ errors' = errors + 1
              /\ pc' = "flush"
              /\ cur' = NoJob
              /\ missed' = IF \E i \in 1 .. Len(queue) : queue[i].name = p
                           THEN missed ELSE missed \cup {p}
              /\ UNCHANGED <<disk, watched, queue, timer, index, scan, stale, changes, restarts>>

FlushFails(p) ==
  /\ pc = "flush"
  /\ p \in Deletes \/ (Deletes = {} /\ p \in Indexes)
  /\ pending' = [pending EXCEPT ![p] = NoFile]
  /\ Dropped(p)

UpsertFails == /\ pc = "upsert"
               /\ Dropped(cur.path)
               /\ UNCHANGED pending

FlushReturns ==
  /\ pc = "flush" /\ pending = Nothing
  /\ pc' = "select"
  /\ UNCHANGED <<disk, watched, queue, pending, timer, cur, index, scan, stale, missed, bounds>>

-----------------------------------------------------------------------------
(* indexer.Run: the walk finds p and a goroutine indexes it.               *)

ScanRead(p) ==
  /\ scan[p].state = "todo" /\ fs[p] # NoFile /\ p \notin Excluded
  /\ scan' = [scan EXCEPT ![p].state = "read", ![p].content = fs[p]]
  /\ UNCHANGED <<disk, watched, queue, run, index, stale, missed, bounds>>

(* The walk passes the place of a file that is not there, or skips it. *)
ScanSkip(p) ==
  /\ scan[p].state = "todo"
  /\ fs[p] = NoFile \/ p \in Excluded
  /\ scan' = [scan EXCEPT ![p] = Scanned]
  /\ UNCHANGED <<disk, watched, queue, run, index, stale, missed, bounds>>

(* The goroutine writes what it has read; nobody tells the cache. *)
ScanUpsert(p) ==
  /\ scan[p].state = "read"
  /\ index' = [index EXCEPT ![p] = scan[p].content]
  /\ scan' = [scan EXCEPT ![p] = Scanned]
  /\ missed' = IF scan[p].overtaken /\ ~Noticed(p) THEN missed \cup {p} ELSE missed
  /\ UNCHANGED <<disk, watched, queue, run, stale, bounds>>

(* An entry the walk cannot read, or whose size or kind it passes over, a  *)
(* file that cannot be read, a row that cannot be written: counted or not, *)
(* never tried again.  A whole directory may fail so, and nothing bounds   *)
(* how many files do: each is tried once in a run.                         *)
ScanFails(p) ==
  /\ scan[p].state \in {"todo", "read"} /\ p \notin Excluded
  /\ scan' = [scan EXCEPT ![p] = Scanned]
  /\ missed' = IF index[p] = fs[p] \/ Noticed(p) \/ (pc = "upsert" /\ cur.path = p)
               THEN missed ELSE missed \cup {p}
  /\ UNCHANGED <<disk, watched, queue, run, index, stale, bounds>>

-----------------------------------------------------------------------------
(* The process ends and starts again: the index stays, the cache is empty, *)
(* the walk starts over but looks only at files that exist.                *)
Restart ==
  /\ restarts < MaxRestarts
  /\ restarts' = restarts + 1
  /\ watched' = {} /\ queue' = <<>>
  /\ pending' = Nothing /\ timer' = Off /\ pc' = "start" /\ cur' = NoJob
  /\ scan' = [p \in Path |-> Unscanned]
  /\ stale' = {}
  /\ missed' = {p \in Path : /\ index[p] # fs[p]
                             /\ fs[p] = NoFile \/ p \in Excluded}
  /\ UNCHANGED <<disk, index, changes, errors>>

(* A first start, on whatever is in the tree. *)
Init ==
  /\ dirs \in {D \in SUBSET Dir : Root \in D}
  /\ fs \in {f \in [Path -> Content \cup {NoFile}] :
               \A p \in Path : dirOf[p] \notin dirs => f[p] = NoFile}
  /\ watched = {} /\ queue = <<>>
  /\ pending = Nothing /\ timer = Off /\ pc = "start" /\ cur = NoJob
  /\ index = Nothing
  /\ scan = [p \in Path |-> Unscanned]
  /\ stale = {}
  /\ missed = {p \in Path : fs[p] # NoFile /\ p \in Excluded}
  /\ changes = 0 /\ restarts = 0 /\ errors = 0

User == \/ \E p \in Path, c \in Content : WriteFile(p, c)
        \/ \E p \in Path : RemoveFile(p)
        \/ \E d \in Dir : MakeDir(d) \/ MoveDirAway(d)

Flushing == \/ FlushUpsert \/ FlushInvalidate \/ FlushReturns \/ UpsertFails
            \/ \E p \in Path : FlushDelete(p) \/ FlushRead(p) \/ FlushGone(p) \/ FlushFails(p)

Watching == AddDirs \/ AddDirsFails \/ DirEvent \/ FileEvent \/ TimerFires \/ Flushing

Scanning(p) == ScanRead(p) \/ ScanSkip(p) \/ ScanUpsert(p) \/ ScanFails(p)

Next == User \/ Watching \/ Tick \/ Restart \/ \E p \in Path : Scanning(p)

Spec == Init /\ [][Next]_vars

(* The goroutine of the watcher runs on, and a select with two cases ready *)
(* picks either; the clock goes on; every goroutine of the pool gets on.   *)
Fairness == /\ WF_vars(AddDirs) /\ WF_vars(DirEvent \/ FileEvent)
            /\ WF_vars(TimerFires) /\ WF_vars(Flushing)
            /\ WF_vars(Tick)
            /\ \A p \in Path : WF_vars(Scanning(p))

FairSpec == Spec /\ Fairness

-----------------------------------------------------------------------------
TypeOK ==
  /\ fs \in [Path -> Content \cup {NoFile}]
  /\ dirs \subseteq Dir /\ watched \subseteq Dir
  /\ queue \in Seq(Event) /\ Len(queue) <= QueueCap
  /\ pending \in [Path -> {"delete", "index", NoFile}]
  /\ timer \in {Off} \cup 0 .. Delay
  /\ pc \in {"start", "select", "flush", "upsert", "invalidate", "dead"}
  /\ cur \in [path : Path \cup {NoFile}, content : Content \cup {NoFile}]
  /\ index \in [Path -> Content \cup {NoFile}]
  /\ scan \in [Path -> [state : {"todo", "read", "done"}, content : Content \cup {NoFile},
                        overtaken : BOOLEAN]]
  /\ stale \subseteq Path /\ missed \subseteq Path
  /\ changes \in Nat /\ restarts \in Nat /\ errors \in Nat

Quiet == /\ pc = "select" /\ queue = <<>> /\ pending = Nothing
         /\ \A p \in Path : scan[p].state = "done"

(* When the watcher has nothing left to do, the index says of every file   *)
(* what the file system says, unless its last change went unnoticed: in a  *)
(* directory without a watch, with the kernel's queue full, in a directory *)
(* moved away, before a walk that only looks at files that exist, or under *)
(* a bulk-indexer goroutine that wrote later what it had read earlier; or  *)
(* unless the one attempt on it failed, in flush or in the bulk indexer,   *)
(* neither of which tries again.                                           *)
Settled == Quiet => \A p \in Path \ missed : index[p] = fs[p]

(* No event is forgotten: a path in the batch or a batch to flush implies  *)
(* a timer that will fire, as watcher.Run resets it with every event.      *)
BatchIsTimed == pc = "select" /\ pending # Nothing => timer # Off

(* Between two paths flush owes the cache nothing: whatever it changed in  *)
(* the index it has told the cache about.                                  *)
FlushTellsCache == pc \in {"select", "flush"} => stale = {}

(* If changes stop, the index comes to agree with the files for good, but  *)
(* for the paths in `missed`: those whose last change went unnoticed and   *)
(* those on which flush or the bulk indexer failed once.                   *)
Converges == <>[](\A p \in Path \ missed : index[p] = fs[p])
=============================================================================
