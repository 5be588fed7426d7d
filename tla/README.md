# Filesearch: formal models

TLA+ models, TLC runs and TLAPS proofs for `src/file_search`, a Go program that
indexes the text of a user's files in SQLite (FTS5) and answers searches over
HTTP on localhost. The modules are translated from the Go source; file names
below are relative to `src/file_search/`.

    tlc -workers 4 -config Watcher.cfg MCWatcher      # one run
    tlapm IndexStoreProofs.tla                        # one proof module

`PROJECT.json` lists the runs, the lines each definition models (`map`), a
mutant for every property, the findings, the hazards and the theorems.


## 1. Inventory

| component | state it keeps | operations | what makes it correct |
|---|---|---|---|
| index store, `internal/db/db.go` | tables `documents` (FTS5) and `files`, one SQLite connection | `UpsertWithMtime`, `Delete`, `Search`, `Count`, `New`/`migrate`, `Checkpoint`, `Optimize` | the two tables agree whenever committed; a call is atomic; the connection is always given back |
| search cache, `internal/cache/cache.go` | hash map, doubly linked list, size, mutex | `Get`, `Set`, `InvalidateByPath`, `Flush` | bounded; evicts the least recently used; no entry served after its expiry; map and list in step |
| bulk indexer, `internal/indexer/indexer.go` | semaphore, wait group, atomic counters | `Run` (walk and one goroutine per file), `IndexFile` | no supported file is left out; slots are given back; what it reports is final; cancellation ends it |
| file watcher, `internal/watcher/watcher.go` | fsnotify watches, batch of pending operations, one timer | event loop of `Run`, `flush`, `addDirsRecursive` | the index comes to agree with the files; no batch is forgotten |
| search handler, `internal/server/server.go` `handleSearch` | its locals | cache, `Search`, `Count`, cache, response, audit goroutine | answers are no older than the cache's TTL |
| settings, `handleSettings`, `internal/config`, `dirChangeCh` | server's directories and mode (`Server.mu`), manager's copy (`Manager.mu`), `config.json`, a channel of 4 | `POST /api/settings`, `AddDir`, `SetModeOverride`, `save`, the goroutine of `main.go` that takes from the channel | the three copies agree; what was saved survives; a directory accepted is watched |
| process, `cmd/server/main.go`, `Server.Run`, `Server.Shutdown` | signal context, `httpSrv`, database handle | start, serve, shut down | requests are served until shutdown; a signal stops the process |
| semantic search, `internal/embedder`, `db/vectors.go` | vectors table, failures by path | embed what has no vector; cosine ranking | every indexed file is embedded or given up; what has a vector is left alone; the loop comes to rest |
| rate limiter, `internal/server/middleware.go` | token bucket per address, eviction goroutine | `get`, `allow`, evict, `Stop`; CSRF decision | an address is served at its rate, evictions or not; idle buckets go |
| schema migration, `DB.migrate` | `user_version` | three versions | a stamped schema is complete, whatever start died or failed on the way |
| data migration, `internal/paths` | old and new data directories | copy to `.tmp`, rename, at every start | nothing in use overwritten, no torn copy used |
| audit log, `internal/db/audit.go` | table `audit_logs` | insert, list, export | - |
| log rotation, `internal/logger` | log, numbered backups, `size`, mutex | `newRotatingWriter`, `Write`, `rotate` | log and backups are the newest lines, in order, and bounded |
| hardware profile, path checks, extraction, web page | none | pure functions, browser code | - |

How they interact. `main` opens the store, starts for every root a bulk indexer
and a watcher (two goroutines that are not synchronised), and serves HTTP. All
of them share the store's single connection, a mutex in effect. Handlers and
the watcher share the cache; only the watcher's `flush` invalidates it, after
the store has committed; the bulk indexer never does. `handleSettings` changes
two locked copies of the configuration in turn and passes new directories
through a channel to `main`'s dispatcher, which starts an indexer and then a
watcher for each.

What is hard here, and unit tests hardly reach: a search that reads before a
write and caches after it; two goroutines, indexer and watcher, that work on
one file; a batch of events behind one timer; failing statements inside a
transaction on the only connection; a crash between write and rename of
`config.json`, or between two statements of a schema migration; a signal during start
or while requests are being drained; files that come, go and fail under the
embedder's loop; overlapping runs of the bulk indexer with errors anywhere in the walk;
a bucket evicted under the request that holds it; a log that is open elsewhere when
it is to be renamed. The hazards with their lines are in `PROJECT.json`.


## 2. Modules

| module | models | role |
|---|---|---|
| `IndexMap` | what `internal/db` promises: an atomic map from paths to (content, mtime) | abstract specification |
| `IndexStore` | `UpsertWithMtime`, `Delete`, `Search` statement by statement | implements `IndexMap` |
| `IndexStoreProofs` | | theorems about `IndexStore` |
| `CacheParameters` | constants of the cache and their assumptions | shared |
| `LruCache` | what `internal/cache` promises: LRU map with expiry | abstract specification |
| `LinkedCache` | `cache.go` pointer by pointer | implements `LruCache` |
| `CacheProofs` | | theorems about `LruCache` and `LinkedCache` |
| `Watcher` | watcher and bulk indexer of one root, file system, fsnotify | composes with the atomic index |
| `WatcherProofs` | | theorems about `Watcher` |
| `SearchService` | `handleSearch`, `flush` and the bulk indexer around cache and index | instantiates `LruCache` |
| `SearchServiceProofs` | | theorems about `SearchService` |
| `Settings` | `handleSettings`, `internal/config`, `dirChangeCh`, restarts | |
| `SettingsProofs` | | theorems about `Settings` |
| `Lifecycle` | `main`, the signal goroutine, `Server.Run` and `Shutdown` | |
| `Startup` | `paths.MigrateIfNeeded`, `config.Load`, `db.New`/`migrate` over several starts | |
| `StartupProofs` | | theorems about `Startup` |
| `Embedder` | `embedder.BackgroundIndexer.Run` and `db/vectors.go` | |
| `BulkIndexer` | `indexer.Run` for several directories at once, `main`'s goroutine around it | what `Watcher` takes as one goroutine per file |
| `BulkIndexerProofs` | | theorems about `BulkIndexer` |
| `RateMeter` | what the rate limiter promises: one bucket per address for ever | abstract specification |
| `RateLimiter` | `middleware.go`: CSRF, `get`, `allow`, the evictor | implements `RateMeter` |
| `LogRotation` | `internal/logger` on Windows, with two processes and a reader | |
| `ProcessProofs` | | theorems about `Lifecycle`, `Embedder`, `LogRotation` and `RateLimiter` |
| `MC...` | constants of the runs | |

The layers hide each other's detail on purpose: `IndexStore` shows that the
store is an atomic map, so `Watcher` and `SearchService` use the map, a
function `index`; `LinkedCache` shows that the cache is an LRU map, so
`SearchService` uses that. `ProcessProofs` extends four modules that share nothing, so
their variables and the names every specification has (`Init`, `Next`, `Spec`, `TypeOK`) carry
a prefix there: `LogInit`, `RateSpec`, `EmbedderTypeOK`, ...

### IndexStore

`docs` is the table `documents` by rowid, `files` the table `files` by path;
`saved` is what the last commit wrote, the state a rollback or a crash returns
to. `conn` is `SetMaxOpenConns(1)`: `Begin` is `BeginTx`, or the implicit
acquisition by `QueryContext`. `pc[c]` names the next SQL statement of caller
`c`: `Lookup` (the `SELECT` with its hash comparison), `DeleteDoc`,
`InsertDoc`, `PutFile` (the `INSERT ... ON CONFLICT`), `DropFile`, `Commit`,
`Scan`. `Fail` is any statement that returns an error: the deferred `Rollback`
runs and the connection is free again. `GiveUp` is a context that ends while
the caller waits. `Crash` may come anywhere. A document's text is a model value, the
hash a constant function assumed injective (SHA-256), a query the set of
contents that match it. `Count` runs the query of `Search` with `COUNT(*)`, so
`Scan` answers both: the set of paths and the number of rows.

### LruCache, LinkedCache

Every exported method of `cache.go` holds the mutex from its first to its last
statement, so each is one step, but for `InvalidateByPath`: it ranges over the map while it
removes from the list, in an order Go leaves open. `InvalidateByPath` notes in `doomed`
the entries that have the path, and each `RemoveListed` removes one of them; nothing else
happens until none is left (`Does`). What remains is the pointer work. `LinkedCache` keeps a
heap (`items`, `head`, `tail`, `size`, and
`prev`, `next`, `key`, `value`, `exp` by node) and translates `pushFront`,
`unlink`, `moveToFront`, `remove`, `evict` as operators on it. A removed node
is blanked, which is what garbage collection lets the model do. `LruCache`
knows no nodes: `entry` is the map and `newer` the relation "used after".
The refinement mapping reads `newer` off the list, and takes the entries of `doomed` for
gone: nobody can look before the mutex is released. `Reach` is what following a pointer reaches, the least set closed under it.

### Watcher

The environment (`WriteFile`, `RemoveFile`, `MakeDir`, `MoveDirAway`) changes the
file system and, in watched directories and while the kernel's queue has room,
queues an event. `watched` is external to the program (fsnotify), as is the queue. The
program: `AddDirs` is `addDirsRecursive` with `maxWatchedDirs`; `DirEvent` and
`FileEvent` the event case of the `select`; `TimerFires` the timer case;
`Flush...` the calls `flush` makes, in the order it makes them, with reading a
file (`FlushRead`) and writing the index (`FlushUpsert`) apart, because the
file and the bulk indexer go on in between; `Scan...` the walk and one goroutine of the bulk
indexer, `ScanFails` whatever may go wrong there on one path (the walk's error, `Info`, the read,
the upsert), which the code counts and does not try again. Nothing bounds `ScanFails`: a
directory that cannot be listed fails for all its files. `Restart` ends the process and starts it on the same index.

`missed` is a ghost: the paths whose last change reached nobody. It grows only in
the ways the code has for losing a change (no watch, full queue, a directory
moved away, an operation of `flush` or of the bulk indexer that failed, a bulk write that was overtaken,
a file removed while the process was down), and shrinks when a later change
of the path is heard, or the bulk walk will still read the file (`WillBeScanned`) and
neither an event that waits nor a content that `flush` has already read can undo it. Thus
`Settled` says: these are the only ways.

### SearchService

`pc[h]` is the call a handler makes next: `Hit`/`Miss` (`cache.Get`), `DbSearch`,
`DbCount`, `CacheSet`, `Respond`; `DbFails` is the error path. An empty page is
not cached. The writers are `FlushWrite`, then `FlushInvalidate`, of the
watcher, and `BulkWrite`. `page.at`, the time the store was read, and `crossed` and
`excused`, the paths a page may be wrong about, are ghosts.

### Settings

`Post` is what `handleSettings` does under `Server.mu`, `AddDir` and
`SetModeOverride` what the manager does under `Manager.mu` up to `save`,
`WriteTmp` and `Rename` are `save`, `SaveFails` its errors (ignored by the
handler), `Send` the `select` with a `default` on `dirChangeCh`. `Dispatch`, `Indexed` and `IndexFails` are
the goroutines of `main.go`. `Restart` is a crash anywhere and `config.Load`,
`main`'s use of `-dir` included. `hwMode` is the detected mode, or after a
restart the saved override, which `main` passes in its place; `effectiveMode` is the mode the
server works in. `Load` may fail at any start, whatever the file holds: `main` goes on with
`Load("")`, a manager without a path (`pathless`) whose every save fails, since it renames to an
empty name. The file keeps its content, and the next start may find it.

`ModesAgree` compares the mode of the server with the manager's. The ghost `latest` is the request
whose mode the server has and the manager has not yet; `raced` says that the manager
got another, older one after it. Two requests may take the two locks in opposite orders, and then
server and manager differ until the next mode is set or the process starts again:
without the exception for `raced`, TLC shows it in a few steps.

### Lifecycle

`main` goes from `db.New` to the return of `ListenAndServe` and the deferred
`Close`; `waiter` is the goroutine under "Graceful shutdown": wait for the signal,
`srv.Shutdown` with 10 seconds, `Checkpoint`, `Close`. Both run at once. `early` records a signal
that found `httpSrv` not set yet.

### Startup

`old`, `file` and `tmp` are the database and the configuration in the old data
directory, in the platform's, and the latter's `.tmp`. A start goes through
`MigrateIfNeeded` (`Stat`, `StatFails`, `OpenTmp`, `Fill`, `Rename`; `CopyFails` is every error
of `copyFile`, which `main` logs and passes over), or past it when `os.Executable` fails
(`StartUnlocated`), then `LoadConfig`, `OpenDb` (SQLite
creates what is missing and reads `user_version`) and one action per statement of
`migrate`, since none of them is in a transaction. `StatementFails` is an error
that makes `main` exit, `AddMtimeFails` the one that does not, `Stop` the end of the process
anywhere. A database is the tables and the column it has, its documents, its
`files` rows and its version. The ghosts are `failed` (some copy failed or was not tried), `unaltered` (ALTER
TABLE failed on a table without the column), `overlooked` (a file is copied because one of the two
`os.Stat` failed, with an error other than "does not exist" for the old file, any error for the new one)
and a file's `origin`. One process runs at a time: see section 6.

### Embedder

`pc` is where `Run` is: asking for the paths, for the vectors, working on `todo`
file by file (`Read`, `Embed`, `Store` and their failures), asleep, or ended.
`todo` is worked on in any order: the order of `AllPaths` is SQLite's. `vectors` is the
table by `indexed_at`, latest first; `AllVectors` cuts it at `maxVectors`.
`FileChanges`, `IndexAdds` and `IndexDeletes` are the rest of the system. Queries, reads, embeddings and
`UpsertVector` (`StoreFails`) may fail at any time and any number of times; only the failures that
the code counts are counted in `failed`.

### BulkIndexer

`Tree` lists the entries in the order `WalkDir` visits them; `after` is the position behind
an entry's subtree, so that "skip this directory" is a jump. `at[r]` is what the walk of
run `r` comes to next. The callback's cases are `Skip`, `EnterOrPrune`, `CannotStat`
(`Info` fails, or `Lstat` of the root), `CannotList` (`ReadDir` failed and the callback is called
again), `WalkStops` (the context is done) and `Choose`, after which the walk waits in
`Acquire` for a slot. A goroutine is `IndexFile`, `Count`, `Release`, `Done`: the deferred
calls in the order Go runs them. `Start` and `Leave` are `SetIndexing` around it.
`fate` (what became of an entry) and `late` (goroutines begun after the signal) are ghosts.

### RateMeter, RateLimiter

A handler passes `csrfMiddleware` (`Arrive`), takes its bucket (`Get`, under the store's
lock) and asks it (`Allow`, under the bucket's own): two locks, and the evictor may come
between. The sweep holds the store's lock from `SweepBegin` to `SweepEnd`; `Judge` is the idle
test of one bucket, `Evict` its deletion. `heap` holds the buckets that the store or a handler
still refers to, with the time since `last` in place of `last`. `Filled` is the refill. Time is
in ticks and tokens in units, `Cost` of them a token, so that fractions of a
token, which the float has, are there. `RateMeter` gives each address one credit
that fills at the rate; the mapping takes a missing bucket, or one about to be evicted,
for a full one. That is right because a bucket is idle only after the time it
takes to fill (`RateAssumption`: `Capacity <= IdleTime`, in the code half a second against
ten minutes). `free` marks the answers of buckets that were evicted under their request.

### LogRotation

`file[0]` is the log, `file[i]` backup `i`, each the sequence of its lines, which are numbered.
`Write` is the size test, then `Rotate` (`ShiftBackup` and `ShiftLog`, one rename each,
`OpenEmpty`, or `Fallback` when that fails), then `Put`. A rename fails when the file is open
(`ReadLog`, another process) or for any other reason; the code ignores the error. The ghosts
`unmoved`, `shared`, `clashed`, `reopened` and `killed` record what stood in a rotation's way.


## 3. Runs

| run | bounds | shows |
|---|---|---|
| `IndexStore` | 2 callers, 2 paths, 2 contents, mtimes 0 and 1, 3 rowids; any statement may fail, crashes anywhere | `CommittedConsistent`, `Isolation`; refinement of `IndexMap`; every call returns |
| `LinkedCache` | 4 keys, 2 values, 2 paths, 4 nodes, maxSize 3, TTL 1, times 0..2 | `WellFormed`; refinement of `LruCache` |
| `Watcher` | 2 files in 2 directories of which one is watched at first, queue of 1, 2 contents, a restart, an error of the watcher, any errors of the bulk indexer | `Settled`, `BatchIsTimed`, `FlushTellsCache`, `Converges` |
| `SearchService` | 2 handlers, 2 keys, cache of 1, TTL 1, times 0..3, one file, one write by each writer | `BoundedStaleness`, `NoGhostResults`, `TotalCoversPage` |
| `Settings` | 2 handlers, 2 directories, 2 modes, channel of 1, 2 requests, a restart, an error, any loads that fail | `CopiesAgree`, `NoDirForgotten`, `SavedDirsStay`, `ModeSurvives`, `AcceptedIsWatched` |
| `Lifecycle` | 3 clients | `WaiterDrainsFirst`, `SignalStops` |
| `Startup` | 2 documents, 3 starts, 2 errors, no old database or one of 6 shapes of schema 0 to 3 | `StampedIsComplete`, `OldDataIsUsed`, `NothingIsOverwritten` |
| `Embedder` | 3 files, `maxVectors` 2, 2 attempts, 2 changes, a restart, any errors | `StoredIsNotRedone`, `IndexedIsEmbedded`, `Rests` |
| `BulkIndexer` | 2 runs of nested directories, a tree of 8 entries, 2 workers, any error anywhere, a signal | `CountersAreRight`, `ReportIsFinal`, `NothingIsMissed`, `StopsSoon`, `RunsEnd` |
| `RateLimiter` | 2 addresses, 2 handlers, 3 bucket names, 2 ticks per token, burst 1, idle after 2 ticks | refinement of `RateMeter` (`KeepsTheRate`); `GetIsCurrent`, `IdleAreEvicted` |
| `LogRotation` | 2 processes, 2 lines per file, 2 backups, 7 lines | `KeepsNewest`, `KeepsOrder`, `Bounded` |
| `LifecycleClean` | one client | violation, finding 1 |

Why the bounds are enough. *IndexStore*: the connection serialises callers, so
two give every interleaving of a call with another's rollback or crash; two paths
distinguish the path of the transaction from the rest; three rowids let an
upsert insert the new document at a rowid that differs from the old one and
from the other path's. The proofs drop all of these bounds.
*LinkedCache*: three list places are first, middle and last, every case of
`unlink`; the fourth key and node evict. Nodes are symmetric.
*Watcher*: two directories with room for one watch give the cap; a queue of one
fills, and a longer one is the proof's; the batch holds a delete and an index at once. One restart and one error
suffice because neither leaves a trace other than in the index, which starts
arbitrary as far as reached. *SearchService*: staleness needs a reader, a writer and a second reader
of the cached page; two keys for one entry add eviction. The time bound reaches
past TTL plus one request. *Settings*: two requests
interleave on the manager's mutex and overflow a channel of one; the second start
meets every file the first run can leave. *Startup*: the second start meets what a
first one left that failed or died anywhere, the third what a second left of that; the
old databases are of every version, and of version 0 in the three shapes that came
before versions were stamped. *Embedder*: two vectors fill the table, the third
outgrows it; two failures of one path are counted across rounds; failures have no bound. *BulkIndexer*: the tree has
a directory with entries before and after it, an excluded one, a skipped file, and more
files than workers; the second run's root lies in what the first excludes; both add
to one index and one counter. *RateLimiter*: two handlers share an address, so
that one holds an evicted bucket while the other makes a new one; three names suffice
since at most one bucket per handler is evicted and held; two ticks per token give a fraction.
Time has no bound: ages beyond `IdleTime` are one. *LogRotation*: seven lines rotate three times, so
that the oldest backup is overwritten; a third process would do what the second does.

Deadlock checking is off where the modelled inputs run out (`MaxChanges`,
`MaxTime`, `MaxPosts`) or the process ends; there the system really stops.

Each property has a mutant: an operator defined beside the one it replaces, the
code with a plausible mistake (no rollback, an unlink left out, an off-by-one, a
removal that does not start the timer, a mutex not unlocked). With the mutant in
place TLC finds the property violated, so the property does depend on that code.

### Fairness

* `IndexStore`: a statement that was sent finishes or fails (weak), and a waiting
  caller gets the connection (strong): `database/sql` hands a freed connection to
  a waiter it picks at random.
* `Watcher`: weak fairness of each case of the `select` (Go picks at random among
  ready cases), of `flush`, of time, and of each goroutine of the bulk indexer.
  None for the user: changes may stop or go on.
* `Settings`: strong fairness of a handler, which waits for `Manager.mu`: a Go
  mutex is handed to a waiter that starved for 1 ms. Weak fairness of the
  goroutines.
* `Lifecycle`: weak fairness of the two goroutines, none for signal or clients,
  so `Drained` alone may never happen; `DrainTimesOut` is what bounds it.
* `Embedder`: weak fairness of the goroutine as a whole: its calls have timeouts
  and its sleeps end. Nothing makes an embedding or a store succeed rather than fail: where a store
  that fails for ever breaks a promise, `Rests` and `IndexedIsEmbedded` say so.
* `BulkIndexer`: weak fairness of each run's walk and of its goroutines together; reading a
  file ends. None for the signal.
* `RateLimiter`: weak fairness of the evictor and of each handler that has begun; strong
  fairness of time, which the model stops during a sweep (a sweep is short against
  the tick). None for new requests and for `Stop`.
* `Startup` and `LogRotation` have safety properties only.


## 4. Proofs

Every safety property that a run checks is also a theorem, for every value of the constants:
the bounds of the runs (`MaxChanges`, `MaxRestarts`, `MaxErrors`, `MaxTime`, `MaxLine`) are any
numbers in the proofs. A type invariant is proved for each component
(of `LruCache` as a part of `CacheRecencyIsOrder`, of `LinkedCache` as a part of `WellFormed`).
`OneOwner` (`IndexStore`) and `ServedWhileUp` (`Lifecycle`) are proved without being a property of a run.

The assumptions are the named `ASSUME`s of the modules: sentinels are no data, sizes and limits are
numbers, and what is said below of single ones (`TreeAssumption`, `StartupAssumption`,
`RateAssumption`, an injective hash). TLC evaluates them in the runs.

`IndexStoreProofs` proves, for every set of paths, contents, callers, queries
and every bound on rowids:

* `TypeCorrect`, `CommittedIsConsistent`, `TransactionsAreIsolated`;
* `StoreImplementsMap`: `Spec => Map!Spec`, by the mapping `index` of `IndexStore`.

Assumed: the hash is injective and the sentinels are no data (the `ASSUME`s of
the module, which TLC evaluates in the run). `CommittedConsistent` is not
inductive: whether a `Commit` keeps it depends on what every statement before
it did. `IndInv` adds `Stage` (a caller's statement fits its request), `OneOwner`,
`Isolation` and `Progress`, which says for each statement what the open transaction
has changed so far: nothing outside its path, the old document gone before the
new one is there, and at `Commit` tables that are consistent again. Each action has its
lemma; the refinement needs `Done`, the part of `Progress` that says what the
transaction amounts to.

`CacheProofs` proves, for any keys, pages, paths, supply of nodes, size and expiry:

* `ListIsWellFormed`: the list is the same from both ends, has no cycle, holds exactly the nodes the map
  knows, as many as `size` says, and no more than `MaxSize`;
* `ListImplementsLru`: `CacheSpec => Lru!Spec`. Each method is the step of `LruCache` with its name, and so is
  `InvalidateByPath`, whose removals are stutters;
* `CacheIsBounded` and `CacheRecencyIsOrder` of the abstract cache: at most `MaxSize` entries, and `newer`
  a strict total order of exactly the cached keys, so that `SetEvict` finds one victim and one only;
  and with the refinement the same of the list, `ListIsBounded`.

`WellFormed` speaks of reachability and is not inductive: no step's effect on `Reach` can be told from
`Reach`. `CacheInv` says instead that some function `r` ranks the nodes (`Threaded`): `head`
is the least of them, `tail` the greatest, `next` and `prev` point to the neighbours in rank. `pushFront` gives
the new node a rank below all others, `unlink` and `remove` leave the ranks as they are, so
every operator on the heap has its lemma about `Threaded`. `Filed` ties map, keys and `size` to the live
nodes. `newer` of the mapping is read off the ranks (`ReachIs`), whatever they are: this needs that `Reach` from a
node is the nodes of higher rank, by the least node not reached (`LeastNat` of the well-foundedness theorems, in
place of an induction along the list).

`WatcherProofs` proves, for any tree of files and directories, delay, watch cap and queue: `TypeCorrect`,
`BatchesAreTimed`, `CacheIsTold` and `IndexSettles`. `Settled` speaks of a quiet watcher; the invariant
`Follows(p)` says what holds meanwhile of a path whose last change was noticed: the newest event for it, or else the
batch, knows whether the file exists; a content that `flush` or the bulk indexer
has read is the file's, or an event, a batch or `flush` will correct it; and the index agrees, or one of these
is still to come. `InHand` says what `flush` has in hand at each of its calls. The attempt showed a change that an earlier
form of `missed` took for noticed: a file written, unheard, while `flush` held its old content and the bulk walk
had not come to it; `WillBeScanned` now excludes it.

`SettingsProofs` proves, for any number of requests in flight, of directories, failed
saves and restarts, and with no bound on their number: `TypeCorrect`,
`CopiesStayInStep`, `NoDirectoryIsForgotten` and the action properties `NoDirectoryIsLost` and
`ModeOutlivesProcess`. Two parts are added to make the first inductive.
`AskedIsKnown`: a directory a request is about to give to the manager is already in the
server's list, so `AddDir` does not put the manager ahead of the server.
`SaveHoldsConfig`: between `WriteTmp` and `Rename` the temporary file equals the
manager's configuration, since `Manager.mu` is held, and the file on disk lists no
directory the manager lacks, so every rename only adds; a manager without a path renames nothing.
`ModeInv` does the same for the modes: while `latest` is a request, the server's override is that
request's (`LatestIsUnderWay`), so the manager gets the server's mode with it unless an older
request comes after; and `ModeIsOnDisk` carries the mode over to the next process.
`NoDirForgotten` is inductive given the types; each step that takes a directory from one place
(request, channel, indexer, watcher) puts it in the next, or in `lost`.

`ProcessProofs`, part one, proves for any number of clients `LifecycleTypeCorrect`, `WaiterWaits` and
`ServesUntilSignal`. `NoneAfterShutdown` says why no request appears after
`Drained` saw none: the listeners are closed, or the signal came early.
`CalmBeforeSignal` ties requests to a serving `main` with an open database.

`StartupProofs` proves, for any documents, any number of starts, errors and deaths, and
any old database that has what its `user_version` promises (`StartupAssumption`):
`TypeCorrect`, `StampedSchemaIsComplete`, `OldFilesAreUsed` and `NothingInUseIsOverwritten`. `CopyIsWhole` says that
a `.tmp` about to be renamed equals the old file and that nothing is in its place, unless a Stat failed;
`Reached` what the statements before the present one have done, be it in this start or, by
`VersionsHold`, in the start that stamped the version. `OldFirst` says that a start in which, and
before which, no copy has failed has no old file left to copy once it is past `MigrateIfNeeded`.

`BulkIndexerProofs` proves, for any tree, runs and number of workers, `TypeCorrect`,
`CountersAreExact`, `ReportsAreFinal`, `RunsStopSoon` and `WalksAreComplete`. What is
counted is a cardinality, so each step that moves an entry from one set to
another cites what adding or removing one element does to its size. `IndInv`
adds: a walk has started no goroutine at or behind its position (`Ahead`), a goroutine's stage
and its entry's fate fit (`Known`), the statistics count the fates of goroutines that have
counted (`Agree`), and the position lies in the run's subtree, never inside one that was
skipped (`Placed`). `Passed` says that every file before the position has a goroutine, a
fate, or lies below an entry that excuses it; that a jump over a subtree keeps it needs
`TreeAssumption`, which says that subtrees nest.

The second part of `ProcessProofs` proves `EmbedderTypeCorrect` and `StoredIsLeftAlone`, for any files, cap of the query,
attempts, changes, failures and restarts. `EmbedderInv` adds that the file in hand is not in `todo` too, that both have
attempts left, and that no file has two rows (`OneRowEach`). The step that matters is `Store`: the new row goes
to the head and no other row moves towards it (`UpsertVectorRows`), so a file that was beyond
`maxVectors` when the round was put together, and is in it for that, stays beyond.

The third proves, for any number of processes, backups and limit, `LogTypeCorrect`, `FilesAreBounded`,
`LinesInOrder` and `NewestAreKept`. `LogInv` has a part for each: `HandlesInv`, what a process knows of its
handle; `BoundInv`, that whoever writes has counted what is in the log; `OffsetInv`, that a process without
`O_APPEND` writes at the log's end, or rotates next, and that only one rotates at a time, unless
processes have clashed; `OrderInv`; `StagesInv`, that a rotation begins with a full log and finds the place it renames to
empty; `NewestInv`, that a line of backup `j` is followed by those of `j - 1` full files, or of `j - 2` while a rotation has
moved backup `j` and not yet its successor. With it the line that drops off the end has enough newer ones.

The last proves, for any rate, burst, idle time, addresses and finitely many handlers,
`RateTypeCorrect`, `BucketsAreCurrent` and `LimiterImplementsMeter`: `RateSpec => Meter!Spec`. `HandlerInv` ties a
handler's address, bucket and place in the code together, `Owned` says that a bucket serves the
address it was made for, `SweepInv` that a bucket about to be deleted is idle, hence full: with it a deletion
leaves `Credit` as it was. `NameLeft` is the pigeonhole that gives `Get` an unused name.

`SearchServiceProofs` proves, for any queries, finite set of paths, handlers, size and expiry of the cache,
`TypeCorrect`, `StalenessIsBounded`, `GhostsAreExcused` and `TotalsCover`. `HandlerInv` says that what a handler
has read is at most `MaxHandling` old and that each path it lists still matches, is being flushed,
or was crossed by a writer; `EntriesExpire` that an entry expires no later than its
reading plus `MaxHandling` plus the TTL, which hits leave alone. An answer from the cache is then no
older than the bound because a hit is before the expiry. That requests take
at most `MaxHandling` is an assumption of the model, in the guard of `Tick`.

Model-checked only: what needs fairness (`EveryCallReturns`, `Converges`,
`AcceptedIsWatched`, `SignalStops`, `IndexedIsEmbedded`, `Rests`, `RunsEnd`, `IdleAreEvicted`). The prover has no
rule for `ENABLED`, hence none for weak or strong fairness.


## 5. Findings

1. **Shutdown cuts requests** (`main.go:367`). `ListenAndServe` returns when `Shutdown`
   begins; `main` closes the database and returns while requests are drained.
   (`AcceptedAreAnswered`)

More that the passing runs state as exceptions:

* a goroutine of the bulk indexer that read a file before it was deleted inserts it after
  the watcher has deleted it, and nothing removes it again (`indexer.go:349`, `missed` in
  `Settled`);
* an entry that the bulk indexer could not list, read or write is counted and not tried again before the next
  start (`indexer.go:226`, 281, 307); nor is one that `flush` failed on (`watcher.go:144`;
  `missed` in `Settled` and `Converges`);
* two requests that set the mode and overtake each other between `Server.mu` and `Manager.mu` leave server and manager
  with different modes until the next one or the next start (`server.go:662`, `raced` in `CopiesAgree`);
* where `config.json` cannot be read or parsed, the process goes on with the defaults and can save
  nothing (`main.go:202`, `unsaved` in `SavedIsCurrent`, `pathless` in `ModeSurvives`); requests are told "ok" all the same;
* a page read before a deletion and cached after its invalidation lists the file for
  up to 30 s (`server.go:369`, the exceptions of `NoGhostResults`);
* after a restart the saved override is passed as the detected mode, so "auto" leads back to it, and to
  the detected mode only after one more restart (`main.go:265`, the last exception of `ModeSurvives`);
* a request whose bucket is evicted between `get` and `allow` is answered from it, while
  the address gets a full new one (`free` in `KeepsTheRate`); by `GetIsCurrent` no more answers per eviction than handlers;
* a log that is open elsewhere is not renamed, and the next `OpenFile` with `O_TRUNC` empties it
  (`unmoved` in `KeepsNewest`); after a rotation the log is no longer opened to append, so a
  second process overwrites lines (`clashed`); the fallback counts from 0 whatever it finds
  (`reopened` in `Bounded`); when both opens fail the file is nil for good, since the size that
  would rotate again grows by writes only (`logger.go:107`);
* a signal before `Run` has set `httpSrv` is used up, and the server then runs on
  a closed database (`early` in `SignalStops`);
* a directory that finds `dirChangeCh` full is saved but not indexed before the
  next start (`lost` in `NoDirForgotten`);
* `Search` and `Count` are separate statements: when a deletion comes between them the total
  is smaller than the page (`crossed` in `TotalCoversPage`);
* any error of ALTER TABLE is taken for "already present" (`db.go:111`), the version
  is stamped, and no later start adds the column (`unaltered` in `StampedIsComplete`);
* a copy that failed once is never tried again, since the start goes on and makes
  a file of its own (`failed` in `OldDataIsUsed`); `paths.go:79` promises the copy "if
  the new destinations are empty";
* a Stat of the new file that fails counts as "not there", and the old file is copied over the one
  in use (`paths.go:97`, `overlooked` in `NothingIsOverwritten`); `paths.go:79` promises the copy only "if the new destinations
  are empty", and a "no-op once migration has already been done";
* beyond 50000 vectors the oldest count as missing, and the embedder never rests
  (`Len(vectors) > MaxVectors` in `Rests`);
* a failed `UpsertVector` is not counted, so a store that goes on refusing vectors (a full or read-only
  disk) keeps the embedder embedding the same files without end (`embedder/indexer.go:120`, the exception of
  `Rests` and `IndexedIsEmbedded`); LOGBOOK.md:849 reports the endless loop as fixed, with a path skipped
  after 3 failures.

Disagreements between text and code met on the way, without a run: the comment at
`watcher.go:64` expects that files of a new directory cause events of their own,
those written before the watch is in place do not; the watcher has neither the
exclusion list nor the sensitive-file check of the indexer (`indexer.go:63`);
`InvalidateByPath` cannot see that a changed file now matches a cached query
(LOGBOOK.md:940); `cache.go:88` says `Flush` is for bulk changes, nobody calls it;
README_AUDIT.md:42 speaks of a 500 ms debounce per path, `watcher.go:80` has one timer
for the root, which every event resets, so steady writes to one file hold up all
others (`Converges` needs changes to end); deleted files keep their vectors and
changed ones the vector of their old text (`embedder/indexer.go:72`); a `-wal` beside the old
database is not copied (`paths.go:88`); README.md:40 says every search is audited, those answered from the cache are
not; README.md:36 and SECURITY.md:61 say 100 requests per second, `middleware.go:17` has 30 with
a burst of 15; SECURITY.md:62 speaks of an X-CSRF-Token, `csrfMiddleware` compares Origin and Referer;
CHANGELOG.md:18 and `server.go:121` have `/health` without authentication, `isAPIPath`
(`middleware.go:214`) includes it, so that with a token a second start takes the port for another
application's (`main.go:59`); LOGBOOK.md speaks of logs of 5 MB, `logger.go` has 10. Also without a run: a root whose own
name is on the exclusion list is pruned entirely, and a panic in a goroutine of the bulk
indexer ends the process (`indexer.go:433`).


## 6. Not modelled

* Text extraction, FTS5 matching and ranking, snippets, JSON, HTML: pure functions of
  content. The models need only that a query matches a content or not.
* A page's limit and offset: in `SearchService` every match fits on the page.
* Directory listings that fail half way: `ReadDir` then calls the callback for the entries it has, then
  with the error; `CannotList` is the failure before the first, of a directory with entries.
* The log on other systems (stderr), and answers of `authMiddleware` and `recoveryMiddleware`,
  which end a request like any other.
* Path checks of `handleSettings` and `handleOpen`: predicates on strings; `Dir`
  holds the directories that pass.
* The audit insert after a response, hardware detection, update check, browser
  start, health and status: one-shot reads or writes nobody depends on.
* WAL checkpoints and `Optimize`: they change no table.
* The cosine ranking of semantic search: arithmetic on one snapshot of the vectors.
* `paths.Resolve`: reads the environment and makes the two directories; and the layout beside the
  executable that `main` falls back to when it fails (`main.go:129`), where there is nothing to migrate.
* Two processes in `MigrateIfNeeded`: `main` migrates (`main.go:145`) before it looks for another process
  (`main.go:170`), and both would write the same `.tmp`. `Startup` has one process at a time.
* In `IndexStore`, `files` rows with an empty hash, which the back-fill of an old schema makes: they differ
  from every hash, so the first upsert of such a path takes the branch of a changed file.


## 7. Plan

Done: every module planned, and a theorem for each safety property a run checks.

Left: for the liveness properties the safety part of their argument, that the action said to be
fair leads one step nearer (a rank that falls), beginning with `RunsEnd` and `SignalStops`; for
`Watcher`, the conditions under which `missed` stays empty.

A composition of `BulkIndexer` with `Watcher`, in place of the latter's `Scan...`, would multiply two
state spaces that share only the index; what the watcher needs of the bulk indexer, that a file's read and
write are apart and that a cancelled run stops, is in `Scan...` and in `StopsSoon`.
