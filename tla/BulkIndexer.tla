----------------------------- MODULE BulkIndexer -----------------------------
(***************************************************************************)
(* indexer.Run, once per directory: WalkDir hands every file the policy    *)
(* lets through to a goroutine, at most Workers of them at a time; Run     *)
(* waits for all of them and reports what became of the files.  main.go    *)
(* counts the runs under way for the status page.  Runs may overlap: a     *)
(* directory inside another, or the same one added twice.                  *)
(***************************************************************************)
EXTENDS Naturals, Sequences, FiniteSets

CONSTANTS Tree,      \* the entries in the order of WalkDir, each with its kind and
                     \* the position after everything below it
          Runs,      \* calls of indexer.Run
          Root,      \* Root[r]: position of the directory of run r
          Workers    \* adaptiveWorkers()

Entries == DOMAIN Tree

(* A file that is to be read, one the policy skips, a directory to enter,  *)
(* one the policy excludes with all that is in it.                         *)
Kinds == {"text", "skipped", "dir", "excluded"}

ASSUME TreeAssumption ==
  /\ Tree \in Seq([kind : Kinds, after : Nat])
  /\ \A i \in DOMAIN Tree : i < Tree[i].after /\ Tree[i].after <= Len(Tree) + 1
  /\ \A i, j \in DOMAIN Tree : i < j /\ j < Tree[i].after => Tree[j].after <= Tree[i].after

ASSUME RunsAssumption == IsFiniteSet(Runs) /\ Root \in [Runs -> DOMAIN Tree]

ASSUME WorkersAssumption == Workers \in Nat \ {0}

VARIABLES pc,         \* where each run is
          at,         \* the entry WalkDir comes to next
          work,       \* the goroutine of each entry of each run
          fate,       \* ghost: what became of each entry
          sem, wg,    \* slots taken, goroutines to wait for
          stats,      \* the Stats of each run
          index,      \* files in the index
          indexing,   \* Server.indexing
          cancelled,  \* the context of NotifyContext is done
          late        \* ghost: goroutines begun after that, per run

vars == <<pc, at, work, fate, sem, wg, stats, index, indexing, cancelled, late>>

(* What Stats counts. *)
Outcomes == {"indexed", "skipped", "error"}

Init == /\ pc = [r \in Runs |-> "idle"]
        /\ at = Root
        /\ work = [r \in Runs |-> [i \in Entries |-> "none"]]
        /\ fate = [r \in Runs |-> [i \in Entries |-> "unseen"]]
        /\ sem = [r \in Runs |-> 0] /\ wg = [r \in Runs |-> 0]
        /\ stats = [r \in Runs |-> [f \in Outcomes |-> 0]]
        /\ index = {} /\ indexing = 0
        /\ cancelled = FALSE
        /\ late = [r \in Runs |-> 0]

-----------------------------------------------------------------------------
(* The goroutine of main.go around Run.                                    *)

Start(r) == /\ pc[r] = "idle"
            /\ pc' = [pc EXCEPT ![r] = "stat"]
            /\ indexing' = indexing + 1
            /\ UNCHANGED <<at, work, fate, sem, wg, stats, index, cancelled, late>>

(* Mutant of Leave: the counter goes down on success only. *)
LeaveIfComplete(r) ==
  /\ pc[r] = "returned"
  /\ pc' = [pc EXCEPT ![r] = "over"]
  /\ indexing' = IF at[r] = Tree[Root[r]].after THEN indexing - 1 ELSE indexing
  /\ UNCHANGED <<at, work, fate, sem, wg, stats, index, cancelled, late>>

(* The deferred SetIndexing(false). *)
Leave(r) == /\ pc[r] = "returned"
            /\ pc' = [pc EXCEPT ![r] = "over"]
            /\ indexing' = indexing - 1
            /\ UNCHANGED <<at, work, fate, sem, wg, stats, index, cancelled, late>>

Signal == /\ ~cancelled
          /\ cancelled' = TRUE
          /\ UNCHANGED <<pc, at, work, fate, sem, wg, stats, index, indexing, late>>

-----------------------------------------------------------------------------
(* Run and the callback of WalkDir.                                        *)

Go(r, to) == /\ pc' = [pc EXCEPT ![r] = to]
             /\ UNCHANGED <<at, work, fate, sem, wg, stats, index, indexing, cancelled, late>>

StatRoot(r) == pc[r] = "stat" /\ \E to \in {"walk", "returned"} : Go(r, to)

Ended(r) == at[r] >= Tree[Root[r]].after

WalkEnds(r) == pc[r] = "walk" /\ Ended(r) /\ Go(r, "wait")

WalkStops(r) == pc[r] = "walk" /\ ~Ended(r) /\ cancelled /\ Go(r, "wait")

(* Mutant of Called: the callback does not look at the context. *)
CalledAlways(r) == pc[r] = "walk" /\ ~Ended(r)

Called(r) == pc[r] = "walk" /\ ~Ended(r) /\ ~cancelled

Counted(r, f) == [stats EXCEPT ![r][f] = @ + 1]

(* The callback counts entry i and the walk goes on at n. *)
PassBy(r, i, f, n) ==
  /\ fate' = [fate EXCEPT ![r][i] = f]
  /\ stats' = Counted(r, f)
  /\ at' = [at EXCEPT ![r] = n]
  /\ UNCHANGED <<pc, work, sem, wg, index, indexing, cancelled, late>>

Skip(r) == /\ Called(r) /\ Tree[at[r]].kind = "skipped"
           /\ PassBy(r, at[r], "skipped", at[r] + 1)

(* Mutant of CannotStat: fs.SkipDir for a file skips what comes after it. *)
CannotStatSkips(r) == /\ Called(r) /\ Tree[at[r]].kind = "text"
                      /\ PassBy(r, at[r], "error", Tree[Root[r]].after)

(* Info of a file fails, or Lstat of the root, which calls the callback    *)
(* with the error.                                                         *)
CannotStat(r) == /\ Called(r) /\ (Tree[at[r]].kind = "text" \/ at[r] = Root[r])
                 /\ PassBy(r, at[r], "error", Tree[at[r]].after)

(* ReadDir fails before it has read an entry, and the callback is called   *)
(* again for the directory.                                                *)
CannotList(r) == /\ Called(r) /\ at[r] > Root[r]
                 /\ LET d == at[r] - 1 IN
                      /\ Tree[d].kind = "dir" /\ Tree[d].after > at[r]
                      /\ PassBy(r, d, "error", Tree[d].after)

EnterOrPrune(r) ==
  /\ Called(r) /\ Tree[at[r]].kind \in {"dir", "excluded"}
  /\ at' = [at EXCEPT ![r] = IF Tree[at[r]].kind = "dir" THEN @ + 1 ELSE Tree[@].after]
  /\ UNCHANGED <<pc, work, fate, sem, wg, stats, index, indexing, cancelled, late>>

Choose(r) == Called(r) /\ Tree[at[r]].kind = "text" /\ Go(r, "acquire")

HasSlot(r) == sem[r] < Workers

(* sem <- struct{}{} blocks, whatever becomes of the context; then a       *)
(* goroutine starts.                                                       *)
Acquire(r) ==
  /\ pc[r] = "acquire" /\ HasSlot(r)
  /\ sem' = [sem EXCEPT ![r] = @ + 1]
  /\ wg' = [wg EXCEPT ![r] = @ + 1]
  /\ work' = [work EXCEPT ![r][at[r]] = "index"]
  /\ at' = [at EXCEPT ![r] = @ + 1]
  /\ late' = [late EXCEPT ![r] = IF cancelled THEN @ + 1 ELSE @]
  /\ pc' = [pc EXCEPT ![r] = "walk"]
  /\ UNCHANGED <<fate, stats, index, indexing, cancelled>>

(* wg.Wait, and Run returns its Stats. *)
Wait(r) == pc[r] = "wait" /\ wg[r] = 0 /\ Go(r, "returned")

-----------------------------------------------------------------------------
(* A goroutine: IndexFile, its result counted under mu, its slot given     *)
(* back, wg.Done, the two deferred calls last first.                       *)

IndexFile(r, i) ==
  /\ work[r][i] = "index"
  /\ \/ /\ ~cancelled
        /\ index' = index \cup {i}
        /\ fate' = [fate EXCEPT ![r][i] = "indexed"]
     \/ /\ fate' = [fate EXCEPT ![r][i] = "error"]
        /\ UNCHANGED index
  /\ work' = [work EXCEPT ![r][i] = "count"]
  /\ UNCHANGED <<pc, at, sem, wg, stats, indexing, cancelled, late>>

(* Mutant of Count: a failed file returns without being counted. *)
CountIndexed(r, i) ==
  /\ work[r][i] = "count"
  /\ stats' = IF fate[r][i] = "error" THEN stats ELSE Counted(r, fate[r][i])
  /\ work' = [work EXCEPT ![r][i] = "release"]
  /\ UNCHANGED <<pc, at, fate, sem, wg, index, indexing, cancelled, late>>

Count(r, i) ==
  /\ work[r][i] = "count"
  /\ stats' = Counted(r, fate[r][i])
  /\ work' = [work EXCEPT ![r][i] = "release"]
  /\ UNCHANGED <<pc, at, fate, sem, wg, index, indexing, cancelled, late>>

(* Mutant of Release: a failed file keeps its slot. *)
ReleaseIndexed(r, i) ==
  /\ work[r][i] = "release"
  /\ sem' = [sem EXCEPT ![r] = IF fate[r][i] = "error" THEN @ ELSE @ - 1]
  /\ work' = [work EXCEPT ![r][i] = "leave"]
  /\ UNCHANGED <<pc, at, fate, wg, stats, index, indexing, cancelled, late>>

Release(r, i) ==
  /\ work[r][i] = "release"
  /\ sem' = [sem EXCEPT ![r] = @ - 1]
  /\ work' = [work EXCEPT ![r][i] = "leave"]
  /\ UNCHANGED <<pc, at, fate, wg, stats, index, indexing, cancelled, late>>

Done(r, i) ==
  /\ work[r][i] = "leave"
  /\ wg' = [wg EXCEPT ![r] = @ - 1]
  /\ work' = [work EXCEPT ![r][i] = "none"]
  /\ UNCHANGED <<pc, at, fate, sem, stats, index, indexing, cancelled, late>>

-----------------------------------------------------------------------------
Walk(r) == \/ StatRoot(r) \/ WalkEnds(r) \/ WalkStops(r)
           \/ Skip(r) \/ CannotStat(r) \/ CannotList(r) \/ EnterOrPrune(r)
           \/ Choose(r) \/ Acquire(r) \/ Wait(r) \/ Leave(r)

Worker(r, i) == IndexFile(r, i) \/ Count(r, i) \/ Release(r, i) \/ Done(r, i)

Goroutines(r) == \E i \in Entries : Worker(r, i)

Next == \/ Signal
        \/ \E r \in Runs : Start(r) \/ Walk(r) \/ Goroutines(r)

Spec == Init /\ [][Next]_vars

(* Goroutines are scheduled, and reading a file ends.  That some goroutine *)
(* of a run goes on while one can is enough: each has four steps.          *)
Fairness == \A r \in Runs : WF_vars(Walk(r)) /\ WF_vars(Goroutines(r))

FairSpec == Spec /\ Fairness

-----------------------------------------------------------------------------
Going(r)  == {i \in Entries : work[r][i] # "none"}
InSlot(r) == {i \in Entries : work[r][i] \in {"index", "count", "release"}}
Fate(r, f) == {i \in Entries : fate[r][i] = f}

TypeOK ==
  /\ pc \in [Runs -> {"idle", "stat", "walk", "acquire", "wait", "returned", "over"}]
  /\ at \in [Runs -> 1 .. Len(Tree) + 1]
  /\ work \in [Runs -> [Entries -> {"none", "index", "count", "release", "leave"}]]
  /\ fate \in [Runs -> [Entries -> Outcomes \cup {"unseen"}]]
  /\ sem \in [Runs -> 0 .. Workers] /\ wg \in [Runs -> Nat]
  /\ stats \in [Runs -> [Outcomes -> Nat]]
  /\ index \subseteq Entries
  /\ indexing \in Nat
  /\ cancelled \in BOOLEAN
  /\ late \in [Runs -> Nat]

(* No more than Workers files of a run are open at a time, and what a run  *)
(* waits for is what is still going.                                       *)
Pool == \A r \in Runs : /\ Cardinality(InSlot(r)) <= Workers
                        /\ wg[r] = Cardinality(Going(r))

(* What Run returns is final and complete: none of its goroutines is left, *)
(* every file it came to is counted once, under what became of it, and     *)
(* every file counted as indexed is in the index.                          *)
ReportIsFinal ==
  \A r \in Runs : pc[r] \in {"returned", "over"} =>
    /\ Going(r) = {}
    /\ \A f \in Outcomes : stats[r][f] = Cardinality(Fate(r, f))
    /\ Fate(r, "indexed") \subseteq index

(* A walk that was not cancelled leaves out no file it should have read:   *)
(* each is indexed or an error, unless it is below a directory that is     *)
(* excluded or was counted as an error itself.                             *)
Below(d) == d + 1 .. Tree[d].after - 1

Missable(r) == UNION {Below(d) : d \in Fate(r, "error")
                                   \cup {d \in Entries : Tree[d].kind = "excluded"}}

NothingIsMissed ==
  \A r \in Runs : pc[r] \in {"wait", "returned", "over"} /\ Ended(r) =>
    \A i \in Root[r] .. Tree[Root[r]].after - 1 :
      Tree[i].kind = "text" /\ i \notin Missable(r) =>
        i \in Going(r) \/ fate[r][i] \in {"indexed", "error"}

(* The status page says "indexing" whenever a file is being read, and the  *)
(* counter is zero when no run is under way.                               *)
IndexingIsTold ==
  /\ indexing = Cardinality({r \in Runs : pc[r] \notin {"idle", "over"}})
  /\ (\E r \in Runs : Going(r) # {}) => indexing > 0

(* What the code counts by hand, in the semaphore, the WaitGroup and the   *)
(* status counter, is what there is, whatever fails in between.            *)
CountersAreRight == Pool /\ IndexingIsTold

(* After the signal a run begins at most one more file: the one whose turn *)
(* the walk was waiting for.                                               *)
StopsSoon == \A r \in Runs : late[r] <= 1

(* Every run ends, whatever fails, and so does a cancelled one.            *)
RunsEnd == \A r \in Runs : pc[r] = "stat" ~> pc[r] = "over"
=============================================================================
