------------------------------ MODULE Embedder -------------------------------
(***************************************************************************)
(* Semantic indexing: the goroutine of embedder.BackgroundIndexer.Run asks *)
(* the store for the indexed paths and for the vectors it has, embeds what *)
(* has none, file by file, and starts over.  Meanwhile files change, and   *)
(* indexer and watcher add paths to the index and delete them.  Nobody     *)
(* deletes vectors, and AllVectors tells only of the most recent ones.     *)
(***************************************************************************)
EXTENDS Naturals, Sequences, SequencesExt

CONSTANTS File,
          None,         \* no file, no path
          MaxVectors,   \* maxVectors
          Attempts,     \* failures after which a path is given up
          MaxChanges,   \* bound: changes of the files and of the index
          MaxRestarts   \* bound: restarts of the process

ASSUME EmbedderAssumption == /\ None \notin File
                             /\ MaxVectors \in Nat \ {0} /\ Attempts \in Nat \ {0}

VARIABLES fs,        \* fs[p]: "text", "empty" or None
          indexed,   \* the paths in `files`
          vectors,   \* the paths in `embeddings`, most recently embedded first
          pc,        \* where Run is
          paths,     \* what AllPaths returned
          todo,      \* files to embed in this round
          cur,       \* the file being embedded
          failed,    \* failed[p]: failed attempts
          changes, restarts  \* counters for the bounds

disk   == <<fs, indexed>>
round  == <<paths, todo, cur>>
bounds == <<changes, restarts>>
embedderVars == <<fs, indexed, vectors, pc, paths, todo, cur, failed, changes, restarts>>

NoFailures == [p \in File |-> 0]

EmbedderInit == /\ fs \in [File -> {"text", "empty", None}]
                /\ indexed \in SUBSET {p \in File : fs[p] # None}
                /\ vectors = <<>>
                /\ pc = "ping" /\ paths = {} /\ todo = {} /\ cur = None
                /\ failed = NoFailures
                /\ changes = 0 /\ restarts = 0

-----------------------------------------------------------------------------
(* BackgroundIndexer.Run.                                                  *)

(* The initial delay, then Ping: without Ollama the goroutine ends. *)
Ping == /\ pc = "ping"
        /\ pc' \in {"paths", "ended"}
        /\ UNCHANGED <<disk, vectors, round, failed, bounds>>

GetPaths == /\ pc = "paths"
            /\ paths' = indexed
            /\ pc' = "vectors"
            /\ UNCHANGED <<disk, vectors, todo, cur, failed, bounds>>

(* Mutant of AllVectors: one row less than the table holds. *)
AllVectorsButOldest == {vectors[i] : i \in {j \in 1 .. Len(vectors) : j < MaxVectors}}

(* ORDER BY indexed_at DESC LIMIT maxVectors *)
AllVectors == {vectors[i] : i \in {j \in 1 .. Len(vectors) : j <= MaxVectors}}

(* Mutant of Missing: one attempt too many. *)
MissingTriedOnceMore == {p \in paths \ AllVectors : failed[p] <= Attempts}

Missing == {p \in paths \ AllVectors : failed[p] < Attempts}

GetVectors == /\ pc = "vectors"
              /\ todo' = Missing
              /\ paths' = {}
              /\ pc' = IF Missing = {} THEN "sleep" ELSE "file"
              /\ UNCHANGED <<disk, vectors, cur, failed, bounds>>

(* An error of either query ends the goroutine. *)
QueryFails == /\ pc \in {"paths", "vectors"}
              /\ pc' = "ended"
              /\ paths' = {}
              /\ UNCHANGED <<disk, vectors, todo, cur, failed, bounds>>

(* Mutant of Wake: the paths are those of the last round. *)
WakeToVectors == /\ pc = "sleep"
                 /\ pc' = "vectors"
                 /\ UNCHANGED <<disk, vectors, round, failed, bounds>>

(* After 5 minutes. *)
Wake == /\ pc = "sleep"
        /\ pc' = "paths"
        /\ UNCHANGED <<disk, vectors, round, failed, bounds>>

Read(p) == /\ pc = "file" /\ p \in todo
           /\ fs[p] = "text"
           /\ todo' = todo \ {p}
           /\ cur' = p
           /\ pc' = "embed"
           /\ UNCHANGED <<disk, vectors, paths, failed, bounds>>

(* The file is empty or gone, or it cannot be read, whatever it holds. *)
ReadFails(p) == /\ pc = "file" /\ p \in todo
                /\ todo' = todo \ {p}
                /\ failed' = [failed EXCEPT ![p] = @ + 1]
                /\ UNCHANGED <<disk, vectors, paths, pc, cur, bounds>>

Embed == /\ pc = "embed"
         /\ pc' = "store"
         /\ UNCHANGED <<disk, vectors, round, failed, bounds>>

(* Mutant of EmbedFails: the failure is not counted. *)
EmbedFailsUncounted == /\ pc = "embed"
                       /\ cur' = None
                       /\ pc' = "file"
                       /\ UNCHANGED <<disk, vectors, paths, todo, failed, bounds>>

EmbedFails == /\ pc = "embed"
              /\ failed' = [failed EXCEPT ![cur] = @ + 1]
              /\ cur' = None
              /\ pc' = "file"
              /\ UNCHANGED <<disk, vectors, paths, todo, bounds>>

(* The rows of the other paths; `path` is the key of the table. *)
RowsBut(p) == IF p \in ToSet(vectors)
              THEN RemoveAt(vectors, CHOOSE i \in DOMAIN vectors : vectors[i] = p)
              ELSE vectors

(* UpsertVector: the row of the path, if any, becomes the latest. *)
Store == /\ pc = "store"
         /\ vectors' = <<cur>> \o RowsBut(cur)
         /\ cur' = None
         /\ pc' = "file"
         /\ UNCHANGED <<disk, paths, todo, failed, bounds>>

(* Logged, and not counted as a failure of the path: as long as the store *)
(* refuses its vector, the next round embeds the file again.              *)
StoreFails == /\ pc = "store"
              /\ cur' = None
              /\ pc' = "file"
              /\ UNCHANGED <<disk, vectors, paths, todo, failed, bounds>>

RoundEnds == /\ pc = "file" /\ todo = {}
             /\ pc' = "paths"
             /\ UNCHANGED <<disk, vectors, round, failed, bounds>>

-----------------------------------------------------------------------------
(* The rest of the system.                                                 *)

Change == /\ changes < MaxChanges
          /\ changes' = changes + 1
          /\ UNCHANGED <<vectors, pc, round, failed, restarts>>

FileChanges(p) == /\ \E content \in {"text", "empty", None} \ {fs[p]} :
                       fs' = [fs EXCEPT ![p] = content]
                  /\ UNCHANGED indexed
                  /\ Change

IndexAdds(p) == /\ p \notin indexed /\ fs[p] # None
                /\ indexed' = indexed \cup {p}
                /\ UNCHANGED fs
                /\ Change

(* database.Delete deletes no vector. *)
IndexDeletes(p) == /\ p \in indexed
                   /\ indexed' = indexed \ {p}
                   /\ UNCHANGED fs
                   /\ Change

(* The process ends and starts again; what has failed is forgotten. *)
Restart == /\ restarts < MaxRestarts
           /\ restarts' = restarts + 1
           /\ pc' = "ping" /\ paths' = {} /\ todo' = {} /\ cur' = None
           /\ failed' = NoFailures
           /\ UNCHANGED <<disk, vectors, changes>>

Run == \/ Ping \/ GetPaths \/ GetVectors \/ QueryFails \/ Wake
       \/ \E p \in File : Read(p) \/ ReadFails(p)
       \/ Embed \/ EmbedFails \/ Store \/ StoreFails \/ RoundEnds

EmbedderNext == \/ Run \/ Restart
                \/ \E p \in File : FileChanges(p) \/ IndexAdds(p) \/ IndexDeletes(p)

EmbedderSpec == EmbedderInit /\ [][EmbedderNext]_embedderVars

(* The goroutine runs on: every call it makes returns, every sleep ends. *)
EmbedderFairSpec == EmbedderSpec /\ WF_embedderVars(Run)

-----------------------------------------------------------------------------
EmbedderTypeOK ==
  /\ fs \in [File -> {"text", "empty", None}]
  /\ indexed \subseteq File
  /\ vectors \in Seq(File)
  /\ pc \in {"ping", "paths", "vectors", "sleep", "file", "embed", "store", "ended"}
  /\ paths \subseteq File /\ todo \subseteq File
  /\ cur \in File \cup {None}
  /\ failed \in [File -> 0 .. Attempts]
  /\ changes \in Nat /\ restarts \in Nat

(* A file with one of the maxVectors latest vectors is not embedded again: *)
(* it is not in hand and not in the round, although AllVectors was asked   *)
(* before the round began, and rounds, restarts and changes of the index   *)
(* have come since.  A file without a vector may go to Ollama many times,  *)
(* after failures, refusals by the store and restarts; and the older       *)
(* vectors of a larger table count as missing, and are made again.         *)
StoredIsNotRedone ==
  \A i \in DOMAIN vectors : i <= MaxVectors => vectors[i] \notin todo \cup {cur}

(* An indexed file gets its vector in the end, unless it leaves the index, *)
(* fails as often as Run bears, the goroutine has ended, or the store      *)
(* refuses the vector of that file for ever.                               *)
IndexedIsEmbedded ==
  \A p \in File :
    \/ p \in indexed ~> \/ p \in ToSet(vectors) \/ p \notin indexed
                        \/ failed[p] = Attempts \/ pc = "ended"
    \/ []<><<StoreFails /\ cur = p>>_embedderVars

(* Run comes to rest again and again, however many files cannot be read or *)
(* embedded: each is given up after Attempts failures.  Two things keep it *)
(* embedding without end: a store that refuses vectors for ever, which no  *)
(* counter sees, and more vectors than AllVectors returns.                 *)
Rests == \/ []<>(pc \in {"sleep", "ended"} \/ Len(vectors) > MaxVectors)
         \/ []<><<StoreFails>>_embedderVars
=============================================================================
