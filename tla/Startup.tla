------------------------------- MODULE Startup -------------------------------
(***************************************************************************)
(* The files a start of the process finds, and what it makes of them:      *)
(* paths.MigrateIfNeeded copies database and configuration from the old    *)
(* data directory, config.Load and AddDir follow, db.New brings the schema *)
(* up to date.  Each SQL statement commits by itself, and the process may  *)
(* die between any two steps.  One process runs at a time: main looks for  *)
(* another one only after MigrateIfNeeded, and two that start together are *)
(* beyond this module.                                                     *)
(***************************************************************************)
EXTENDS Naturals

CONSTANTS Doc,        \* paths of indexed files
          None,       \* no file
          Torn,       \* a file written in part
          LegacyDb,   \* what old database there may be
          MaxStarts, MaxErrors  \* bounds

CurrentSchemaVersion == 3

(* `origin` is a ghost: copied from the old directory, or made by a start. *)
Origin == {"legacy", "own"}
Db     == [documents : BOOLEAN, files : BOOLEAN, mtime : BOOLEAN, audit : BOOLEAN,
           docs : SUBSET Doc, rows : SUBSET Doc,
           version : 0 .. CurrentSchemaVersion, origin : Origin]
Config == [origin : Origin]
Content(f) == IF f = "db" THEN Db ELSE Config

Complete(db) == db.documents /\ db.files /\ db.mtime /\ db.audit /\ db.docs \subseteq db.rows

(* What a version promises. *)
Sound(db) == /\ db.version >= 1 => db.documents /\ db.files /\ db.docs \subseteq db.rows
             /\ db.version >= 2 => db.mtime
             /\ db.version >= 3 => db.audit

ASSUME StartupAssumption ==
  /\ {None, Torn} \cap (Db \cup Config) = {} /\ None # Torn
  /\ LegacyDb \subseteq Db \cup {None}
  /\ \A db \in LegacyDb \ {None} : db.origin = "legacy" /\ Sound(db)

File == {"db", "config"}

VARIABLES old,      \* old[f]: file f of the old data directory
          file,     \* file[f]: file f of the platform's directory
          tmp,      \* tmp[f]: its .tmp
          pc, cur,  \* where the start is, the file it migrates
          failed,   \* ghost: some copy has failed or was not tried
          unaltered, \* ghost: ALTER TABLE failed while the column was missing
          overlooked, \* ghost: cur is copied because a Stat failed
          starts, errors  \* counters for the bounds

vars == <<old, file, tmp, pc, cur, failed, unaltered, overlooked,
          starts, errors>>

ghosts == <<failed, unaltered, overlooked>>
bounds == <<starts, errors>>

Fresh == [documents |-> FALSE, files |-> FALSE, mtime |-> FALSE, audit |-> FALSE,
          docs |-> {}, rows |-> {}, version |-> 0, origin |-> "own"]

Erring == errors < MaxErrors /\ errors' = errors + 1 /\ UNCHANGED starts

Init == /\ old \in {o \in [File -> LegacyDb \cup {[origin |-> "legacy"], None}] :
                      o["db"] \in LegacyDb /\ o["config"] \in {[origin |-> "legacy"], None}}
        /\ file = [f \in File |-> None] /\ tmp = [f \in File |-> None]
        /\ pc = "off" /\ cur = "db"
        /\ failed = FALSE /\ unaltered = FALSE /\ overlooked = FALSE
        /\ starts = 0 /\ errors = 0

Start == /\ pc = "off" /\ starts < MaxStarts
         /\ starts' = starts + 1
         /\ pc' = "stat" /\ cur' = "db"
         /\ UNCHANGED <<old, file, tmp, ghosts, errors>>

(* os.Executable fails: main does not know where an old directory would be. *)
StartUnlocated == /\ pc = "off" /\ starts < MaxStarts /\ errors < MaxErrors
                  /\ starts' = starts + 1 /\ errors' = errors + 1
                  /\ pc' = "load"
                  /\ failed' = TRUE
                  /\ UNCHANGED <<old, file, tmp, cur, unaltered, overlooked>>

-----------------------------------------------------------------------------
(* MigrateIfNeeded and copyFile.                                           *)

(* Mutant of After: only the database is looked at. *)
AfterDbOnly(f) == "load"

After(f) == IF f = "db" THEN "stat" ELSE "load"

NextFile == pc' = After(cur) /\ cur' = "config"

(* Mutant of Wanted: the destination is not looked at. *)
WantedAlways(f) == old[f] # None

Wanted(f) == old[f] # None /\ file[f] = None

Stat == /\ pc = "stat"
        /\ IF Wanted(cur) THEN pc' = "copy" /\ UNCHANGED cur ELSE NextFile
        /\ overlooked' = FALSE
        /\ UNCHANGED <<old, file, tmp, failed, unaltered, bounds>>

(* A Stat fails on a file that may be there.  Only "does not exist" of the *)
(* old file and success of the new one keep MigrateIfNeeded from copying.  *)
StatFails == /\ pc = "stat" /\ Erring
             /\ pc' = "copy"
             /\ overlooked' = TRUE
             /\ UNCHANGED <<old, file, tmp, cur, failed, unaltered>>

OpenTmp == /\ pc = "copy" /\ old[cur] # None
           /\ tmp' = [tmp EXCEPT ![cur] = Torn]
           /\ pc' = "fill"
           /\ UNCHANGED <<old, file, cur, ghosts, bounds>>

Fill == /\ pc = "fill"
        /\ tmp' = [tmp EXCEPT ![cur] = old[cur]]
        /\ pc' = "rename"
        /\ UNCHANGED <<old, file, cur, ghosts, bounds>>

Rename == /\ pc = "rename"
          /\ file' = [file EXCEPT ![cur] = tmp[cur]]
          /\ tmp' = [tmp EXCEPT ![cur] = None]
          /\ NextFile
          /\ UNCHANGED <<old, ghosts, bounds>>

(* The error ends MigrateIfNeeded, main logs it and goes on; a failed copy *)
(* or close removes the .tmp, a failed rename leaves it.  An old file that *)
(* is not there after all cannot be opened.                                *)
CopyFails == /\ pc \in {"copy", "fill", "rename"}
             /\ Erring \/ (pc = "copy" /\ old[cur] = None /\ UNCHANGED bounds)
             /\ tmp' = IF pc = "fill" THEN [tmp EXCEPT ![cur] = None] ELSE tmp
             /\ failed' = TRUE
             /\ pc' = "load"
             /\ UNCHANGED <<old, file, cur, unaltered, overlooked>>

-----------------------------------------------------------------------------
(* config.Load, and AddDir when there is a flag -dir (or, later, a request *)
(* to /api/settings): a configuration of its own, where there was none.    *)
SavedConfig == IF file["config"] = None THEN [file EXCEPT !["config"] = [origin |-> "own"]]
                                        ELSE file

LoadConfig == /\ pc = "load"
              /\ file' \in {file, SavedConfig}
              /\ pc' = "open"
              /\ UNCHANGED <<old, tmp, cur, ghosts, bounds>>

(* db.New: SQLite creates a missing file; migrate reads user_version and   *)
(* goes through the steps from there on.                                   *)
OpenDb ==
  LET db == IF file["db"] = None THEN Fresh ELSE file["db"] IN
  /\ pc = "open"
  /\ file' = [file EXCEPT !["db"] = db]
  /\ pc' = CASE db.version < 1 -> "documents"
             [] db.version = 1 -> "alter"
             [] db.version = 2 -> "audit"
             [] OTHER          -> "up"
  /\ UNCHANGED <<old, tmp, cur, ghosts, bounds>>

(* One statement of migrate. *)
Step(label, next, db) ==
  /\ pc = label /\ pc' = next
  /\ file' = [file EXCEPT !["db"] = db]
  /\ UNCHANGED <<old, tmp, cur, bounds>>

db0 == file["db"]

CreateDocuments == /\ Step("documents", "files", [db0 EXCEPT !.documents = TRUE])
                   /\ UNCHANGED ghosts

(* Mutant of CreateFiles: no backfill follows. *)
CreateFilesOnly == /\ Step("files", "alter", IF db0.files THEN db0
                            ELSE [db0 EXCEPT !.files = TRUE, !.mtime = TRUE])
                   /\ UNCHANGED ghosts

(* IF NOT EXISTS: a table without the column mtime stays without. *)
CreateFiles == /\ Step("files", "backfill", IF db0.files THEN db0
                         ELSE [db0 EXCEPT !.files = TRUE, !.mtime = TRUE])
               /\ UNCHANGED ghosts

Backfill == /\ Step("backfill", "alter", [db0 EXCEPT !.rows = @ \cup db0.docs])
            /\ UNCHANGED ghosts

(* That the column is there already is an error, too, and ignored. *)
AddMtime == /\ Step("alter", "audit", [db0 EXCEPT !.mtime = TRUE])
            /\ UNCHANGED ghosts

(* Any other error of ALTER TABLE is ignored as well. *)
AddMtimeFails == /\ pc = "alter" /\ Erring
                 /\ pc' = "audit"
                 /\ unaltered' = (unaltered \/ ~db0.mtime)
                 /\ UNCHANGED <<old, file, tmp, cur, failed, overlooked>>

CreateAudit == /\ Step("audit", "stamp", [db0 EXCEPT !.audit = TRUE])
               /\ UNCHANGED ghosts

Stamp == /\ Step("stamp", "up", [db0 EXCEPT !.version = CurrentSchemaVersion])
         /\ UNCHANGED ghosts

(* A pragma or another statement fails: main exits. *)
StatementFails == /\ pc \in {"open", "documents", "files", "backfill", "audit", "stamp"}
                  /\ Erring
                  /\ pc' = "off"
                  /\ file' \in IF pc = "open" /\ file["db"] = None
                               THEN {file, [file EXCEPT !["db"] = Fresh]} ELSE {file}
                  /\ UNCHANGED <<old, tmp, cur, ghosts>>

-----------------------------------------------------------------------------
(* While the process runs: the store puts and deletes documents together   *)
(* with their rows (IndexStore), and settings are saved.                   *)
Put(d) == /\ Step("up", "up", [db0 EXCEPT !.docs = @ \cup {d}, !.rows = @ \cup {d}])
          /\ UNCHANGED ghosts

Delete(d) == /\ Step("up", "up", [db0 EXCEPT !.docs = @ \ {d}, !.rows = @ \ {d}])
             /\ UNCHANGED ghosts

SaveConfig == /\ pc = "up"
              /\ file' = SavedConfig
              /\ UNCHANGED <<old, tmp, pc, cur, ghosts, bounds>>

(* The process ends, wherever it is. *)
Stop == /\ pc # "off"
        /\ pc' = "off"
        /\ UNCHANGED <<old, file, tmp, cur, ghosts, bounds>>

MigrateData   == Stat \/ StatFails \/ OpenTmp \/ Fill \/ Rename \/ CopyFails
MigrateSchema == \/ CreateDocuments \/ CreateFiles \/ Backfill \/ AddMtime \/ AddMtimeFails
                 \/ CreateAudit \/ Stamp \/ StatementFails
Serve         == SaveConfig \/ \E d \in Doc : Put(d) \/ Delete(d)

Next == \/ Start \/ StartUnlocated \/ MigrateData \/ LoadConfig \/ OpenDb \/ MigrateSchema
        \/ Serve \/ Stop

Spec == Init /\ [][Next]_vars

-----------------------------------------------------------------------------
TypeOK ==
  /\ {old, file, tmp} \subseteq [File -> Db \cup Config \cup {None, Torn}]
  /\ \A f \in File : /\ old[f] \in Content(f) \cup {None}
                     /\ file[f] \in Content(f) \cup {None}
                     /\ tmp[f] \in Content(f) \cup {None, Torn}
  /\ pc \in {"off", "stat", "copy", "fill", "rename", "load", "open", "documents", "files",
             "backfill", "alter", "audit", "stamp", "up"}
  /\ cur \in File
  /\ failed \in BOOLEAN /\ unaltered \in BOOLEAN /\ overlooked \in BOOLEAN
  /\ starts \in Nat /\ errors \in Nat

(* A database that says it has the current version has the tables of that  *)
(* version, and a files row for every document, wherever earlier starts    *)
(* died or failed; only the column mtime may be missing, after an error of *)
(* ALTER TABLE that migrate took for "already present".                    *)
StampedIsComplete ==
  file["db"] # None /\ file["db"].version = CurrentSchemaVersion =>
    Complete([file["db"] EXCEPT !.mtime = @ \/ unaltered])

(* A start makes a file of its own where there is an old one only if a     *)
(* copy has failed, or was not tried because the process did not know      *)
(* where it runs: then the old one is never looked at again.               *)
OldDataIsUsed ==
  \A f \in File : old[f] # None /\ file[f] # None /\ file[f].origin = "own" => failed

(* With one process at a time, what is in use is replaced by the old file  *)
(* only where a Stat failed, which MigrateIfNeeded takes for "not there";  *)
(* nothing else a start does, however it ends, loses a document or a row.  *)
NothingIsOverwritten ==
  [][\A f \in File : file[f] # None /\ ~(overlooked /\ pc = "rename" /\ f = cur) =>
       /\ file'[f] \in Content(f) /\ file'[f].origin = file[f].origin
       /\ f = "db" /\ pc # "up" =>
            file[f].docs \subseteq file'[f].docs /\ file[f].rows \subseteq file'[f].rows]_vars
=============================================================================
