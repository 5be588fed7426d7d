---------------------------- MODULE StartupProofs ----------------------------
(***************************************************************************)
(* Proofs about Startup, for every set of documents, every old database    *)
(* that keeps what its version promises, and any number of starts.         *)
(***************************************************************************)
EXTENDS Startup, TLAPS

Copying == {"copy", "fill", "rename"}
Schema  == {"documents", "files", "backfill", "alter", "audit", "stamp"}

(* A file is copied only to where there is none, unless a Stat failed, and *)
(* a .tmp that is about to be renamed is all of the old file.              *)
CopyIsWhole == /\ pc \in Copying => (old[cur] # None /\ file[cur] = None) \/ overlooked
               /\ pc \in {"fill", "rename"} => old[cur] # None
               /\ pc = "rename" => tmp[cur] = old[cur]

(* Where a statement of migrate stands, those before it have been at work, *)
(* in this start or, if the version says so, in an earlier one.            *)
Reached ==
  LET db == file["db"] IN
  /\ pc \in Schema \cup {"up"} => db # None
  /\ pc \in {"files", "backfill", "alter", "audit", "stamp"} => db.documents
  /\ pc \in {"backfill", "alter", "audit", "stamp"} => db.files
  /\ pc \in {"alter", "audit", "stamp"} => db.docs \subseteq db.rows
  /\ pc \in {"audit", "stamp"} => db.mtime \/ unaltered
  /\ pc = "stamp" => db.audit

(* Sound, but for the column that an ignored error left out. *)
Kept(db) == /\ db.version >= 1 => db.documents /\ db.files /\ db.docs \subseteq db.rows
            /\ db.version >= 2 => db.mtime \/ unaltered
            /\ db.version >= 3 => db.audit

VersionsHold == /\ old["db"] # None => Sound(old["db"])
                /\ file["db"] # None => Kept(file["db"])

IndInv == TypeOK /\ CopyIsWhole /\ Reached /\ VersionsHold

-----------------------------------------------------------------------------
(* Fresh is a database, and it, what a statement makes of a database, and  *)
(* what the old directory holds are told from None and Torn.               *)
LEMMA FreshIsDb == Fresh \in Db /\ ~Fresh.documents /\ Fresh.version = 0
BY DEF Fresh, Db, CurrentSchemaVersion, Origin

LEMMA DbIsFile == ASSUME NEW db \in Db PROVE db # None /\ db # Torn
BY StartupAssumption

LEMMA ConfigIsFile == ASSUME NEW c \in Config PROVE c # None /\ c # Torn
BY StartupAssumption

LEMMA InitInd == Init => IndInv
<1> SUFFICES ASSUME Init PROVE IndInv
  OBVIOUS
<1>1. old \in [File -> LegacyDb \cup Config \cup {None}]
      /\ old["db"] \in LegacyDb /\ old["config"] \in Config \cup {None}
  BY DEF Init, Config, Origin, File
<1>2. TypeOK
  BY <1>1, StartupAssumption DEF Init, TypeOK, File, Content
<1>3. CopyIsWhole /\ Reached
  BY DEF Init, CopyIsWhole, Reached, Copying, Schema
<1>4. VersionsHold
  BY <1>1, StartupAssumption DEF Init, VersionsHold, File
<1> QED BY <1>2, <1>3, <1>4 DEF IndInv

(* The copy. *)
LEMMA CopyInd == ASSUME IndInv, Start \/ StartUnlocated \/ MigrateData PROVE IndInv'
<1> USE DEF IndInv, ghosts, bounds
<1>1. CASE Start \/ StartUnlocated
  <2>1. TypeOK'
    <3>1. /\ UNCHANGED <<old, file, tmp, unaltered, overlooked>>
          /\ pc' \in {"stat", "load"} /\ cur' \in {cur, "db"}
          /\ failed' = failed \/ failed' = TRUE
      BY <1>1 DEF Start, StartUnlocated
    <3>2. starts' = starts + 1 /\ errors' \in {errors, errors + 1}
      BY <1>1 DEF Start, StartUnlocated
    <3>3. starts' \in Nat /\ errors' \in Nat
      BY <3>2 DEF TypeOK
    <3>4. failed' \in BOOLEAN
      BY <3>1 DEF TypeOK
    <3> QED BY <3>1, <3>3, <3>4 DEF TypeOK, File
  <2>2. CopyIsWhole' /\ Reached' /\ VersionsHold'
    BY <1>1 DEF Start, StartUnlocated, CopyIsWhole, Reached, VersionsHold, Copying, Schema, Kept
  <2> QED BY <2>1, <2>2
<1>2. CASE Stat
  BY <1>2 DEF Stat, Wanted, NextFile, After, TypeOK, CopyIsWhole, Reached, VersionsHold,
              Copying, Schema, File, Kept
<1>7. CASE StatFails
  BY <1>7 DEF StatFails, Erring, TypeOK, CopyIsWhole, Reached, VersionsHold, Copying, Schema,
              Kept
<1>3. CASE OpenTmp
  <2>1. TypeOK'
    BY <1>3 DEF OpenTmp, TypeOK, File, Content
  <2>2. CopyIsWhole' /\ Reached' /\ VersionsHold'
    BY <1>3 DEF OpenTmp, CopyIsWhole, Reached, VersionsHold, Copying, Schema, Kept
  <2> QED BY <2>1, <2>2
<1>4. CASE Fill
  <2>1. TypeOK'
    BY <1>4 DEF Fill, TypeOK, File, Content
  <2>2. CopyIsWhole' /\ Reached' /\ VersionsHold'
    BY <1>4 DEF Fill, TypeOK, CopyIsWhole, Reached, VersionsHold, Copying, Schema, Kept
  <2> QED BY <2>1, <2>2
<1>5. CASE Rename
  <2>1. tmp[cur] = old[cur] /\ cur \in File /\ pc' \in {"stat", "load"} /\ cur' \in File
    BY <1>5 DEF Rename, NextFile, After, CopyIsWhole, TypeOK, File
  <2>2. TypeOK'
    BY <1>5, <2>1 DEF Rename, TypeOK, File, Content
  <2>3. CopyIsWhole' /\ Reached'
    BY <2>1 DEF CopyIsWhole, Reached, Copying, Schema
  <2>4. VersionsHold'
    BY <1>5, <2>1 DEF Rename, TypeOK, VersionsHold, Sound, Kept, File
  <2> QED BY <2>2, <2>3, <2>4
<1>6. CASE CopyFails
  <2>1. TypeOK'
    BY <1>6 DEF CopyFails, Erring, TypeOK, File, Content
  <2>2. CopyIsWhole' /\ Reached' /\ VersionsHold'
    BY <1>6 DEF CopyFails, Erring, CopyIsWhole, Reached, VersionsHold, Copying, Schema, Kept
  <2> QED BY <2>1, <2>2
<1> QED BY <1>1, <1>2, <1>3, <1>4, <1>5, <1>6, <1>7 DEF MigrateData

(* The configuration: the database is left alone. *)
LEMMA ConfigInd == ASSUME IndInv, LoadConfig \/ SaveConfig PROVE IndInv'
<1> USE DEF IndInv, ghosts, bounds
<1>1. [origin |-> "own"] \in Config
  BY DEF Config, Origin
<1>2. SavedConfig \in [File -> Db \cup Config \cup {None, Torn}]
      /\ SavedConfig["db"] = file["db"]
      /\ SavedConfig["config"] \in Config \cup {None}
  BY <1>1 DEF SavedConfig, TypeOK, File, Content
<1>3. /\ file' \in [File -> Db \cup Config \cup {None, Torn}]
      /\ file'["db"] = file["db"] /\ file'["config"] \in Config \cup {None}
      /\ UNCHANGED <<old, tmp, cur, failed, unaltered, overlooked, starts, errors>>
      /\ (pc' = "open" \/ (pc = "up" /\ pc' = "up"))
  <2>1. file' \in {file, SavedConfig}
    BY DEF LoadConfig, SaveConfig
  <2>2. file \in [File -> Db \cup Config \cup {None, Torn}]
        /\ file["config"] \in Config \cup {None}
    BY DEF TypeOK, File, Content
  <2>3. UNCHANGED <<old, tmp, cur, failed, unaltered, overlooked, starts, errors>>
        /\ (pc' = "open" \/ (pc = "up" /\ pc' = "up"))
    BY DEF LoadConfig, SaveConfig
  <2> QED BY <1>2, <2>1, <2>2, <2>3
<1>4. TypeOK'
  BY <1>3 DEF TypeOK, File, Content
<1>5. CopyIsWhole' /\ Reached' /\ VersionsHold'
  BY <1>3 DEF CopyIsWhole, Reached, VersionsHold, Copying, Schema, Kept
<1> QED BY <1>4, <1>5

(* What all steps at the database have in common. *)
LEMMA DbStep ==
  ASSUME IndInv, NEW db \in Db, file' = [file EXCEPT !["db"] = db],
         UNCHANGED <<old, tmp, cur, failed, overlooked, starts>>, errors' \in Nat,
         unaltered' \in BOOLEAN, unaltered => unaltered',
         pc' \in Schema \cup {"up"}
  PROVE  /\ TypeOK' /\ CopyIsWhole' /\ file'["db"] = db
         /\ Kept(file["db"])' => VersionsHold'
<1>1. file'["db"] = db /\ file'["config"] = file["config"]
  BY DEF IndInv, TypeOK, File
<1>2. TypeOK'
  BY <1>1 DEF IndInv, TypeOK, File, Content, Schema
<1>3. CopyIsWhole'
  BY DEF CopyIsWhole, Copying, Schema
<1>4. Kept(file["db"])' => VersionsHold'
  BY DEF IndInv, VersionsHold
<1> QED BY <1>1, <1>2, <1>3, <1>4

LEMMA OpenInd == ASSUME IndInv, OpenDb PROVE IndInv'
<1> DEFINE db == IF file["db"] = None THEN Fresh ELSE file["db"]
<1>1. db \in Db /\ Kept(db) /\ db.version \in 0 .. 3
  BY FreshIsDb DEF IndInv, TypeOK, File, Content, VersionsHold, Kept, Db, CurrentSchemaVersion
<1>2. PICK d \in Db : d = db
  BY <1>1
<1>3. /\ file' = [file EXCEPT !["db"] = d]
      /\ UNCHANGED <<old, tmp, cur, failed, unaltered, overlooked, starts, errors>>
      /\ pc' \in {"documents", "alter", "audit", "up"}
      /\ pc' = "alter" => d.version = 1
      /\ pc' = "audit" => d.version = 2
  BY <1>1, <1>2 DEF OpenDb, ghosts, bounds
<1>4. TypeOK' /\ CopyIsWhole' /\ file'["db"] = d /\ (Kept(file["db"])' => VersionsHold')
  <2>1. errors' \in Nat /\ unaltered' \in BOOLEAN /\ pc' \in Schema \cup {"up"}
    BY <1>3 DEF IndInv, TypeOK, Schema
  <2> QED BY <1>3, <2>1, DbStep
<1>5. Kept(file["db"])'
  BY <1>1, <1>2, <1>3, <1>4 DEF Kept
<1>6. Reached'
  BY <1>1, <1>2, <1>3, <1>4, DbIsFile DEF Reached, Kept, Schema
<1> QED BY <1>4, <1>5, <1>6 DEF IndInv

(* The statements of migrate. *)
Migrating == \/ CreateDocuments \/ CreateFiles \/ Backfill \/ AddMtime \/ AddMtimeFails
             \/ CreateAudit \/ Stamp

(* What a statement of migrate makes of the database `from`. *)
Migrated(from, d) ==
  \/ /\ pc = "documents" /\ pc' = "files"
     /\ d = [from EXCEPT !.documents = TRUE]
  \/ /\ pc = "files" /\ pc' = "backfill"
     /\ d = IF from.files THEN from
             ELSE [from EXCEPT !.files = TRUE, !.mtime = TRUE]
  \/ /\ pc = "backfill" /\ pc' = "alter"
     /\ d = [from EXCEPT !.rows = @ \cup from.docs]
  \/ pc = "alter" /\ pc' = "audit" /\ d = [from EXCEPT !.mtime = TRUE]
  \/ pc = "alter" /\ pc' = "audit" /\ d = from /\ (from.mtime \/ unaltered')
  \/ pc = "audit" /\ pc' = "stamp" /\ d = [from EXCEPT !.audit = TRUE]
  \/ pc = "stamp" /\ pc' = "up" /\ d = [from EXCEPT !.version = 3]

LEMMA SchemaStep ==
  ASSUME IndInv, Migrating
  PROVE  /\ file["db"] \in Db /\ file["db"] # None
         /\ \E d \in Db : file' = [file EXCEPT !["db"] = d] /\ Migrated(file["db"], d)
         /\ UNCHANGED <<old, tmp, cur, failed, overlooked, starts>> /\ errors' \in Nat
         /\ unaltered' \in BOOLEAN /\ (unaltered => unaltered')
<1> USE DEF Migrating
<1> DEFINE old0 == file["db"]
<1>0. old0 \in Db /\ old0 # None
  BY DEF IndInv, TypeOK, Reached, Schema, File, Content, CreateDocuments, CreateFiles, Backfill,
         AddMtime, AddMtimeFails, CreateAudit, Stamp, Step
<1>1. \E d \in Db : file' = [file EXCEPT !["db"] = d] /\ Migrated(old0, d)
  <2>1. CASE CreateDocuments
    BY <1>0, <2>1 DEF CreateDocuments, Step, db0, Db, Migrated
  <2>2. CASE CreateFiles
    BY <1>0, <2>2 DEF CreateFiles, Step, db0, Db, Migrated
  <2>3. CASE Backfill
    BY <1>0, <2>3 DEF Backfill, Step, db0, Db, Migrated
  <2>4. CASE AddMtime
    BY <1>0, <2>4 DEF AddMtime, Step, db0, Db, Migrated
  <2>5. CASE AddMtimeFails
    <3>1. file' = [file EXCEPT !["db"] = old0]
      BY <2>5 DEF AddMtimeFails, IndInv, TypeOK, File
    <3>2. pc = "alter" /\ pc' = "audit" /\ (old0.mtime \/ unaltered')
      BY <1>0, <2>5 DEF AddMtimeFails, db0, Db
    <3> QED BY <1>0, <3>1, <3>2 DEF Migrated
  <2>6. CASE CreateAudit
    BY <1>0, <2>6 DEF CreateAudit, Step, db0, Db, Migrated
  <2>7. CASE Stamp
    <3>1. [old0 EXCEPT !.version = 3] \in Db
      <4>1. 3 \in 0 .. CurrentSchemaVersion
        BY DEF CurrentSchemaVersion
      <4> QED BY <1>0, <4>1 DEF Db
    <3>2. /\ file' = [file EXCEPT !["db"] = [old0 EXCEPT !.version = 3]]
          /\ pc = "stamp" /\ pc' = "up"
      BY <2>7 DEF Stamp, Step, db0, CurrentSchemaVersion
    <3> QED BY <3>1, <3>2 DEF Migrated
  <2> QED BY <2>1, <2>2, <2>3, <2>4, <2>5, <2>6, <2>7
<1>2. /\ UNCHANGED <<old, tmp, cur, failed, overlooked, starts>> /\ errors' \in Nat
      /\ unaltered' \in BOOLEAN /\ (unaltered => unaltered')
  <2>1. UNCHANGED <<old, tmp, cur, failed, overlooked, starts>>
    BY DEF CreateDocuments, CreateFiles, Backfill, AddMtime, AddMtimeFails,
           CreateAudit, Stamp, Step, Erring, ghosts, bounds
  <2>2. errors' = errors \/ errors' = errors + 1
    BY DEF CreateDocuments, CreateFiles, Backfill, AddMtime, AddMtimeFails,
           CreateAudit, Stamp, Step, Erring, ghosts, bounds
  <2>3. unaltered' = unaltered \/ unaltered' = (unaltered \/ ~db0.mtime)
    BY DEF CreateDocuments, CreateFiles, Backfill, AddMtime, AddMtimeFails,
           CreateAudit, Stamp, Step, ghosts
  <2>4. errors \in Nat /\ unaltered \in BOOLEAN
    BY DEF IndInv, TypeOK
  <2>5. unaltered' \in BOOLEAN /\ (unaltered => unaltered')
    BY <2>3, <2>4
  <2> QED BY <2>1, <2>2, <2>4, <2>5
<1> QED BY <1>0, <1>1, <1>2

LEMMA SchemaInd == ASSUME IndInv, Migrating PROVE IndInv'
<1> DEFINE old0 == file["db"]
<1>0. old0 \in Db /\ old0 # None
  BY SchemaStep
<1>1. PICK d \in Db : file' = [file EXCEPT !["db"] = d] /\ Migrated(old0, d)
  BY SchemaStep
<1>2. /\ UNCHANGED <<old, tmp, cur, failed, overlooked, starts>> /\ errors' \in Nat
      /\ unaltered' \in BOOLEAN /\ (unaltered => unaltered')
  BY SchemaStep
<1>3. pc' \in Schema \cup {"up"}
  BY <1>1 DEF Schema, Migrated
<1>4. TypeOK' /\ CopyIsWhole' /\ file'["db"] = d /\ (Kept(file["db"])' => VersionsHold')
  BY <1>1, <1>2, <1>3, DbStep
<1>5. Kept(old0) /\ d # None
  BY <1>0, DbIsFile DEF IndInv, VersionsHold
<1>6. Kept(file["db"])'
  <2>1. CASE pc = "stamp"
    BY <1>0, <1>1, <1>2, <1>4, <2>1 DEF IndInv, Kept, Reached, Db, Migrated
  <2>2. CASE pc # "stamp"
    <3>1. /\ d.version = old0.version /\ (old0.documents => d.documents)
          /\ (old0.files => d.files) /\ (old0.mtime => d.mtime) /\ (old0.audit => d.audit)
      BY <1>0, <1>1, <2>2 DEF Db, Migrated
    <3>2. old0.docs \subseteq old0.rows => d.docs \subseteq d.rows
      BY <1>0, <1>1, <2>2 DEF Db, Migrated
    <3> QED BY <1>2, <1>4, <1>5, <3>1, <3>2 DEF Kept
  <2> QED BY <2>1, <2>2
<1>7. Reached'
  <2>1. /\ pc' \in {"files", "backfill", "alter", "audit", "stamp"} => d.documents
        /\ pc' \in {"backfill", "alter", "audit", "stamp"} => d.files
    BY <1>0, <1>1 DEF IndInv, Reached, Db, Migrated
  <2>2. pc' \in {"alter", "audit", "stamp"} => d.docs \subseteq d.rows
    BY <1>0, <1>1 DEF IndInv, Reached, Db, Migrated
  <2>3. /\ pc' \in {"audit", "stamp"} => d.mtime \/ unaltered'
        /\ pc' = "stamp" => d.audit
    BY <1>0, <1>1, <1>2 DEF IndInv, Reached, Db, Migrated
  <2> QED BY <1>4, <1>5, <2>1, <2>2, <2>3 DEF Reached
<1> QED BY <1>4, <1>6, <1>7 DEF IndInv

(* A statement that fails, and the process that ends: nothing is lost. *)
LEMMA EndInd == ASSUME IndInv, StatementFails \/ Stop PROVE IndInv'
<1> USE DEF IndInv, ghosts, bounds
<1>1. /\ file' = file \/ (file["db"] = None /\ file' = [file EXCEPT !["db"] = Fresh])
      /\ pc' = "off" /\ UNCHANGED <<old, tmp, cur, failed, unaltered, overlooked, starts>>
      /\ errors' \in Nat
  BY DEF StatementFails, Stop, Erring, TypeOK
<1>2. TypeOK'
  BY <1>1, FreshIsDb DEF TypeOK, File, Content
<1>3. CopyIsWhole' /\ Reached'
  BY <1>1 DEF CopyIsWhole, Reached, Copying, Schema
<1>4. VersionsHold'
  BY <1>1, FreshIsDb DEF VersionsHold, Kept, TypeOK, File
<1> QED BY <1>2, <1>3, <1>4

(* The running process puts and deletes documents with their rows. *)
LEMMA StoreStep ==
  ASSUME IndInv, NEW e \in Doc, Put(e) \/ Delete(e)
  PROVE  /\ file["db"] \in Db /\ file["db"] # None
         /\ \E d \in Db :
              /\ file' = [file EXCEPT !["db"] = d] /\ d.origin = file["db"].origin
              /\ \/ d = [file["db"] EXCEPT !.docs = @ \cup {e}, !.rows = @ \cup {e}]
                 \/ d = [file["db"] EXCEPT !.docs = @ \ {e}, !.rows = @ \ {e}]
<1> DEFINE old0 == file["db"]
<1>1. old0 \in Db /\ old0 # None
  BY DEF IndInv, TypeOK, Reached, Schema, File, Content, Put, Delete, Step
<1>2. PICK d \in Db :
        /\ file' = [file EXCEPT !["db"] = d]
        /\ \/ d = [old0 EXCEPT !.docs = @ \cup {e}, !.rows = @ \cup {e}]
           \/ d = [old0 EXCEPT !.docs = @ \ {e}, !.rows = @ \ {e}]
  <2>1. CASE Put(e)
    BY <1>1, <2>1 DEF Put, Step, db0, Db
  <2>2. CASE Delete(e)
    BY <1>1, <2>2 DEF Delete, Step, db0, Db
  <2> QED BY <2>1, <2>2
<1>3. d.origin = old0.origin
  BY <1>1, <1>2 DEF Db
<1> QED BY <1>1, <1>2, <1>3

LEMMA StoreInd == ASSUME IndInv, NEW e \in Doc, Put(e) \/ Delete(e) PROVE IndInv'
<1> DEFINE old0 == file["db"]
<1>1. old0 \in Db /\ old0 # None /\ Kept(old0)
  BY StoreStep DEF IndInv, VersionsHold
<1>2. PICK d \in Db :
        /\ file' = [file EXCEPT !["db"] = d]
        /\ \/ d = [old0 EXCEPT !.docs = @ \cup {e}, !.rows = @ \cup {e}]
           \/ d = [old0 EXCEPT !.docs = @ \ {e}, !.rows = @ \ {e}]
  BY StoreStep
<1>3. UNCHANGED <<old, tmp, cur, failed, unaltered, overlooked, starts, errors>> /\ pc' = "up"
  BY DEF Put, Delete, Step, ghosts, bounds
<1>4. TypeOK' /\ CopyIsWhole' /\ file'["db"] = d /\ (Kept(file["db"])' => VersionsHold')
  <2>1. errors' \in Nat /\ unaltered' \in BOOLEAN /\ pc' \in Schema \cup {"up"}
    BY <1>3 DEF IndInv, TypeOK
  <2> QED BY <1>2, <1>3, <2>1, DbStep
<1>5. Kept(file["db"])'
  <2>1. /\ d.version = old0.version /\ d.documents = old0.documents /\ d.files = old0.files
        /\ d.mtime = old0.mtime /\ d.audit = old0.audit
    BY <1>1, <1>2 DEF Db
  <2>2. old0.docs \subseteq old0.rows => d.docs \subseteq d.rows
    BY <1>1, <1>2 DEF Db
  <2> QED BY <1>1, <1>3, <1>4, <2>1, <2>2 DEF Kept
<1>6. Reached'
  BY <1>3, <1>4, DbIsFile DEF Reached, Schema
<1> QED BY <1>4, <1>5, <1>6 DEF IndInv

LEMMA StepInd == IndInv /\ [Next]_vars => IndInv'
<1> SUFFICES ASSUME IndInv, [Next]_vars PROVE IndInv'
  OBVIOUS
<1>1. CASE Start \/ StartUnlocated \/ MigrateData
  BY <1>1, CopyInd
<1>2. CASE LoadConfig \/ SaveConfig
  BY <1>2, ConfigInd
<1>3. CASE OpenDb
  BY <1>3, OpenInd
<1>4. CASE Migrating
  BY <1>4, SchemaInd
<1>5. CASE StatementFails \/ Stop
  BY <1>5, EndInd
<1>6. CASE \E e \in Doc : Put(e) \/ Delete(e)
  BY <1>6, StoreInd
<1>7. CASE UNCHANGED vars
  BY <1>7 DEF vars, IndInv, TypeOK, CopyIsWhole, Reached, VersionsHold, Kept
<1> QED BY <1>1, <1>2, <1>3, <1>4, <1>5, <1>6, <1>7
        DEF Next, MigrateSchema, Serve, Migrating

LEMMA Invariance == Spec => []IndInv
<1> QED BY InitInd, StepInd, PTL DEF Spec

-----------------------------------------------------------------------------
(* Every variable keeps its type: no file of the platform's directories is *)
(* ever one that copyFile wrote in part.                                   *)
THEOREM TypeCorrect == Spec => []TypeOK
<1>1. IndInv => TypeOK
  BY DEF IndInv
<1> QED BY Invariance, <1>1, PTL

(* Wherever migrate failed or died in earlier starts, a database with the  *)
(* current user_version has all tables, and a row for every document; the  *)
(* column mtime may be missing after an ignored error only.                *)
THEOREM StampedSchemaIsComplete == Spec => []StampedIsComplete
<1>1. IndInv => StampedIsComplete
  <2> SUFFICES ASSUME IndInv, file["db"] # None, file["db"].version = CurrentSchemaVersion
               PROVE  Complete([file["db"] EXCEPT !.mtime = @ \/ unaltered])
    BY DEF StampedIsComplete
  <2>1. file["db"] \in Db /\ Kept(file["db"])
    BY DEF IndInv, TypeOK, VersionsHold, File, Content
  <2>2. /\ file["db"].documents /\ file["db"].files /\ file["db"].audit
        /\ file["db"].docs \subseteq file["db"].rows
        /\ file["db"].mtime \/ unaltered
    BY <2>1 DEF Kept, CurrentSchemaVersion
  <2> DEFINE x == [file["db"] EXCEPT !.mtime = @ \/ unaltered]
  <2>3. /\ x.documents = file["db"].documents /\ x.files = file["db"].files
        /\ x.audit = file["db"].audit /\ x.docs = file["db"].docs /\ x.rows = file["db"].rows
        /\ x.mtime = (file["db"].mtime \/ unaltered)
    BY <2>1 DEF Db
  <2> QED BY <2>2, <2>3 DEF Complete
<1> QED BY Invariance, <1>1, PTL

(* With one process at a time, a start replaces a file in use by the old   *)
(* one only when a Stat failed, and loses no document or row otherwise,    *)
(* however it fails or ends.                                               *)
THEOREM NothingInUseIsOverwritten == Spec => NothingIsOverwritten
<1> DEFINE Keeps == \A f \in File :
                      file[f] # None /\ ~(overlooked /\ pc = "rename" /\ f = cur) =>
                      /\ file'[f] \in Content(f) /\ file'[f].origin = file[f].origin
                      /\ f = "db" /\ pc # "up" =>
                           file[f].docs \subseteq file'[f].docs
                           /\ file[f].rows \subseteq file'[f].rows
<1>1. IndInv /\ [Next]_vars => [Keeps]_vars
  <2> SUFFICES ASSUME IndInv, Next PROVE Keeps
    OBVIOUS
  <2>1. ASSUME NEW f \in File, file[f] # None, file'[f] = file[f]
        PROVE  /\ file'[f] \in Content(f) /\ file'[f].origin = file[f].origin
               /\ file[f].docs \subseteq file'[f].docs /\ file[f].rows \subseteq file'[f].rows
    BY <2>1 DEF IndInv, TypeOK
  <2>2. CASE \A f \in File : file[f] # None => file'[f] = file[f]
    BY <2>1, <2>2
  <2>3. CASE \/ Start \/ StartUnlocated \/ MigrateData \/ LoadConfig \/ SaveConfig \/ OpenDb
             \/ StatementFails \/ Stop
    <3>1. file \in [File -> Db \cup Config \cup {None, Torn}] /\ cur \in File
      BY DEF IndInv, TypeOK
    <3>2. \A f \in File : file[f] # None /\ ~(overlooked /\ pc = "rename" /\ f = cur)
            => file'[f] = file[f]
      BY <2>3, <3>1 DEF Start, StartUnlocated, MigrateData, Stat, StatFails, OpenTmp, Fill,
         Rename, CopyFails, LoadConfig, SaveConfig, SavedConfig, OpenDb, StatementFails, Stop,
         IndInv, CopyIsWhole, Copying
    <3> QED BY <2>1, <3>2
  <2>4. CASE Migrating
    <3>1. PICK d \in Db : file' = [file EXCEPT !["db"] = d] /\ Migrated(file["db"], d)
      BY <2>4, SchemaStep
    <3>2. /\ file'["db"] = d /\ file'["config"] = file["config"]
      BY <3>1 DEF IndInv, TypeOK, File
    <3>3. /\ d.origin = file["db"].origin /\ file["db"].docs \subseteq d.docs
          /\ file["db"].rows \subseteq d.rows
      BY <2>4, <3>1, SchemaStep DEF Migrated, Db
    <3> QED BY <2>1, <3>2, <3>3 DEF File, Content
  <2>5. CASE \E e \in Doc : Put(e) \/ Delete(e)
    <3>1. PICK e \in Doc : Put(e) \/ Delete(e)
      BY <2>5
    <3>2. pc = "up" /\ file["db"] \in Db
      BY <3>1, StoreStep DEF Put, Delete, Step
    <3>3. PICK d \in Db :
            file' = [file EXCEPT !["db"] = d] /\ d.origin = file["db"].origin
      BY <3>1, StoreStep
    <3>4. file'["db"] = d /\ file'["config"] = file["config"]
      BY <3>3 DEF IndInv, TypeOK, File
    <3> QED BY <2>1, <3>2, <3>3, <3>4 DEF File, Content
  <2> QED BY <2>3, <2>4, <2>5 DEF Next, MigrateSchema, Serve, Migrating
<1> QED BY Invariance, <1>1, PTL DEF Spec, NothingIsOverwritten

-----------------------------------------------------------------------------
(* There is an old file that no start has copied or replaced. *)
Missing(f) == old[f] # None /\ file[f] = None

(* A start that no copy has failed is past a file only when that file is   *)
(* no longer missing.                                                      *)
OldFirst ==
  /\ \A f \in File : old[f] # None => old[f].origin = "legacy"
  /\ OldDataIsUsed
  /\ ~failed /\ pc \in {"load", "open", "up"} \cup Schema => \A f \in File : ~Missing(f)
  /\ ~failed /\ pc \in {"stat"} \cup Copying /\ cur = "config" => ~Missing("db")

LEMMA InitFirst == Init => OldFirst
<1> SUFFICES ASSUME Init PROVE OldFirst
  OBVIOUS
<1>1. /\ old["db"] \in LegacyDb /\ old["config"] \in {[origin |-> "legacy"], None}
      /\ file = [f \in File |-> None] /\ pc = "off"
  BY DEF Init
<1>2. \A f \in File : old[f] # None => old[f].origin = "legacy"
  BY <1>1, StartupAssumption DEF File
<1> QED BY <1>1, <1>2 DEF OldFirst, OldDataIsUsed, Schema, Copying

(* The steps that leave the files in use alone. *)
LEMMA StillFirst ==
  ASSUME IndInv, OldFirst,
         \/ Start \/ StartUnlocated \/ Stat \/ StatFails \/ OpenTmp \/ Fill \/ CopyFails
         \/ Stop
  PROVE  OldFirst'
<1> USE DEF IndInv, OldFirst, OldDataIsUsed, Missing, Schema, Copying, ghosts, bounds
<1>1. CASE Start \/ StartUnlocated \/ StatFails \/ OpenTmp \/ Fill \/ Stop
  BY <1>1 DEF Start, StartUnlocated, StatFails, OpenTmp, Fill, Stop
<1>2. CASE Stat
  BY <1>2 DEF Stat, Wanted, NextFile, After, TypeOK, File
<1>3. CASE CopyFails
  BY <1>3 DEF CopyFails
<1> QED BY <1>1, <1>2, <1>3

LEMMA RenameFirst == ASSUME IndInv, OldFirst, Rename PROVE OldFirst'
<1>1. /\ cur \in File /\ tmp[cur] = old[cur] /\ old[cur] # None
      /\ old[cur].origin = "legacy" /\ UNCHANGED <<old, failed>>
  BY DEF IndInv, OldFirst, TypeOK, CopyIsWhole, Copying, Rename, ghosts
<1>2. file' = [file EXCEPT ![cur] = old[cur]] /\ file \in [File -> Db \cup Config \cup {None, Torn}]
  BY <1>1 DEF IndInv, TypeOK, Rename
<1>3. file'[cur] = old[cur] /\ \A f \in File \ {cur} : file'[f] = file[f]
  BY <1>1, <1>2
<1>4. OldDataIsUsed'
  BY <1>1, <1>3 DEF OldFirst, OldDataIsUsed
<1>5. CASE cur = "db"
  BY <1>1, <1>3, <1>4, <1>5 DEF Rename, NextFile, After, OldFirst, Missing, Schema, Copying
<1>6. CASE cur = "config"
  BY <1>1, <1>3, <1>4, <1>6 DEF Rename, NextFile, After, OldFirst, Missing, Schema, Copying, File
<1> QED BY <1>1, <1>5, <1>6 DEF File

(* A file is made only where none is missing, and one that is in use keeps *)
(* its origin.                                                             *)
LEMMA MakingFirst ==
  ASSUME IndInv, OldFirst, UNCHANGED <<old, failed>>,
         pc \in {"load", "open", "up"} \cup Schema,
         pc' \in {"off", "load", "open", "up"} \cup Schema,
         \A f \in File : file[f] # None => file'[f] # None /\ file'[f].origin = file[f].origin
  PROVE  OldFirst'
<1>1. ~failed => \A f \in File : ~Missing(f)
  BY DEF OldFirst
<1>2. OldDataIsUsed'
  BY <1>1 DEF OldFirst, OldDataIsUsed, Missing
<1>3. ~failed => \A f \in File : ~Missing(f)'
  BY <1>1 DEF Missing
<1> QED BY <1>2, <1>3 DEF OldFirst, Schema, Copying

LEMMA NextFirst == IndInv /\ OldFirst /\ [Next]_vars => OldFirst'
<1> SUFFICES ASSUME IndInv, OldFirst, [Next]_vars PROVE OldFirst'
  OBVIOUS
<1>1. CASE Start \/ StartUnlocated \/ MigrateData \/ Stop
  BY <1>1, StillFirst, RenameFirst DEF MigrateData
<1>2. CASE LoadConfig \/ SaveConfig \/ OpenDb \/ StatementFails
  <2>1. /\ UNCHANGED <<old, failed>> /\ pc \in {"load", "open", "up"} \cup Schema
        /\ pc' \in {"off", "load", "open", "up"} \cup Schema
    BY <1>2 DEF LoadConfig, SaveConfig, OpenDb, StatementFails, Schema, ghosts
  <2>2. \A f \in File : file[f] # None => file'[f] = file[f]
    BY <1>2 DEF LoadConfig, SaveConfig, SavedConfig, OpenDb, StatementFails, IndInv, TypeOK
  <2> QED BY <2>1, <2>2, MakingFirst
<1>3. CASE Migrating
  <2>1. PICK d \in Db : file' = [file EXCEPT !["db"] = d] /\ Migrated(file["db"], d)
    BY <1>3, SchemaStep
  <2>2. file'["db"] = d /\ file'["config"] = file["config"] /\ d # None
    BY <2>1, DbIsFile DEF IndInv, TypeOK, File
  <2>3. d.origin = file["db"].origin
    BY <1>3, <2>1, SchemaStep DEF Migrated, Db
  <2>4. UNCHANGED <<old, failed>>
    BY <1>3, SchemaStep
  <2>5. pc \in Schema /\ pc' \in Schema \cup {"up"}
    BY <2>1 DEF Migrated, Schema
  <2> QED BY <2>2, <2>3, <2>4, <2>5, MakingFirst DEF File
<1>4. CASE \E e \in Doc : Put(e) \/ Delete(e)
  <2>1. PICK e \in Doc : Put(e) \/ Delete(e)
    BY <1>4
  <2>2. pc = "up" /\ pc' = "up" /\ UNCHANGED <<old, failed>>
    BY <2>1 DEF Put, Delete, Step, ghosts
  <2>3. PICK d \in Db : file' = [file EXCEPT !["db"] = d] /\ d.origin = file["db"].origin
    BY <2>1, StoreStep
  <2>4. file'["db"] = d /\ file'["config"] = file["config"] /\ d # None
    BY <2>3, DbIsFile DEF IndInv, TypeOK, File
  <2> QED BY <2>2, <2>3, <2>4, MakingFirst DEF File
<1>5. CASE UNCHANGED vars
  BY <1>5 DEF vars, OldFirst, OldDataIsUsed, Missing
<1> QED BY <1>1, <1>2, <1>3, <1>4, <1>5 DEF Next, MigrateSchema, Serve, Migrating

(* A start begins a file of its own beside an old one only if a copy has   *)
(* failed or was not tried, in this start or an earlier one.               *)
THEOREM OldFilesAreUsed == Spec => []OldDataIsUsed
<1>1. OldFirst => OldDataIsUsed
  BY DEF OldFirst
<1> QED BY Invariance, InitFirst, NextFirst, <1>1, PTL DEF Spec
=============================================================================
