--------------------------- MODULE SettingsProofs ---------------------------
(***************************************************************************)
(* For any number of requests, directories, modes, failed saves and        *)
(* restarts: server, manager and file agree whenever nothing is under way, *)
(* what was saved stays saved, a restart keeps a mode that was saved, and  *)
(* no accepted directory is forgotten.                                     *)
(***************************************************************************)
EXTENDS Settings, SequenceTheorems, TLAPS

USE SettingsAssumption DEF server, manager, race, jobs, bounds, GoTo, Erring, NewRoots, HasRoom,
    AfterSave, Unlocked, Locked, NoRequest, Config, Request

(* A directory on its way to the manager is the server's already. *)
AskedIsKnown == \A h \in Handler : pc[h] = "dir" /\ arg[h].dir # None => arg[h].dir \in roots

(* While a save is under way, the file to be renamed is the manager's      *)
(* configuration; the file on disk is never ahead of it, unless it could   *)
(* not be loaded, and then nothing can be saved either.                    *)
SaveHoldsConfig == /\ lock.step = "rename" => tmp = cfg /\ ~pathless
                   /\ ~pathless /\ file # None => file.dirs \subseteq cfg.dirs
                   /\ pathless => unsaved
                   /\ \A h \in Handler : pc[h] \in {"saveDir", "saveMode"} <=> lock.by = h

IndInv == TypeOK /\ AskedIsKnown /\ RootsAreConfigured /\ SaveHoldsConfig /\ SavedIsCurrent

LEMMA InitInv == Init => IndInv
  <1> SUFFICES ASSUME Init PROVE IndInv
    OBVIOUS
  <1>1. cfg \in Config /\ file \in Config \cup {None}
    BY DEF Init, InitMode, OnDisk, Loaded, Defaults
  <1>2. TypeOK
    <2>1. roots \subseteq Dir /\ override \in Mode \cup {None} /\ hwMode \in Mode
      BY <1>1 DEF Init, InitMode
    <2>2. chan \in Seq(Dir) /\ Len(chan) <= ChanCap /\ lost \subseteq Dir
      BY DEF Init, InitMode
    <2>3. added \in [Dir -> Nat] /\ watching \in [Dir -> Nat]
      BY DEF Init, InitMode
    <2>4. pc \in [Handler -> {"idle"}] /\ arg \in [Handler -> Request]
      BY DEF Init, InitMode
    <2>5. /\ latest = None /\ raced = FALSE /\ pathless \in BOOLEAN /\ unsaved \in BOOLEAN
          /\ lock = Unlocked /\ tmp = None
      BY <1>1 DEF Init, InitMode
    <2>6. posts \in Nat /\ restarts \in Nat /\ errors \in Nat
      BY DEF Init, InitMode
    <2>7. pc \in [Handler -> {"idle", "dir", "saveDir", "mode", "saveMode", "send"}]
      BY <2>4
    <2> HIDE DEF Config, Request, Unlocked
    <2>8. QED BY <1>1, <2>1, <2>2, <2>3, <2>4, <2>5, <2>6, <2>7 DEF TypeOK
  <1>3. AskedIsKnown /\ RootsAreConfigured
    BY <1>1 DEF Init, InitMode, AskedIsKnown, RootsAreConfigured
  <1>4. SaveHoldsConfig /\ SavedIsCurrent
    BY <1>1 DEF Init, InitMode, SaveHoldsConfig, SavedIsCurrent, OnDisk, Loaded, Defaults
  <1>5. QED BY <1>2, <1>3, <1>4 DEF IndInv

LEMMA PostInv == ASSUME IndInv, NEW h \in Handler, Post(h) PROVE IndInv'
  <1> USE DEF Post, IndInv
  <1>1. PICK r \in Request \ {NoRequest} :
          /\ arg' = [arg EXCEPT ![h] = r]
          /\ IF r.mode = None THEN UNCHANGED <<override, latest>>
             ELSE override' = Override(r.mode) /\ latest' = h
          /\ roots' = roots \cup ({r.dir} \ {None})
    OBVIOUS
  <1>2. TypeOK'
    <2>1. override' \in Mode \cup {None} /\ latest' \in Handler \cup {None}
      BY <1>1 DEF TypeOK, Override
    <2>2. QED BY <1>1, <2>1 DEF TypeOK
  <1>3. AskedIsKnown' /\ RootsAreConfigured'
    BY <1>1 DEF TypeOK, AskedIsKnown, RootsAreConfigured
  <1>4. SaveHoldsConfig' /\ SavedIsCurrent'
    BY DEF TypeOK, SaveHoldsConfig, SavedIsCurrent, OnDisk, Loaded, Defaults
  <1>5. QED BY <1>2, <1>3, <1>4

LEMMA LockedType ==
  ASSUME NEW h \in Handler
  PROVE  /\ Locked(h) \in [by : Handler, step : {"write", "rename"}]
         /\ Locked(h).by = h /\ Locked(h).step = "write"
         /\ Unlocked.by \notin Handler /\ Unlocked.step = "free"
  OBVIOUS

LEMMA AddDirInv == ASSUME IndInv, NEW h \in Handler, AddDir(h) PROVE IndInv'
  <1> USE DEF AddDir, IndInv
  <1> DEFINE d == arg[h].dir
  <1>0. \/ GoTo(h, "mode") /\ UNCHANGED <<cfg, lock>> /\ (d = None \/ d \in cfg.dirs)
        \/ /\ d # None /\ lock = Unlocked /\ lock' = Locked(h) /\ GoTo(h, "saveDir")
           /\ cfg' = [cfg EXCEPT !.dirs = cfg.dirs \cup {d}]
    OBVIOUS
  <1>1. TypeOK'
    <2>1. d \in Dir \cup {None} /\ cfg \in Config
      BY DEF TypeOK
    <2>2. cfg' \in Config
      <3> HIDE DEF AddDir, IndInv, d
      <3>1. QED BY <1>0, <2>1
    <2>5. lock' \in [by : Handler, step : {"write", "rename"}] \cup {Unlocked}
      BY <1>0, LockedType DEF TypeOK
    <2>6. pc \in [Handler -> {"idle", "dir", "saveDir", "mode", "saveMode", "send"}]
      BY DEF TypeOK
    <2>3. pc' \in [Handler -> {"idle", "dir", "saveDir", "mode", "saveMode", "send"}]
      <3> HIDE DEF AddDir, IndInv, d
      <3>1. QED BY <1>0, <2>6
    <2>4. QED BY <2>2, <2>3, <2>5 DEF TypeOK
  <1>2. AskedIsKnown' /\ RootsAreConfigured'
    <2>1. \A e \in Handler \ {h} : pc'[e] = pc[e]
      BY <1>0 DEF TypeOK
    <2>2. pc'[h] \in {"mode", "saveDir"}
      BY <1>0 DEF TypeOK
    <2>3. AskedIsKnown'
      BY <2>1, <2>2 DEF AskedIsKnown
    <2>4. cfg'.dirs = cfg.dirs \cup ({d} \ {None})
      BY <1>0 DEF TypeOK
    <2>5. cfg'.dirs \subseteq roots'
      BY <2>4 DEF AskedIsKnown, RootsAreConfigured
    <2>6. None \notin roots
      BY DEF TypeOK
    <2>7. \A e \in roots' \ cfg'.dirs : \E g \in Handler : pc'[g] = "dir" /\ arg'[g].dir = e
      <3>1. TAKE e \in roots' \ cfg'.dirs
      <3>2. PICK g \in Handler : pc[g] = "dir" /\ arg[g].dir = e
        BY <2>4 DEF RootsAreConfigured
      <3>3. g # h
        BY <2>4, <2>6, <3>2
      <3>4. QED BY <2>1, <3>2, <3>3
    <2>8. QED BY <2>3, <2>5, <2>7 DEF RootsAreConfigured
  <1>3. SaveHoldsConfig' /\ SavedIsCurrent'
    BY DEF TypeOK, SaveHoldsConfig, SavedIsCurrent, OnDisk, Loaded, Defaults
  <1>4. QED BY <1>1, <1>2, <1>3

LEMMA SetModeInv == ASSUME IndInv, NEW h \in Handler, SetModeOverride(h) PROVE IndInv'
  <1> USE DEF SetModeOverride, IndInv
  <1> DEFINE m == arg[h].mode
             saved == Override(m)
  <1>0. /\ pc[h] = "mode"
        /\ UNCHANGED <<server, file, tmp, pathless, unsaved, jobs, arg, bounds>>
        /\ \/ GoTo(h, "send") /\ UNCHANGED <<cfg, lock, race>>
           \/ /\ m # None /\ lock = Unlocked /\ lock' = Locked(h) /\ GoTo(h, "saveMode")
              /\ cfg' = [cfg EXCEPT !.mode = saved] /\ ModeKept(h)
    OBVIOUS
  <1>1. TypeOK'
    <2>1. m \in Mode \cup {"auto", None}
      BY DEF TypeOK
    <2>2. cfg' \in Config
      BY <1>0, <2>1 DEF TypeOK, Override
    <2>6. latest' \in Handler \cup {None} /\ raced' \in BOOLEAN
      BY <1>0 DEF TypeOK, ModeKept
    <2>3. lock' \in [by : Handler, step : {"write", "rename"}] \cup {Unlocked}
      BY <1>0, LockedType DEF TypeOK
    <2>7. pc \in [Handler -> {"idle", "dir", "saveDir", "mode", "saveMode", "send"}]
      BY DEF TypeOK
    <2>4. pc' \in [Handler -> {"idle", "dir", "saveDir", "mode", "saveMode", "send"}]
      <3> HIDE DEF SetModeOverride, IndInv, m, saved
      <3>1. QED BY <1>0, <2>7
    <2>5. QED BY <1>0, <2>2, <2>3, <2>4, <2>6 DEF TypeOK
  <1>2. AskedIsKnown' /\ RootsAreConfigured'
    <2>1. \A g \in Handler : (pc'[g] = "dir") = (pc[g] = "dir")
      BY <1>0 DEF TypeOK
    <2>2. cfg'.dirs = cfg.dirs
      BY <1>0 DEF TypeOK
    <2>3. QED BY <1>0, <2>1, <2>2 DEF AskedIsKnown, RootsAreConfigured
  <1>3. SaveHoldsConfig'
    <2>1. cfg'.dirs = cfg.dirs
      BY <1>0 DEF TypeOK
    <2>2. CASE UNCHANGED <<cfg, lock>>
      BY <1>0, <2>2 DEF TypeOK, SaveHoldsConfig
    <2>3. CASE lock = Unlocked /\ lock' = Locked(h) /\ GoTo(h, "saveMode")
      BY <1>0, <2>1, <2>3, LockedType DEF TypeOK, SaveHoldsConfig
    <2>4. QED BY <1>0, <2>2, <2>3
  <1>4. SavedIsCurrent'
    BY <1>0, LockedType DEF SavedIsCurrent, OnDisk
  <1>5. QED BY <1>1, <1>2, <1>3, <1>4

LEMMA WriteTmpInv == ASSUME IndInv, NEW h \in Handler, WriteTmp(h) PROVE IndInv'
  <1> USE DEF WriteTmp, IndInv
  <1>1. TypeOK'
    BY DEF TypeOK
  <1>2. AskedIsKnown' /\ RootsAreConfigured'
    BY DEF TypeOK, AskedIsKnown, RootsAreConfigured
  <1>3. SaveHoldsConfig' /\ SavedIsCurrent'
    BY DEF TypeOK, SaveHoldsConfig, SavedIsCurrent, OnDisk, Loaded, Defaults
  <1>4. QED BY <1>1, <1>2, <1>3

LEMMA RenameInv == ASSUME IndInv, NEW h \in Handler, Rename(h) PROVE IndInv'
  <1> USE DEF Rename, IndInv
  <1>1. file' = cfg /\ cfg \in Config
    BY DEF TypeOK, SaveHoldsConfig
  <1>2. TypeOK'
    BY <1>1 DEF TypeOK
  <1>3. AskedIsKnown' /\ RootsAreConfigured'
    BY DEF TypeOK, AskedIsKnown, RootsAreConfigured, SaveHoldsConfig
  <1>4. SaveHoldsConfig' /\ SavedIsCurrent'
    BY <1>1 DEF TypeOK, SaveHoldsConfig, SavedIsCurrent, OnDisk, Loaded, Defaults
  <1>5. QED BY <1>2, <1>3, <1>4

LEMMA SaveFailsInv == ASSUME IndInv, NEW h \in Handler, SaveFails(h) PROVE IndInv'
  <1> USE DEF SaveFails, IndInv
  <1>1. TypeOK'
    BY DEF TypeOK
  <1>2. AskedIsKnown' /\ RootsAreConfigured'
    BY DEF TypeOK, AskedIsKnown, RootsAreConfigured, SaveHoldsConfig
  <1>3. SaveHoldsConfig' /\ SavedIsCurrent'
    BY DEF TypeOK, SaveHoldsConfig, SavedIsCurrent
  <1>4. QED BY <1>1, <1>2, <1>3

LEMMA SendInv == ASSUME IndInv, NEW h \in Handler, Send(h) PROVE IndInv'
  <1> USE DEF Send, IndInv
  <1>1. chan' \in Seq(Dir) /\ Len(chan') <= ChanCap
    BY DEF TypeOK
  <1>2. TypeOK'
    BY <1>1 DEF TypeOK
  <1>3. AskedIsKnown' /\ RootsAreConfigured'
    BY DEF TypeOK, AskedIsKnown, RootsAreConfigured
  <1>4. SaveHoldsConfig' /\ SavedIsCurrent'
    BY DEF TypeOK, SaveHoldsConfig, SavedIsCurrent, OnDisk, Loaded, Defaults
  <1>5. QED BY <1>2, <1>3, <1>4

(* The goroutines of main.go touch neither the configuration nor requests. *)
LEMMA JobsInv ==
  ASSUME IndInv, NEW d \in Dir, Dispatch \/ Indexed(d) \/ IndexFails(d)
  PROVE  IndInv'
  <1> USE DEF IndInv
  <1>1. UNCHANGED <<server, manager, race, pc, arg>>
    BY DEF Dispatch, Indexed, IndexFails
  <1>2. TypeOK'
    <2>1. CASE Dispatch
      <3>1. /\ Head(chan) \in Dir /\ Tail(chan) \in Seq(Dir) /\ Len(Tail(chan)) <= ChanCap
        BY <2>1 DEF Dispatch, TypeOK
      <3>2. added' \in [Dir -> Nat]
        <4>1. added \in [Dir -> Nat]
          BY DEF TypeOK
        <4>2. added' = [added EXCEPT ![Head(chan)] = @ + 1]
          BY <2>1 DEF Dispatch
        <4> HIDE DEF IndInv
        <4>3. \A e \in Dir : added[e] + 1 \in Nat
          BY <4>1
        <4>4. QED BY <3>1, <4>1, <4>2, <4>3
      <3>3. chan' \in Seq(Dir) /\ Len(chan') <= ChanCap /\ UNCHANGED <<watching, lost, bounds>>
        BY <2>1, <3>1 DEF Dispatch
      <3>4. QED BY <1>1, <3>2, <3>3 DEF TypeOK
    <2>2. CASE Indexed(d)
      BY <2>2 DEF Indexed, TypeOK
    <2>3. CASE IndexFails(d)
      BY <2>3 DEF IndexFails, TypeOK
    <2>4. QED BY <2>1, <2>2, <2>3
  <1>3. AskedIsKnown' /\ RootsAreConfigured'
    BY <1>1 DEF AskedIsKnown, RootsAreConfigured
  <1>4. SaveHoldsConfig' /\ SavedIsCurrent'
    BY <1>1 DEF SaveHoldsConfig, SavedIsCurrent, OnDisk, Loaded, Defaults
  <1>5. QED BY <1>2, <1>3, <1>4

LEMMA RestartConfig ==
  ASSUME IndInv, Restart
  PROVE  \E c \in Config :
           /\ Start(c) /\ OnDisk \in Config
           /\ file' = file \/ file' = c
           /\ pathless' \in BOOLEAN /\ unsaved' \in BOOLEAN
           /\ tmp' \in {tmp, c, Torn, None}
           /\ restarts' = restarts + 1 /\ posts' = posts /\ errors' \in {errors, errors + 1}
           /\ ~pathless' => OnDisk.dirs \subseteq c.dirs /\ c.mode = OnDisk.mode
           /\ pathless' => unsaved' /\ file' = file
           /\ ~unsaved' => OnDisk' = c
  <1>1. PICK d \in Dir \cup {None}, err \in BOOLEAN :
          LET c == [Loaded(err) EXCEPT !.dirs = @ \cup ({d} \ {None})] IN
          /\ Start(c)
          /\ pathless' = err
          /\ IF err \/ c = OnDisk THEN UNCHANGED <<file, tmp, errors>> /\ unsaved' = err
             ELSE \/ file' = c /\ tmp' = None /\ unsaved' = FALSE /\ UNCHANGED errors
                  \/ Erring /\ unsaved' = TRUE /\ UNCHANGED file /\ tmp' \in {tmp, c, Torn}
    BY DEF Restart
  <1> DEFINE found == Loaded(err)
             c == [found EXCEPT !.dirs = found.dirs \cup ({d} \ {None})]
  <1>2. OnDisk \in Config /\ found \in Config /\ (~err => found = OnDisk)
    BY DEF IndInv, TypeOK, OnDisk, Loaded, Defaults
  <1>3. c \in Config /\ c # None /\ found.dirs \subseteq c.dirs /\ c.mode = found.mode
    BY <1>2
  <1>4. /\ file' = file \/ file' = c
        /\ pathless' => unsaved' /\ file' = file
        /\ tmp' \in {tmp, c, Torn, None} /\ errors' \in {errors, errors + 1}
        /\ pathless' = err /\ unsaved' \in BOOLEAN
    BY <1>1
  <1>5. ~unsaved' => OnDisk' = c
    BY <1>1, <1>3 DEF OnDisk
  <1>6. Start(c) /\ restarts' = restarts + 1 /\ posts' = posts
    BY <1>1 DEF Restart
  <1> HIDE DEF c, found
  <1>7. QED BY <1>2, <1>3, <1>4, <1>5, <1>6

LEMMA RestartInv == ASSUME IndInv, Restart PROVE IndInv'
  <1> USE DEF IndInv
  <1>1. PICK c \in Config :
          /\ Start(c) /\ OnDisk \in Config
          /\ file' = file \/ file' = c
          /\ pathless' \in BOOLEAN /\ unsaved' \in BOOLEAN
          /\ tmp' \in {tmp, c, Torn, None}
          /\ restarts' = restarts + 1 /\ posts' = posts /\ errors' \in {errors, errors + 1}
          /\ ~pathless' => OnDisk.dirs \subseteq c.dirs /\ c.mode = OnDisk.mode
          /\ pathless' => unsaved' /\ file' = file
          /\ ~unsaved' => OnDisk' = c
    BY RestartConfig
  <1>2. /\ cfg' = c /\ lock' = Unlocked /\ roots' = c.dirs
        /\ pc' = [h \in Handler |-> "idle"] /\ arg' = [h \in Handler |-> NoRequest]
    BY <1>1 DEF Start
  <1>3. TypeOK'
    <2>1. restarts' \in Nat /\ posts' \in Nat /\ errors' \in Nat
      BY <1>1 DEF TypeOK
    <2>2. file' \in Config \cup {None} /\ tmp' \in Config \cup {None, Torn}
      BY <1>1 DEF TypeOK
    <2>3. /\ roots' \subseteq Dir /\ cfg' \in Config /\ lock' = Unlocked
          /\ pc' \in [Handler -> {"idle", "dir", "saveDir", "mode", "saveMode", "send"}]
          /\ arg' \in [Handler -> Request]
      BY <1>2
    <2>4. /\ override' = None /\ hwMode' \in Mode
          /\ latest' = None /\ raced' = FALSE /\ lost' = {}
      BY <1>1 DEF Start, InitMode
    <2>5. /\ chan' \in Seq(Dir) /\ Len(chan') <= ChanCap
          /\ added' \in [Dir -> Nat] /\ watching' \in [Dir -> Nat]
      BY <1>1 DEF Start
    <2>6. pathless' \in BOOLEAN /\ unsaved' \in BOOLEAN
      BY <1>1
    <2> HIDE DEF Config, Request, Unlocked
    <2>7. QED BY <2>1, <2>2, <2>3, <2>4, <2>5, <2>6 DEF TypeOK
  <1>4. AskedIsKnown' /\ RootsAreConfigured'
    BY <1>2 DEF AskedIsKnown, RootsAreConfigured
  <1>5. SaveHoldsConfig'
    <2>1. ~pathless' /\ file' # None => file'.dirs \subseteq cfg'.dirs
      BY <1>1, <1>2 DEF OnDisk
    <2>2. QED BY <1>1, <1>2, <2>1 DEF SaveHoldsConfig
  <1>6. SavedIsCurrent'
    BY <1>1, <1>2 DEF SavedIsCurrent
  <1>7. QED BY <1>3, <1>4, <1>5, <1>6

LEMMA NextInv == IndInv /\ [Next]_vars => IndInv'
  <1> SUFFICES ASSUME IndInv, [Next]_vars PROVE IndInv'
    OBVIOUS
  <1>1. ASSUME NEW h \in Handler, Post(h) \/ Handling(h) PROVE IndInv'
    BY <1>1, PostInv, AddDirInv, SetModeInv, WriteTmpInv, RenameInv, SaveFailsInv, SendInv
       DEF Handling
  <1>2. ASSUME NEW d \in Dir, Indexed(d) \/ IndexFails(d) PROVE IndInv'
    BY <1>2, JobsInv
  <1>3. CASE Dispatch
    <2>1. Head(chan) \in Dir
      BY <1>3 DEF Dispatch, IndInv, TypeOK
    <2>2. QED BY <1>3, <2>1, JobsInv
  <1>4. CASE Restart
    BY <1>4, RestartInv
  <1>5. CASE UNCHANGED vars
    BY <1>5 DEF vars, IndInv, TypeOK, AskedIsKnown, RootsAreConfigured, SaveHoldsConfig,
               SavedIsCurrent, OnDisk, Loaded, Defaults
  <1>6. QED BY <1>1, <1>2, <1>3, <1>4, <1>5 DEF Next

LEMMA Inductive == Spec => []IndInv
  BY InitInv, NextInv, PTL DEF Spec

-----------------------------------------------------------------------------
(* Every variable of Settings keeps its type. *)
THEOREM TypeCorrect == Spec => []TypeOK
  <1>1. IndInv => TypeOK
    BY DEF IndInv
  <1>2. QED BY Inductive, <1>1, PTL

(* The file changes only by a rename of the manager's configuration or by  *)
(* a start that adds to it: no directory is ever lost.                     *)
LEMMA FileOnlyGrows ==
  ASSUME IndInv, [Next]_vars, NEW d \in Dir, file # None, d \in file.dirs
  PROVE  file' \in Config /\ d \in file'.dirs
  <1> USE DEF IndInv
  <1>1. file \in Config /\ (~pathless => file.dirs \subseteq cfg.dirs)
    BY DEF TypeOK, SaveHoldsConfig
  <1>2. CASE file' = file
    BY <1>1, <1>2
  <1>3. ASSUME NEW h \in Handler, Rename(h) PROVE file' = cfg /\ cfg \in Config /\ ~pathless
    BY <1>3 DEF Rename, TypeOK, SaveHoldsConfig
  <1>4. ASSUME Restart PROVE file' \in Config /\ d \in file'.dirs
    BY <1>1, <1>4, RestartConfig DEF OnDisk
  <1>5. CASE file' # file
    <2>1. (\E h \in Handler : Rename(h)) \/ Restart
      BY <1>5 DEF Next, vars, Post, Handling, AddDir, SetModeOverride, WriteTmp, SaveFails, Send,
                  Dispatch, Indexed, IndexFails
    <2>2. QED BY <1>1, <1>3, <1>4, <2>1
  <1>6. QED BY <1>2, <1>5

(* A directory that was saved once is in the file for good. *)
THEOREM NoDirectoryIsLost == Spec => SavedDirsStay
  <1>1. IndInv /\ [Next]_vars =>
          [\A d \in Dir : file # None /\ d \in file.dirs
             => file' \in Config /\ d \in file'.dirs]_vars
    BY FileOnlyGrows
  <1>2. QED BY Inductive, <1>1, PTL DEF Spec, SavedDirsStay

-----------------------------------------------------------------------------
(* The server's mode is the latest request's, until that has told the      *)
(* manager.                                                                *)
LatestIsUnderWay ==
  latest # None => /\ pc[latest] \in {"dir", "saveDir", "mode"}
                   /\ arg[latest].mode # None
                   /\ override = Override(arg[latest].mode)

(* Only a save of the mode changes the mode on disk. *)
ModeIsOnDisk ==
  ~unsaved /\ (\A h \in Handler : pc[h] # "saveMode") => OnDisk.mode = cfg.mode

ModeInv == LatestIsUnderWay /\ ModesAgree /\ ModeIsOnDisk

LEMMA InitModes == Init => ModeInv
  BY DEF Init, InitMode, OnDisk, Loaded, Defaults, ModeInv, LatestIsUnderWay, ModesAgree,
         ModeIsOnDisk

LEMMA PostModes == ASSUME IndInv, ModeInv, NEW h \in Handler, Post(h) PROVE ModeInv'
  <1>1. PICK r \in Request \ {NoRequest} :
          /\ arg' = [arg EXCEPT ![h] = r]
          /\ IF r.mode = None THEN UNCHANGED <<override, latest>>
             ELSE override' = Override(r.mode) /\ latest' = h
    BY DEF Post
  <1>2. /\ pc[h] = "idle" /\ pc' = [pc EXCEPT ![h] = "dir"]
        /\ UNCHANGED <<hwMode, cfg, file, unsaved, raced>>
    BY DEF Post
  <1>3. /\ pc \in [Handler -> {"idle", "dir", "saveDir", "mode", "saveMode", "send"}]
        /\ arg \in [Handler -> Request] /\ latest \in Handler \cup {None}
    BY DEF IndInv, TypeOK
  <1>4. /\ pc'[h] = "dir" /\ arg'[h] = r
        /\ \A g \in Handler \ {h} : pc'[g] = pc[g] /\ arg'[g] = arg[g]
    BY <1>1, <1>2, <1>3
  <1>5. LatestIsUnderWay'
    <2>1. CASE r.mode = None
      <3>1. latest # h
        BY <1>2 DEF ModeInv, LatestIsUnderWay
      <3>2. QED BY <1>1, <1>3, <1>4, <2>1, <3>1 DEF ModeInv, LatestIsUnderWay
    <2>2. CASE r.mode # None
      BY <1>1, <1>4, <2>2 DEF LatestIsUnderWay
    <2>3. QED BY <2>1, <2>2
  <1>6. ModesAgree'
    BY <1>1, <1>2 DEF ModeInv, ModesAgree
  <1>7. ModeIsOnDisk'
    BY <1>2, <1>3, <1>4 DEF ModeInv, ModeIsOnDisk, OnDisk
  <1>8. QED BY <1>5, <1>6, <1>7 DEF ModeInv

(* The request whose mode the manager gets is the latest, or an older one  *)
(* has raced it.                                                           *)
LEMMA SetModes == ASSUME IndInv, ModeInv, NEW h \in Handler, SetModeOverride(h) PROVE ModeInv'
  <1>1. /\ pc \in [Handler -> {"idle", "dir", "saveDir", "mode", "saveMode", "send"}]
        /\ cfg \in Config /\ latest \in Handler \cup {None} /\ raced \in BOOLEAN
    BY DEF IndInv, TypeOK
  <1>2. UNCHANGED <<override, hwMode, file, unsaved, arg>> /\ pc[h] = "mode"
    BY DEF SetModeOverride
  <1>3. CASE arg[h].mode = None
    <2>1. pc' = [pc EXCEPT ![h] = "send"] /\ UNCHANGED <<cfg, latest, raced>>
      BY <1>3 DEF SetModeOverride
    <2>2. pc'[h] = "send" /\ \A g \in Handler \ {h} : pc'[g] = pc[g]
      BY <1>1, <2>1
    <2>3. latest # h
      BY <1>3 DEF ModeInv, LatestIsUnderWay
    <2>4. LatestIsUnderWay'
      BY <1>1, <1>2, <2>1, <2>2, <2>3 DEF ModeInv, LatestIsUnderWay
    <2>5. ModesAgree' /\ ModeIsOnDisk'
      BY <1>1, <1>2, <2>1, <2>2 DEF ModeInv, ModesAgree, ModeIsOnDisk, OnDisk
    <2>6. QED BY <2>4, <2>5 DEF ModeInv
  <1>4. CASE arg[h].mode # None
    <2>1. /\ pc' = [pc EXCEPT ![h] = "saveMode"]
          /\ cfg' = [cfg EXCEPT !.mode = Override(arg[h].mode)]
          /\ raced' = (latest # h /\ (latest = None \/ raced))
          /\ latest' = IF latest = h THEN None ELSE latest
      BY <1>4 DEF SetModeOverride, ModeKept
    <2>2. pc'[h] = "saveMode" /\ \A g \in Handler \ {h} : pc'[g] = pc[g]
      BY <1>1, <2>1
    <2>3. cfg'.mode = Override(arg[h].mode)
      BY <1>1, <2>1
    <2>4. LatestIsUnderWay'
      BY <1>1, <1>2, <2>1, <2>2 DEF ModeInv, LatestIsUnderWay
    <2>5. latest = h => cfg'.mode = override'
      BY <1>2, <2>3 DEF ModeInv, LatestIsUnderWay
    <2>6. ModesAgree'
      BY <2>1, <2>5 DEF ModesAgree
    <2>7. ModeIsOnDisk'
      BY <2>2 DEF ModeIsOnDisk
    <2>8. QED BY <2>4, <2>6, <2>7 DEF ModeInv
  <1>5. QED BY <1>3, <1>4

(* The steps before and after it keep the modes. *)
LEMMA OtherModes ==
  ASSUME IndInv, ModeInv, NEW h \in Handler,
         AddDir(h) \/ WriteTmp(h) \/ Rename(h) \/ SaveFails(h) \/ Send(h)
  PROVE  ModeInv'
  <1>1. /\ pc \in [Handler -> {"idle", "dir", "saveDir", "mode", "saveMode", "send"}]
        /\ cfg \in Config /\ latest \in Handler \cup {None} /\ arg \in [Handler -> Request]
    BY DEF IndInv, TypeOK
  <1>2. UNCHANGED <<override, hwMode, latest, raced>>
    BY DEF AddDir, WriteTmp, Rename, SaveFails, Send
  <1>3. cfg'.mode = cfg.mode
    BY <1>1 DEF AddDir, WriteTmp, Rename, SaveFails, Send
  <1>4. ModesAgree'
    BY <1>2, <1>3 DEF ModeInv, ModesAgree
  <1>5. \A g \in Handler \ {h} : pc'[g] = pc[g] /\ arg'[g] = arg[g]
    BY <1>1 DEF AddDir, WriteTmp, Rename, SaveFails, Send
  <1>6. lock.by = h => pc[h] \in {"saveDir", "saveMode"}
    BY DEF IndInv, SaveHoldsConfig
  <1>7. pc[h] \in {"dir", "saveDir", "mode"} =>
          pc'[h] \in {"dir", "saveDir", "mode"} /\ arg'[h] = arg[h]
    BY <1>1, <1>6 DEF AddDir, WriteTmp, Rename, SaveFails, Send
  <1>8. LatestIsUnderWay'
    BY <1>1, <1>2, <1>5, <1>7 DEF ModeInv, LatestIsUnderWay
  <1>9. ModeIsOnDisk'
    <2>1. CASE Rename(h)
      <3>1. file' = cfg /\ cfg' = cfg /\ cfg # None
        BY <1>1, <2>1 DEF Rename, IndInv, SaveHoldsConfig
      <3>2. QED BY <3>1 DEF ModeIsOnDisk, OnDisk
    <2>2. CASE SaveFails(h)
      BY <2>2 DEF SaveFails, ModeIsOnDisk
    <2>3. CASE AddDir(h) \/ WriteTmp(h) \/ Send(h)
      <3>1. UNCHANGED <<file, unsaved>> /\ (pc[h] = "saveMode" => pc'[h] = "saveMode")
        BY <1>1, <2>3 DEF AddDir, WriteTmp, Send
      <3>2. QED BY <1>3, <1>5, <3>1 DEF ModeInv, ModeIsOnDisk, OnDisk
    <2>4. QED BY <2>1, <2>2, <2>3
  <1>10. QED BY <1>4, <1>8, <1>9 DEF ModeInv

LEMMA NextModes == IndInv /\ ModeInv /\ [Next]_vars => ModeInv'
  <1> SUFFICES ASSUME IndInv, ModeInv, [Next]_vars PROVE ModeInv'
    OBVIOUS
  <1>1. ASSUME NEW h \in Handler, Post(h) \/ Handling(h) PROVE ModeInv'
    BY <1>1, PostModes, SetModes, OtherModes DEF Handling
  <1>2. CASE Restart
    <2>1. PICK c \in Config : Start(c) /\ (~unsaved' => OnDisk' = c)
      BY <1>2, RestartConfig
    <2>2. /\ cfg' = c /\ latest' = None /\ override' = None
          /\ hwMode' = IF c.mode = None THEN Detected ELSE c.mode
      BY <2>1 DEF Start, InitMode
    <2>3. QED BY <2>1, <2>2 DEF ModeInv, LatestIsUnderWay, ModesAgree, ModeIsOnDisk
  <1>3. CASE Dispatch \/ (\E d \in Dir : Indexed(d) \/ IndexFails(d)) \/ UNCHANGED vars
    <2>1. UNCHANGED <<override, hwMode, cfg, file, unsaved, latest, raced, pc, arg>>
      BY <1>3 DEF Dispatch, Indexed, IndexFails, vars
    <2>2. QED BY <2>1 DEF ModeInv, LatestIsUnderWay, ModesAgree, ModeIsOnDisk, OnDisk
  <1>4. QED BY <1>1, <1>2, <1>3 DEF Next

LEMMA ModesInductive == Spec => [](IndInv /\ ModeInv)
  BY InitInv, NextInv, InitModes, NextModes, PTL DEF Spec

(* What save leaves in config.json, when it can be written, is what the    *)
(* manager holds, since the lock is held from the change to the rename;    *)
(* the server's roots and the manager's directories differ only by those   *)
(* of requests between the two; and their modes only until the request     *)
(* that set the server's has told the manager, or when an older one told   *)
(* the manager after that.                                                 *)
THEOREM CopiesStayInStep == Spec => []CopiesAgree
  <1>1. IndInv /\ ModeInv => CopiesAgree
    BY DEF IndInv, ModeInv, CopiesAgree
  <1>2. QED BY ModesInductive, <1>1, PTL

(* A new process takes from the file the mode the old one worked in, when  *)
(* that is in the file.                                                    *)
LEMMA ModeReturns ==
  ASSUME IndInv, ModeInv, Restart, latest = None, ~raced, ~unsaved, ~pathless',
         \A h \in Handler : pc[h] # "saveMode",
         override # None \/ cfg.mode # None \/ hwMode = Detected
  PROVE  effectiveMode' = effectiveMode
  <1>1. PICK c \in Config : Start(c) /\ c.mode = OnDisk.mode
    BY RestartConfig
  <1>2. c.mode = cfg.mode
    BY <1>1 DEF ModeInv, ModeIsOnDisk
  <1>3. override' = None /\ hwMode' = IF c.mode = None THEN Detected ELSE c.mode
    BY <1>1 DEF Start, InitMode
  <1>4. cfg.mode = override \/ (override = None /\ cfg.mode = hwMode)
    BY DEF ModeInv, ModesAgree
  <1>5. QED BY <1>2, <1>3, <1>4 DEF effectiveMode

(* A restart changes the mode in effect only where it was not saved, or    *)
(* could not be read; or for "auto", in a process started with a mode.     *)
THEOREM ModeOutlivesProcess == Spec => ModeSurvives
  <1>1. IndInv /\ ModeInv /\ [Next]_vars =>
          [/\ restarts' # restarts
           /\ latest = None /\ ~raced /\ ~unsaved /\ ~pathless'
           /\ \A h \in Handler : pc[h] # "saveMode"
           /\ override # None \/ cfg.mode # None \/ hwMode = Detected
           => effectiveMode' = effectiveMode]_vars
    <2>1. [Next]_vars /\ restarts' # restarts => Restart
      BY DEF Next, vars, Post, Handling, AddDir, SetModeOverride, WriteTmp, Rename, SaveFails,
             Send, Dispatch, Indexed, IndexFails
    <2>2. QED BY <2>1, ModeReturns
  <1>2. QED BY ModesInductive, <1>1, PTL DEF Spec, ModeSurvives

-----------------------------------------------------------------------------
(* What d may be, when it is not lost. *)
OnItsWay(d) == \/ watching[d] > 0 \/ added[d] > 0
               \/ \E i \in 1 .. Len(chan) : chan[i] = d
               \/ \E h \in Handler : pc[h] # "idle" /\ arg[h].dir = d

LEMMA NotForgotten ==
  ASSUME NoDirForgotten, NEW d \in roots \ lost PROVE OnItsWay(d)
  BY DEF OnItsWay, NoDirForgotten, Contains

LEMMA InitDirs == Init => NoDirForgotten
  BY DEF Init, OnDisk, Loaded, Defaults, NoDirForgotten

(* Handlers, up to the last step of each. *)
LEMMA HandlerDirs ==
  ASSUME IndInv, NoDirForgotten, NEW h \in Handler,
         Post(h) \/ AddDir(h) \/ SetModeOverride(h) \/ WriteTmp(h) \/ Rename(h) \/ SaveFails(h)
  PROVE  NoDirForgotten'
  <1>1. /\ UNCHANGED jobs
        /\ pc \in [Handler -> {"idle", "dir", "saveDir", "mode", "saveMode", "send"}]
        /\ arg \in [Handler -> Request]
    BY DEF Post, AddDir, SetModeOverride, WriteTmp, Rename, SaveFails, IndInv, TypeOK
  <1>2. CASE Post(h)
    <2>1. PICK r \in Request : arg' = [arg EXCEPT ![h] = r] /\ roots' = roots \cup ({r.dir} \ {None})
      BY <1>2 DEF Post
    <2>2. pc[h] = "idle" /\ pc' = [pc EXCEPT ![h] = "dir"]
      BY <1>2 DEF Post
    <2>3. ASSUME NEW e \in roots' \ lost' PROVE OnItsWay(e)'
      <3>1. CASE e = r.dir
        BY <1>1, <2>1, <2>2, <3>1 DEF OnItsWay
      <3>2. CASE e \in roots
        <4>1. OnItsWay(e)
          BY <1>1, <2>3, <3>2, NotForgotten
        <4>2. \A g \in Handler : pc[g] # "idle" => pc'[g] # "idle" /\ arg'[g] = arg[g]
          BY <1>1, <2>1, <2>2
        <4>3. QED BY <1>1, <4>1, <4>2 DEF OnItsWay
      <3>3. QED BY <2>1, <2>3, <3>1, <3>2
    <2>4. QED BY <2>3 DEF OnItsWay, NoDirForgotten, Contains
  <1>3. CASE ~Post(h)
    <2>1. UNCHANGED <<roots, arg>>
      BY <1>3 DEF AddDir, SetModeOverride, WriteTmp, Rename, SaveFails
    <2>2. \A g \in Handler : pc[g] # "idle" => pc'[g] # "idle"
      BY <1>1, <1>3 DEF AddDir, SetModeOverride, WriteTmp, Rename, SaveFails
    <2>3. QED BY <1>1, <2>1, <2>2 DEF NoDirForgotten
  <1>4. QED BY <1>2, <1>3

(* A directory leaves its request for the channel, or is lost. *)
LEMMA SendDirs == ASSUME IndInv, NoDirForgotten, NEW h \in Handler, Send(h) PROVE NoDirForgotten'
  <1> DEFINE d == arg[h].dir
  <1>1. /\ pc \in [Handler -> {"idle", "dir", "saveDir", "mode", "saveMode", "send"}]
        /\ arg \in [Handler -> Request] /\ chan \in Seq(Dir) /\ roots \subseteq Dir
    BY DEF IndInv, TypeOK
  <1>2. UNCHANGED <<roots, added, watching>>
    BY DEF Send
  <1>3. ASSUME NEW e \in roots' \ lost' PROVE OnItsWay(e)'
    <2>1. OnItsWay(e) /\ e # None
      BY <1>1, <1>2, <1>3, NotForgotten DEF Send
    <2>2. ASSUME NEW i \in 1 .. Len(chan), chan[i] = e PROVE \E j \in 1 .. Len(chan') : chan'[j] = e
      BY <1>1, <2>2 DEF Send
    <2>3. ASSUME e = d PROVE \E j \in 1 .. Len(chan') : chan'[j] = e
      <3>1. d \in Dir /\ HasRoom(d) /\ chan' = Append(chan, d)
        BY <1>1, <1>2, <1>3, <2>1, <2>3 DEF Send
      <3>2. chan'[Len(chan) + 1] = d /\ Len(chan') = Len(chan) + 1 /\ Len(chan) \in Nat
        BY <1>1, <3>1
      <3>3. QED BY <2>3, <3>2
    <2>4. \A g \in Handler \ {h} : pc'[g] = pc[g] /\ arg'[g] = arg[g]
      BY <1>1 DEF Send
    <2>5. QED BY <1>2, <2>1, <2>2, <2>3, <2>4 DEF OnItsWay
  <1>4. QED BY <1>3 DEF OnItsWay, NoDirForgotten, Contains

(* ... and the channel for an indexer, the indexer for a watcher. *)
LEMMA JobDirs ==
  ASSUME IndInv, NoDirForgotten, Dispatch \/ \E d \in Dir : Indexed(d) \/ IndexFails(d)
  PROVE  NoDirForgotten'
  <1>1. UNCHANGED <<roots, pc, arg>> /\ chan \in Seq(Dir) /\ roots \subseteq Dir
        /\ added \in [Dir -> Nat] /\ watching \in [Dir -> Nat] /\ lost \subseteq lost'
    BY DEF Dispatch, Indexed, IndexFails, IndInv, TypeOK
  <1>2. ASSUME NEW e \in roots' \ lost' PROVE OnItsWay(e)'
    <2>1. OnItsWay(e) /\ e \in Dir
      BY <1>1, <1>2, NotForgotten
    <2>2. CASE Dispatch
      <3>1. Head(chan) \in Dir /\ UNCHANGED watching /\ chan' = Tail(chan)
            /\ added' = [added EXCEPT ![Head(chan)] = added[Head(chan)] + 1]
        BY <1>1, <2>2 DEF Dispatch
      <3>2. added[e] > 0 => added'[e] > 0
        BY <1>1, <2>1, <3>1
      <3>3. ASSUME NEW i \in 1 .. Len(chan), chan[i] = e
            PROVE  added'[e] > 0 \/ \E j \in 1 .. Len(chan') : chan'[j] = e
        <4>1. CASE i = 1
          <5>1. e = Head(chan)
            BY <1>1, <3>3, <4>1
          <5>2. QED BY <1>1, <2>1, <3>1, <5>1
        <4>2. CASE i # 1
          <5>1. chan # <<>> /\ Len(chan) \in Nat
            BY <1>1, <2>2 DEF Dispatch
          <5>2. i - 1 \in 1 .. Len(chan) - 1 /\ (i - 1) + 1 = i
            BY <3>3, <4>2, <5>1
          <5>3. /\ Len(Tail(chan)) = Len(chan) - 1
                /\ \A j \in 1 .. Len(Tail(chan)) : Tail(chan)[j] = chan[j + 1]
            BY <1>1, <5>1, HeadTailProperties
          <5>4. i - 1 \in 1 .. Len(Tail(chan)) /\ Tail(chan)[i - 1] = chan[i]
            BY <5>2, <5>3
          <5>5. QED BY <3>1, <3>3, <5>4
        <4>3. QED BY <4>1, <4>2
      <3>4. QED BY <1>1, <2>1, <3>1, <3>2, <3>3 DEF OnItsWay
    <2>3. ASSUME NEW d \in Dir, Indexed(d) PROVE OnItsWay(e)'
      <3>1. /\ UNCHANGED chan /\ watching' = [watching EXCEPT ![d] = watching[d] + 1]
            /\ added' = [added EXCEPT ![d] = added[d] - 1]
        BY <2>3 DEF Indexed
      <3>2. CASE e = d
        BY <1>1, <2>1, <3>1, <3>2 DEF OnItsWay
      <3>3. CASE e # d
        BY <1>1, <2>1, <3>1, <3>3 DEF OnItsWay
      <3>4. QED BY <3>2, <3>3
    <2>4. ASSUME NEW d \in Dir, IndexFails(d) PROVE OnItsWay(e)'
      <3>1. /\ UNCHANGED <<chan, watching>> /\ lost' = lost \cup {d}
            /\ added' = [added EXCEPT ![d] = added[d] - 1]
        BY <2>4 DEF IndexFails
      <3>2. e # d
        BY <1>2, <3>1
      <3>3. QED BY <1>1, <2>1, <3>1, <3>2 DEF OnItsWay
    <2>5. QED BY <2>2, <2>3, <2>4
  <1>3. QED BY <1>2 DEF OnItsWay, NoDirForgotten, Contains

LEMMA NextDirs == IndInv /\ NoDirForgotten /\ [Next]_vars => NoDirForgotten'
  <1> SUFFICES ASSUME IndInv, NoDirForgotten, [Next]_vars PROVE NoDirForgotten'
    OBVIOUS
  <1>1. ASSUME NEW h \in Handler, Post(h) \/ Handling(h) PROVE NoDirForgotten'
    BY <1>1, HandlerDirs, SendDirs DEF Handling
  <1>2. CASE Dispatch \/ \E d \in Dir : Indexed(d) \/ IndexFails(d)
    BY <1>2, JobDirs
  <1>3. CASE Restart
    <2>1. PICK c \in Config : Start(c)
      BY <1>3, RestartConfig
    <2>2. /\ roots' = c.dirs /\ c.dirs \subseteq Dir
          /\ watching' = [d \in Dir |-> IF d \in c.dirs THEN 1 ELSE 0]
      BY <2>1 DEF Start
    <2>3. QED BY <2>2 DEF NoDirForgotten
  <1>4. CASE UNCHANGED vars
    BY <1>4 DEF vars, NoDirForgotten
  <1>5. QED BY <1>1, <1>2, <1>3, <1>4 DEF Next

(* A directory that was accepted is watched or on its way there, unless    *)
(* the full channel or a failed run dropped it.                            *)
THEOREM NoDirectoryIsForgotten == Spec => []NoDirForgotten
  BY Inductive, InitDirs, NextDirs, PTL DEF Spec
=============================================================================
