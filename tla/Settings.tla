------------------------------- MODULE Settings -------------------------------
(***************************************************************************)
(* POST /api/settings and what hangs on it: handleSettings changes the     *)
(* server's copy of directories and mode under Server.mu, then the config  *)
(* manager's copy under Manager.mu, which saves it to config.json (write a *)
(* temporary file, rename it), then hands the directory to the goroutine   *)
(* of main.go that starts an indexer and a watcher for it.  The process    *)
(* may die anywhere and start again from the file.                         *)
(***************************************************************************)
EXTENDS Naturals, Sequences, SequencesExt

CONSTANTS Dir,          \* directories that pass handleSettings' checks
          Mode,         \* mode names
          Detected,     \* what hardware.Detect finds
          Handler,      \* requests in flight
          None,         \* no directory, no mode, no owner of the lock
          Torn,         \* a file written in part
          ChanCap,      \* capacity of dirChangeCh
          FirstFile,    \* what config.json may hold at the first start
          MaxPosts, MaxRestarts, MaxErrors  \* bounds

Config  == [dirs : SUBSET Dir, mode : Mode \cup {None}]
Request == [dir : Dir \cup {None}, mode : Mode \cup {"auto", None}]

ASSUME SettingsAssumption == /\ Detected \in Mode
                             /\ None \notin Dir \cup Mode \cup Handler \cup {"auto"} \cup Config
                             /\ Torn \notin Config \cup {None}
                             /\ "auto" \notin Mode
                             /\ ChanCap \in Nat
                             /\ FirstFile \subseteq Config \cup {None}

VARIABLES roots,     \* Server.indexedRoots
          override,  \* Server.modeOverride
          hwMode,    \* Server.hwMode
          cfg,       \* Manager.cfg
          lock,      \* Manager.mu: who saves, and how far it is
          file,      \* config.json
          tmp,       \* config.json.tmp
          chan,      \* dirChangeCh
          added,     \* added[d]: goroutines that index d after a request
          watching,  \* watching[d]: watchers that run for d
          pc, arg,   \* handlers: the step they are at, their request
          pathless,  \* Manager.path is empty: config.json could not be loaded
          latest,    \* ghost: the request whose mode the server has, until the
                     \* manager has it too
          raced,     \* ghost: the manager got an older request's mode after it
          unsaved,   \* ghost: the last save failed, or could only fail
          lost,      \* ghost: directories not handed on, or whose indexing failed
          posts, restarts, errors  \* counters for the bounds

server  == <<roots, override, hwMode>>
manager == <<cfg, lock, file, tmp, pathless, unsaved>>
race    == <<latest, raced>>
jobs    == <<chan, added, watching, lost>>
bounds  == <<posts, restarts, errors>>
vars    == <<roots, override, hwMode, cfg, lock, file, tmp, chan, added, watching, pc, arg,
             pathless, latest, raced, unsaved, lost, posts, restarts, errors>>

Defaults  == [dirs |-> {}, mode |-> None]
NoRequest == [dir |-> None, mode |-> None]
Unlocked  == [by |-> None, step |-> "free"]
Locked(h) == [by |-> h, step |-> "write"]

(* What a start would find: a missing file counts as the empty configuration. *)
OnDisk == IF file = None THEN Defaults ELSE file

(* Load; main goes on with Load("") when the file cannot be read or parsed. *)
Loaded(err) == IF err THEN Defaults ELSE OnDisk

(* How a request's mode is kept. *)
Override(m) == IF m = "auto" THEN None ELSE m

(* The mode the server works in. *)
effectiveMode == IF override = None THEN hwMode ELSE override

GoTo(h, label) == pc' = [pc EXCEPT ![h] = label]

Erring == errors < MaxErrors /\ errors' = errors + 1

-----------------------------------------------------------------------------
(* handleSettings.                                                         *)

NewRoots(r) == roots \cup ({r.dir} \ {None})

(* What it does under Server.mu. *)
Post(h) ==
  /\ pc[h] = "idle" /\ posts < MaxPosts
  /\ \E r \in Request \ {NoRequest} :
       /\ arg' = [arg EXCEPT ![h] = r]
       /\ IF r.mode = None THEN UNCHANGED <<override, latest>>
          ELSE override' = Override(r.mode) /\ latest' = h
       /\ roots' = NewRoots(r)
  /\ GoTo(h, "dir")
  /\ posts' = posts + 1
  /\ UNCHANGED <<hwMode, manager, raced, jobs, restarts, errors>>

(* Manager.AddDir, up to its call of save. *)
AddDir(h) ==
  LET d == arg[h].dir IN
  /\ pc[h] = "dir"
  /\ IF d = None THEN GoTo(h, "mode") /\ UNCHANGED <<cfg, lock>>
     ELSE /\ lock = Unlocked
          /\ IF d \in cfg.dirs THEN GoTo(h, "mode") /\ UNCHANGED <<cfg, lock>>
             ELSE /\ cfg' = [cfg EXCEPT !.dirs = @ \cup {d}]
                  /\ lock' = Locked(h)
                  /\ GoTo(h, "saveDir")
  /\ UNCHANGED <<server, file, tmp, pathless, unsaved, race, jobs, arg, bounds>>

(* The manager has the mode of request h. *)
ModeKept(h) == /\ raced' = (latest # h /\ (latest = None \/ raced))
               /\ latest' = IF latest = h THEN None ELSE latest

(* Mutant of SetModeOverride: the mode is not saved. *)
SetModeUnsaved(h) ==
  LET m == arg[h].mode IN
  /\ pc[h] = "mode"
  /\ GoTo(h, "send")
  /\ IF m = None THEN UNCHANGED <<cfg, race>>
     ELSE /\ lock = Unlocked
          /\ cfg' = [cfg EXCEPT !.mode = Override(m)]
          /\ ModeKept(h)
  /\ UNCHANGED <<server, lock, file, tmp, pathless, unsaved, jobs, arg, bounds>>

(* Manager.SetModeOverride, up to its call of save. *)
SetModeOverride(h) ==
  LET m == arg[h].mode IN
  /\ pc[h] = "mode"
  /\ IF m = None THEN GoTo(h, "send") /\ UNCHANGED <<cfg, lock, race>>
     ELSE /\ lock = Unlocked
          /\ cfg' = [cfg EXCEPT !.mode = Override(m)]
          /\ lock' = Locked(h)
          /\ GoTo(h, "saveMode")
          /\ ModeKept(h)
  /\ UNCHANGED <<server, file, tmp, pathless, unsaved, jobs, arg, bounds>>

(* Mutant of WriteTmp: config.json itself is rewritten. *)
WriteInPlace(h) ==
  /\ lock = Locked(h) /\ ~pathless
  /\ file' = Torn
  /\ tmp' = cfg
  /\ lock' = [lock EXCEPT !.step = "rename"]
  /\ UNCHANGED <<server, cfg, pathless, unsaved, race, jobs, pc, arg, bounds>>

(* save: WriteFile, then Rename; Manager.mu is held throughout. *)
WriteTmp(h) ==
  /\ lock = Locked(h) /\ ~pathless
  /\ tmp' = cfg
  /\ lock' = [lock EXCEPT !.step = "rename"]
  /\ UNCHANGED <<server, cfg, file, pathless, unsaved, race, jobs, pc, arg, bounds>>

(* Mutant of AfterSave: Manager.mu is not unlocked. *)
AfterSaveLocked(h) == /\ GoTo(h, IF pc[h] = "saveDir" THEN "mode" ELSE "send")
                      /\ lock' = [lock EXCEPT !.step = "kept"]

AfterSave(h) == /\ GoTo(h, IF pc[h] = "saveDir" THEN "mode" ELSE "send")
                /\ lock' = Unlocked

Rename(h) ==
  /\ lock = [by |-> h, step |-> "rename"]
  /\ file' = tmp /\ tmp' = None
  /\ unsaved' = FALSE
  /\ AfterSave(h)
  /\ UNCHANGED <<server, cfg, pathless, race, jobs, arg, bounds>>

(* MkdirAll, WriteFile or Rename fails: handleSettings ignores the error.  *)
(* Without a path every save fails: it writes ".tmp" where the process     *)
(* runs, and cannot rename that to "".                                     *)
SaveFails(h) ==
  /\ lock.by = h
  /\ IF pathless THEN UNCHANGED <<errors, tmp>>
     ELSE Erring /\ tmp' \in IF lock.step = "write" THEN {tmp, Torn} ELSE {tmp}
  /\ unsaved' = TRUE
  /\ AfterSave(h)
  /\ UNCHANGED <<server, cfg, file, pathless, race, jobs, arg, posts, restarts>>

HasRoom(d) == d # None /\ Len(chan) < ChanCap

(* The directory goes to dirChangeCh, or nowhere if the channel is full,   *)
(* and the client is told "ok".                                            *)
Send(h) ==
  LET d == arg[h].dir IN
  /\ pc[h] = "send"
  /\ chan' = IF HasRoom(d) THEN Append(chan, d) ELSE chan
  /\ lost' = IF HasRoom(d) THEN lost ELSE lost \cup ({d} \ {None})
  /\ GoTo(h, "idle")
  /\ arg' = [arg EXCEPT ![h] = NoRequest]
  /\ UNCHANGED <<server, manager, race, added, watching, bounds>>

-----------------------------------------------------------------------------
(* The goroutines of main.go.                                              *)

Dispatch ==
  /\ chan # <<>>
  /\ added' = [added EXCEPT ![Head(chan)] = @ + 1]
  /\ chan' = Tail(chan)
  /\ UNCHANGED <<server, manager, watching, lost, pc, arg, race, bounds>>

(* Mutant of Indexed: nobody watches the new directory. *)
IndexedOnly(d) ==
  /\ added[d] > 0
  /\ added' = [added EXCEPT ![d] = @ - 1]
  /\ UNCHANGED <<server, manager, chan, watching, lost, pc, arg, race, bounds>>

(* indexer.Run returns, and the watcher of the new directory starts. *)
Indexed(d) ==
  /\ added[d] > 0
  /\ added' = [added EXCEPT ![d] = @ - 1]
  /\ watching' = [watching EXCEPT ![d] = @ + 1]
  /\ UNCHANGED <<server, manager, chan, lost, pc, arg, race, bounds>>

(* indexer.Run fails (the directory is gone): no watcher. *)
IndexFails(d) ==
  /\ added[d] > 0 /\ Erring
  /\ added' = [added EXCEPT ![d] = @ - 1]
  /\ lost' = lost \cup {d}
  /\ UNCHANGED <<server, manager, chan, watching, pc, arg, race, posts, restarts>>

-----------------------------------------------------------------------------
(* Mutant of InitMode: the detected mode is the server's in any case. *)
InitModeDetected(c) == Detected

(* initMode of main.go. *)
InitMode(c) == IF c.mode = None THEN Detected ELSE c.mode

(* A process that starts with configuration c. *)
Start(c) ==
  /\ cfg' = c /\ lock' = Unlocked
  /\ roots' = c.dirs
  /\ override' = None
  /\ hwMode' = InitMode(c)
  /\ latest' = None /\ raced' = FALSE
  /\ chan' = <<>>
  /\ added' = [d \in Dir |-> 0]
  /\ watching' = [d \in Dir |-> IF d \in c.dirs THEN 1 ELSE 0]
  /\ lost' = {}
  /\ pc' = [h \in Handler |-> "idle"]
  /\ arg' = [h \in Handler |-> NoRequest]

(* The process dies, whatever it was doing, and starts from the file, if   *)
(* it can load that, perhaps with a directory given by the flag -dir.      *)
Restart ==
  /\ restarts < MaxRestarts
  /\ restarts' = restarts + 1
  /\ \E d \in Dir \cup {None}, err \in BOOLEAN :
       LET c == [Loaded(err) EXCEPT !.dirs = @ \cup ({d} \ {None})] IN
       /\ Start(c)
       /\ pathless' = err
       /\ IF err \/ c = OnDisk THEN UNCHANGED <<file, tmp, errors>> /\ unsaved' = err
          ELSE \/ file' = c /\ tmp' = None /\ unsaved' = FALSE /\ UNCHANGED errors
               \/ Erring /\ unsaved' = TRUE /\ UNCHANGED file /\ tmp' \in {tmp, c, Torn}
  /\ UNCHANGED posts

Init ==
  /\ file \in FirstFile /\ tmp = None
  /\ pathless \in BOOLEAN /\ unsaved = pathless
  /\ cfg = Loaded(pathless) /\ lock = Unlocked
  /\ roots = cfg.dirs /\ override = None
  /\ hwMode = InitMode(cfg)
  /\ latest = None /\ raced = FALSE
  /\ chan = <<>> /\ added = [d \in Dir |-> 0] /\ lost = {}
  /\ watching = [d \in Dir |-> IF d \in cfg.dirs THEN 1 ELSE 0]
  /\ pc = [h \in Handler |-> "idle"]
  /\ arg = [h \in Handler |-> NoRequest]
  /\ posts = 0 /\ restarts = 0 /\ errors = 0

Handling(h) == \/ AddDir(h) \/ SetModeOverride(h) \/ WriteTmp(h) \/ Rename(h)
               \/ SaveFails(h) \/ Send(h)

Next == \/ \E h \in Handler : Post(h) \/ Handling(h)
        \/ Dispatch
        \/ \E d \in Dir : Indexed(d) \/ IndexFails(d)
        \/ Restart

Spec == Init /\ [][Next]_vars

(* Goroutines that can go on do, and Manager.mu is handed to those that    *)
(* wait for it (Go's mutex prefers a waiter that starved for 1ms).         *)
Fairness == /\ \A h \in Handler : SF_vars(Handling(h))
            /\ WF_vars(Dispatch)
            /\ \A d \in Dir : WF_vars(Indexed(d) \/ IndexFails(d))

FairSpec == Spec /\ Fairness

-----------------------------------------------------------------------------
TypeOK ==
  /\ roots \subseteq Dir
  /\ override \in Mode \cup {None} /\ hwMode \in Mode
  /\ cfg \in Config
  /\ lock \in [by : Handler, step : {"write", "rename"}] \cup {Unlocked}
  /\ file \in Config \cup {None} /\ tmp \in Config \cup {None, Torn}
  /\ chan \in Seq(Dir) /\ Len(chan) <= ChanCap
  /\ added \in [Dir -> Nat] /\ watching \in [Dir -> Nat]
  /\ pc \in [Handler -> {"idle", "dir", "saveDir", "mode", "saveMode", "send"}]
  /\ arg \in [Handler -> Request]
  /\ latest \in Handler \cup {None} /\ raced \in BOOLEAN
  /\ pathless \in BOOLEAN /\ unsaved \in BOOLEAN /\ lost \subseteq Dir
  /\ posts \in Nat /\ restarts \in Nat /\ errors \in Nat

(* Once saved, a directory stays in the file, whatever other requests,     *)
(* failed saves, crashes between write and rename, or restarts follow.     *)
SavedDirsStay ==
  [][\A d \in Dir : file # None /\ d \in file.dirs
       => file' \in Config /\ d \in file'.dirs]_vars

(* Whenever no save is under way, the last one did not fail, and this      *)
(* process could load the file, a restart would find what the manager      *)
(* holds.                                                                  *)
SavedIsCurrent == lock = Unlocked /\ ~unsaved => OnDisk = cfg

(* The server and the manager keep the same directories, but for requests  *)
(* between the two.                                                        *)
RootsAreConfigured ==
  /\ cfg.dirs \subseteq roots
  /\ \A d \in roots \ cfg.dirs : \E h \in Handler : pc[h] = "dir" /\ arg[h].dir = d

(* The manager's mode is the server's override, or the mode the server was *)
(* started with, once the manager has the mode of the request that set the *)
(* server's last; unless one that set it before reached the manager after. *)
ModesAgree ==
  latest = None /\ ~raced => \/ cfg.mode = override
                             \/ override = None /\ cfg.mode = hwMode

(* The three copies of the settings, two of them behind locks of their own *)
(* and one on disk, agree whenever nobody is between them; two requests    *)
(* that set the mode and overtake each other between the two locks leave   *)
(* server and manager apart, until the next mode or restart.               *)
CopiesAgree == RootsAreConfigured /\ ModesAgree /\ SavedIsCurrent

(* A directory that was accepted is watched, or is on its way: with a      *)
(* request, in the channel or being indexed.  Else its hand-over failed.   *)
NoDirForgotten ==
  \A d \in roots \ lost : \/ watching[d] > 0 \/ added[d] > 0 \/ Contains(chan, d)
                          \/ \E h \in Handler : pc[h] # "idle" /\ arg[h].dir = d

(* ... and is watched in the end. *)
AcceptedIsWatched ==
  \A d \in Dir : d \in roots ~> (watching[d] > 0 \/ d \in lost \/ d \notin roots)

(* A restart does not change the mode the server works in, as far as it    *)
(* has been saved: no request is between setting the mode and its end of   *)
(* save, none was overtaken, the file could be written and can be read.    *)
(* One more case loses it: "auto" in a process that started with a saved   *)
(* mode keeps that mode, which main passed to the server in place of the   *)
(* detected one, and the next process works in the detected mode.          *)
ModeSurvives ==
  [][/\ restarts' # restarts
     /\ latest = None /\ ~raced /\ ~unsaved /\ ~pathless'
     /\ \A h \in Handler : pc[h] # "saveMode"
     /\ override # None \/ cfg.mode # None \/ hwMode = Detected
     => effectiveMode' = effectiveMode]_vars
=============================================================================
