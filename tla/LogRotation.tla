----------------------------- MODULE LogRotation -----------------------------
(***************************************************************************)
(* logger.rotatingWriter on Windows: the log, its numbered backups, the    *)
(* steps of rotate, and the others that have the log open meanwhile: the   *)
(* diagnostics handler, which reads it, and a second process, which opens  *)
(* it before it finds the port taken.  Windows renames no file that is     *)
(* open, so that every open handle is one of the current log.              *)
(***************************************************************************)
EXTENDS Naturals, Sequences, SequencesExt

CONSTANTS Process,
          MaxLogSize,      \* in lines, all of one length
          MaxLogBackups,
          NoFile,
          MaxLine          \* bound on the lines written

ASSUME SizeAssumption == /\ MaxLogSize \in Nat \ {0} /\ MaxLogBackups \in Nat \ {0}
                         /\ MaxLine \in Nat
                         /\ NoFile \notin Seq(Nat)

VARIABLES file,       \* file[0] is the log, file[i] its backup i
          stage,      \* of each process: "out", "up", or a step of rotate
          shift,      \* the backup rotate is to rename next
          open,       \* processes whose file is open
          append,     \* those that opened it with O_APPEND
          pos, size,  \* offset of the handle, rotatingWriter.size
          reading,    \* the diagnostics handler has the log open
          line,       \* lines written so far
          \* ghosts: what was in a rotation's way
          unmoved,    \* a file was there and was not renamed
          shared,     \* a process wrote while another was up
          clashed,    \* and they were not both appending, or both in rotate
          reopened,   \* the log was opened by the fallback
          killed      \* a process ended within rotate

files == <<file, line>>
proc  == <<stage, shift, open, append, pos, size>>
ghost == <<unmoved, shared, clashed, reopened, killed>>
logVars == <<files, proc, reading, ghost>>

LogInit == /\ file = [i \in 0 .. MaxLogBackups |-> NoFile]
           /\ stage = [p \in Process |-> "out"]
           /\ shift = [p \in Process |-> 0]
           /\ open = {} /\ append = {}
           /\ pos = [p \in Process |-> 0] /\ size = [p \in Process |-> 0]
           /\ reading = FALSE
           /\ line = 0
           /\ unmoved = FALSE /\ shared = FALSE /\ clashed = FALSE /\ reopened = FALSE /\ killed = FALSE

Text(f) == IF f = NoFile THEN <<>> ELSE f

-----------------------------------------------------------------------------
(* Others.                                                                 *)

ReadLog == /\ ~reading /\ file[0] # NoFile
           /\ reading' = TRUE
           /\ UNCHANGED <<files, proc, ghost>>

ReadEnds == reading /\ reading' = FALSE /\ UNCHANGED <<files, proc, ghost>>

(* Mutant of Start: os.O_TRUNC, as in rotate. *)
StartEmpty(p) ==
  /\ stage[p] = "out"
  /\ stage' = [stage EXCEPT ![p] = "up"]
  /\ file' = [file EXCEPT ![0] = <<>>]
  /\ open' = open \cup {p} /\ append' = append \cup {p}
  /\ size' = [size EXCEPT ![p] = 0]
  /\ UNCHANGED <<shift, pos, line, reading, ghost>>

(* newRotatingWriter. *)
Start(p) == /\ stage[p] = "out"
            /\ stage' = [stage EXCEPT ![p] = "up"]
            /\ file' = [file EXCEPT ![0] = Text(@)]
            /\ open' = open \cup {p} /\ append' = append \cup {p}
            /\ size' = [size EXCEPT ![p] = Len(Text(file[0]))]
            /\ UNCHANGED <<shift, pos, line, reading, ghost>>

(* The process ends, wherever it is. *)
Kill(p) == /\ stage[p] # "out"
           /\ stage' = [stage EXCEPT ![p] = "out"]
           /\ open' = open \ {p} /\ append' = append \ {p}
           /\ shift' = [shift EXCEPT ![p] = 0]
           /\ pos' = [pos EXCEPT ![p] = 0] /\ size' = [size EXCEPT ![p] = 0]
           /\ killed' = (killed \/ stage[p] \notin {"up", "put"})
           /\ UNCHANGED <<files, reading, unmoved, shared, clashed, reopened>>

-----------------------------------------------------------------------------
(* Write.                                                                  *)

(* The line at the handle's offset; what lies between is a gap. *)
At(s, o, l) == [i \in 1 .. IF o < Len(s) THEN Len(s) ELSE o + 1 |->
                  IF i = o + 1 THEN l ELSE IF i <= Len(s) THEN s[i] ELSE 0]

(* Mutant of Full: the line itself is not counted. *)
FullBefore(p) == size[p] > MaxLogSize

Full(p) == size[p] + 1 > MaxLogSize

(* Mutant of FirstShifted: one backup too many. *)
FirstShiftedOffByOne == MaxLogBackups

FirstShifted == MaxLogBackups - 1

Others(p) == {q \in Process \ {p} : stage[q] # "out"}

(* Write takes w.mu and rotates first when the line is too much: Close. *)
Write(p) ==
  /\ stage[p] = "up"
  /\ IF Full(p)
     THEN /\ stage' = [stage EXCEPT ![p] = "shift"]
          /\ shift' = [shift EXCEPT ![p] = FirstShifted]
          /\ open' = open \ {p} /\ append' = append \ {p}
          /\ clashed' = (clashed \/ ~(Others(p) \subseteq open))
     ELSE /\ stage' = [stage EXCEPT ![p] = "put"]
          /\ UNCHANGED <<shift, open, append, clashed>>
  /\ UNCHANGED <<files, pos, size, reading, unmoved, shared, reopened, killed>>

(* w.file.Write: a nil file takes nothing. *)
Put(p) ==
  /\ stage[p] = "put" /\ line < MaxLine
  /\ stage' = [stage EXCEPT ![p] = "up"]
  /\ IF p \in open
     THEN LET o == IF p \in append THEN Len(file[0]) ELSE pos[p] IN
            /\ file' = [file EXCEPT ![0] = At(@, o, line + 1)]
            /\ line' = line + 1
            /\ pos' = [pos EXCEPT ![p] = o + 1]
            /\ size' = [size EXCEPT ![p] = @ + 1]
            /\ shared' = (shared \/ Others(p) # {})
            /\ clashed' = (clashed \/ (Others(p) # {} /\ ~(Others(p) \cup {p} \subseteq append)))
     ELSE UNCHANGED <<files, pos, size, shared, clashed>>
  /\ UNCHANGED <<shift, open, append, reading, unmoved, reopened, killed>>

-----------------------------------------------------------------------------
(* rotate.  A rename replaces its target; its errors are ignored.          *)

Move(i, j) == /\ file' = [file EXCEPT ![i] = NoFile, ![j] = file[i]]
              /\ UNCHANGED unmoved

Stay(i) == file' = file /\ unmoved' = (unmoved \/ file[i] # NoFile)

ShiftBackup(p) ==
  LET i == shift[p] IN
  /\ stage[p] = "shift" /\ i >= 1
  /\ (file[i] # NoFile /\ Move(i, i + 1)) \/ Stay(i)
  /\ shift' = [shift EXCEPT ![p] = @ - 1]
  /\ UNCHANGED <<stage, open, append, pos, size, line, reading, shared, clashed, reopened, killed>>

ShiftLog(p) ==
  /\ stage[p] = "shift" /\ shift[p] = 0
  /\ (file[0] # NoFile /\ open = {} /\ ~reading /\ Move(0, 1)) \/ Stay(0)
  /\ stage' = [stage EXCEPT ![p] = "open"]
  /\ UNCHANGED <<shift, open, append, pos, size, line, reading, shared, clashed, reopened, killed>>

Opened(p, f) == /\ file' = [file EXCEPT ![0] = f]
                /\ open' = open \cup {p}
                /\ stage' = [stage EXCEPT ![p] = "put"]

(* os.O_TRUNC: a log that was not renamed is emptied. *)
OpenEmpty(p) ==
  /\ stage[p] = "open"
  /\ Opened(p, <<>>)
  /\ pos' = [pos EXCEPT ![p] = 0] /\ size' = [size EXCEPT ![p] = 0]
  /\ UNCHANGED <<shift, append, line, reading, ghost>>

OpenEmptyFails(p) ==
  /\ stage[p] = "open"
  /\ stage' = [stage EXCEPT ![p] = "fallback"]
  /\ UNCHANGED <<files, shift, open, append, pos, size, reading, ghost>>

(* Mutant of Fallback: no os.O_APPEND. *)
FallbackAtFront(p) ==
  /\ stage[p] = "fallback"
  /\ \/ Opened(p, Text(file[0]))
     \/ /\ stage' = [stage EXCEPT ![p] = "put"]
        /\ UNCHANGED <<file, open>>
  /\ pos' = [pos EXCEPT ![p] = 0] /\ size' = [size EXCEPT ![p] = 0]
  /\ reopened' = TRUE
  /\ UNCHANGED <<shift, append, line, reading, unmoved, shared, clashed, killed>>

(* Opened to append, or not at all; size is 0 in any case. *)
Fallback(p) ==
  /\ stage[p] = "fallback"
  /\ \/ Opened(p, Text(file[0])) /\ append' = append \cup {p}
     \/ /\ stage' = [stage EXCEPT ![p] = "put"]
        /\ UNCHANGED <<file, open, append>>
  /\ pos' = [pos EXCEPT ![p] = 0] /\ size' = [size EXCEPT ![p] = 0]
  /\ reopened' = TRUE
  /\ UNCHANGED <<shift, line, reading, unmoved, shared, clashed, killed>>

Rotate(p) == ShiftBackup(p) \/ ShiftLog(p) \/ OpenEmpty(p) \/ OpenEmptyFails(p) \/ Fallback(p)

LogNext == \/ ReadLog \/ ReadEnds
           \/ \E p \in Process : Start(p) \/ Kill(p) \/ Write(p) \/ Put(p) \/ Rotate(p)

LogSpec == LogInit /\ [][LogNext]_logVars

-----------------------------------------------------------------------------
LogTypeOK ==
  /\ file \in [0 .. MaxLogBackups -> {NoFile} \cup Seq(0 .. MaxLine)]
  /\ stage \in [Process -> {"out", "up", "put", "shift", "open", "fallback"}]
  /\ shift \in [Process -> 0 .. MaxLogBackups - 1]
  /\ append \subseteq open /\ open \subseteq Process
  /\ pos \in [Process -> Nat] /\ size \in [Process -> Nat]
  /\ line \in 0 .. MaxLine
  /\ {reading, unmoved, shared, clashed, reopened, killed} \subseteq BOOLEAN
  /\ file[0] = NoFile => open = {}

LinesIn(i) == ToSet(Text(file[i]))

Kept == UNION {LinesIn(i) : i \in 0 .. MaxLogBackups}

(* As long as nothing was in a rotation's way, log and backups together    *)
(* are the newest lines without a gap, wherever a process is killed, and   *)
(* at least as many as the backups hold if none was killed in a rotation.  *)
KeepsNewest ==
  ~unmoved /\ ~clashed =>
    /\ \A l \in Kept : l >= 1 /\ l .. line \subseteq Kept
    /\ killed \/ \A l \in 1 .. line : line < l + MaxLogBackups * MaxLogSize => l \in Kept

(* Whatever fails, every file is in order, and a backup is older than      *)
(* those with a lower number, unless two processes wrote at once.          *)
KeepsOrder ==
  ~clashed =>
    \A i \in 0 .. MaxLogBackups :
      /\ \A a, b \in DOMAIN Text(file[i]) : a < b => Text(file[i])[a] < Text(file[i])[b]
      /\ \A j \in 0 .. i - 1 : \A k \in LinesIn(i), l \in LinesIn(j) : k < l

(* No file grows beyond the limit, unless the log was opened by the        *)
(* fallback, which counts from 0 whatever it finds, or two processes wrote.*)
Bounded ==
  ~shared /\ ~reopened => \A i \in 0 .. MaxLogBackups : Len(Text(file[i])) <= MaxLogSize
=============================================================================
