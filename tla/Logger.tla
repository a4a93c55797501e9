------------------------------- MODULE Logger -------------------------------
(***************************************************************************)
(* The log file of the agent (tools/util/logutil/Logger.go): a goroutine   *)
(* passes every ten seconds, removes files that are too old, and opens a   *)
(* new file on the first pass of a day; the standard logger is directed to *)
(* that file and to stdout.  SetLogSysOut, called by another goroutine     *)
(* (see ConfigReload), directs it too, and takes no lock.                  *)
(*                                                                         *)
(* A file is known by the day in its name.  An opened file is a handle:    *)
(* the number of the opening, 0 where the code has nil.  The setters that  *)
(* nothing in the repository calls (the name, the rotation switch, the     *)
(* days to keep) are fixed: rotation on, KeepDays.                         *)
(***************************************************************************)
EXTENDS Integers, Sequences, FiniteSets

CONSTANTS MaxDay,      \* bound: the days that pass
          KeepDays,    \* confLogKeepDays
          MaxFailures, \* bound: the openings that fail
          OldFiles     \* days of the files that are there at the start

ASSUME LoggerAssumption ==
    /\ MaxDay \in Nat /\ KeepDays \in Nat \ {0} /\ MaxFailures \in Nat
    /\ OldFiles \subseteq Int

Nil == 0

VARIABLES day,          \* today, as GetDateUnitNow gives it
          files,        \* the days of the files in the directory
          logfile,      \* the handle in the field of that name
          fileOf,       \* fileOf[h]: the day in the name of handle h
          closed,       \* the handles that were closed
          output,       \* where the standard logger writes, and who said so
          lastDataUnit, \* the day the file was opened for
          level,        \* the level of the logger
          lpc,          \* where the logger's goroutine is in process
          opened,       \* the handle openFile holds and has not stored yet
          failures      \* how many openings failed
disk == <<day, files, failures>>
loggerVars == <<day, files, logfile, fileOf, closed, output,
                lastDataUnit, level, lpc, opened, failures>>

Handles == 1..Len(fileOf)
Boot == [file |-> Nil, stdout |-> TRUE, by |-> "boot"]

(* The logger of a process that starts: no file is open, the standard      *)
(* logger writes to stderr.                                                *)
LoggerStarts(today) ==
    /\ logfile' = Nil /\ fileOf' = <<>> /\ closed' = {} /\ output' = Boot
    /\ lastDataUnit' = today /\ level' = "INFO" /\ lpc' = "idle"
    /\ opened' = Nil

LoggerInit ==
    /\ day = 0 /\ files = OldFiles /\ failures = 0
    /\ logfile = Nil /\ fileOf = <<>> /\ closed = {} /\ output = Boot
    /\ lastDataUnit = 0 /\ level = "INFO" /\ lpc = "idle"
    /\ opened = Nil

(* What SetOutput leaves of the standard logger's writers.  A MultiWriter  *)
(* stops at the first writer that fails: with a file that is nil or closed *)
(* nothing is written to stdout either.                                    *)
Directed(h, out, who) == [file |-> h, stdout |-> out, by |-> who]
Lost == output.by # "boot" /\ (output.file = Nil \/ output.file \in closed)

-----------------------------------------------------------------------------
(* One pass of the goroutine, in the steps between which the day can      *)
(* change or the other goroutine can look at the fields.                   *)

Expired(f) == day - f > KeepDays

(* clearOldLog runs when a minute passed since it last did, so in some of   *)
(* the passes.                                                             *)
ClearOldLog(f) == {d \in f : ~Expired(d)}

Rotate_NoNewDay ==
    /\ lpc = "idle"
    /\ files' \in {files, ClearOldLog(files)}
    /\ IF logfile = Nil
       THEN lastDataUnit' = day /\ lpc' = "open" /\ UNCHANGED <<closed, logfile>>
       ELSE UNCHANGED <<closed, logfile, lastDataUnit, lpc>>
    /\ UNCHANGED <<day, fileOf, output, level, opened, failures>>

Rotate ==
    /\ lpc = "idle"
    /\ files' \in {files, ClearOldLog(files)}
    /\ IF lastDataUnit # day \/ logfile = Nil
       THEN /\ closed' = closed \cup ({logfile} \ {Nil}) /\ logfile' = Nil
            /\ lastDataUnit' = day /\ lpc' = "open"
       ELSE UNCHANGED <<closed, logfile, lastDataUnit, lpc>>
    /\ UNCHANGED <<day, fileOf, output, level, opened, failures>>

OpenFile_Unnamed ==
    /\ lpc = "open"
    /\ opened' = Len(fileOf) + 1 /\ lpc' = "store"
    /\ UNCHANGED <<day, files, fileOf, logfile, closed, output, lastDataUnit,
                   level, failures>>

OpenFile ==
    /\ lpc = "open"
    /\ files' = files \cup {day} /\ fileOf' = Append(fileOf, day)
    /\ opened' = Len(fileOf) + 1 /\ lpc' = "store"
    /\ UNCHANGED <<day, logfile, closed, output, lastDataUnit,
                   level, failures>>

(* openFile panics, recovers and leaves the field nil: the next pass tries *)
(* again.                                                                  *)
OpenFails ==
    /\ lpc = "open" /\ failures < MaxFailures
    /\ failures' = failures + 1 /\ lpc' = "idle"
    /\ UNCHANGED <<day, files, logfile, fileOf, closed, output,
                   lastDataUnit, level, opened>>

StoreFile ==
    /\ lpc = "store"
    /\ logfile' = opened /\ opened' = Nil /\ lpc' = "output"
    /\ UNCHANGED <<day, files, fileOf, closed, output,
                   lastDataUnit, level, failures>>

DirectOutput_FirstOnly ==
    /\ lpc = "output"
    /\ output' = IF output.by = "boot" THEN Directed(logfile, TRUE, "openFile")
                                      ELSE output
    /\ lpc' = "idle"
    /\ UNCHANGED <<day, files, logfile, fileOf, closed, lastDataUnit, level,
                   opened, failures>>

DirectOutput ==
    /\ lpc = "output"
    /\ output' = Directed(logfile, TRUE, "openFile") /\ lpc' = "idle"
    /\ UNCHANGED <<day, files, logfile, fileOf, closed,
                   lastDataUnit, level, opened, failures>>

Process == Rotate \/ OpenFile \/ OpenFails \/ StoreFile \/ DirectOutput

-----------------------------------------------------------------------------
(* Time.                                                                   *)

NextDay ==
    /\ day < MaxDay
    /\ \E d \in (day + 1)..MaxDay : day' = d
    /\ UNCHANGED <<files, logfile, fileOf, closed, output, lastDataUnit, level,
                   lpc, opened, failures>>

-----------------------------------------------------------------------------

LoggerTypeOK ==
    /\ day \in 0..MaxDay /\ files \subseteq Int
    /\ fileOf \in Seq(0..MaxDay) /\ closed \subseteq Handles
    /\ logfile \in Handles \cup {Nil} /\ opened \in Handles \cup {Nil}
    /\ output \in [file : Handles \cup {Nil}, stdout : BOOLEAN,
                   by : {"boot", "openFile", "SetLogSysOut"}]
    /\ lastDataUnit \in 0..MaxDay /\ level \in {"INFO", "DEBUG"}
    /\ lpc \in {"idle", "open", "store", "output"}
    /\ failures \in 0..MaxFailures

(* Between two passes the file that is open is open for good: it is not    *)
(* closed, clearOldLog has not removed it from the directory even when     *)
(* several days passed since it was opened, and it is the file of the day  *)
(* it was opened for or, when midnight fell between, of a later one.       *)
OpenFileKept ==
    lpc = "idle" /\ logfile # Nil =>
        /\ logfile \notin closed
        /\ fileOf[logfile] \in files
        /\ fileOf[logfile] >= lastDataUnit

(* What openFile directed the standard logger to is the open file for as   *)
(* long as there is one, so that between two passes messages are lost only *)
(* after an opening that failed, or where SetLogSysOut has spoken last.    *)
OutputIsOpenFile ==
    lpc = "idle" /\ output.by = "openFile" =>
        \/ output.file = logfile /\ ~Lost
        \/ logfile = Nil /\ failures > 0
=============================================================================
