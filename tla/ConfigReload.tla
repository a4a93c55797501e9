---------------------------- MODULE ConfigReload ----------------------------
(***************************************************************************)
(* The node helper's configuration (cadvisor/pkg/config/config.go): read   *)
(* from a property file and the environment when the process starts, and   *)
(* again whenever a goroutine sees another modification time; applied one  *)
(* field at a time, to the shared settings and to the logger (Logger.go).  *)
(* Whoever keeps the file replaces it, removes it, or truncates and writes *)
(* it, as SetValues does, at any moment.                                   *)
(*                                                                         *)
(* Two keys stand for the rest: debug, which sets the logger's level, and  *)
(* log_sys_out, which directs its output.  The text of a value is one of   *)
(* "true", "false", "junk" (not a boolean), "" (blank after trimming) or   *)
(* Absent.  The test that less than three seconds passed never holds (the  *)
(* goroutine sleeps for three before every call) and is left out, as are   *)
(* the observers, of which the repository registers none.  A file that     *)
(* cannot be read or parsed ends the process: MustLoadFile logs and exits, *)
(* which no recover stops.                                                 *)
(***************************************************************************)
EXTENDS Logger

CONSTANTS Keys, Env,   \* Env[k]: the environment's text for key k
          Contents,    \* what the file may hold: functions from keys to texts
          Absent, Bad, \* no such key; a content that cannot be parsed
          MaxClock,    \* bound: the seconds that pass
          MaxEdits     \* bound: the changes of the file

ASSUME ConfigAssumption ==
    /\ {"debug", "log_sys_out"} \subseteq Keys
    /\ MaxClock \in Nat \ {0} /\ MaxEdits \in Nat

VARIABLES clock,    \* seconds, the precision of a modification time
          file,     \* the property file
          edits,    \* how often it was changed
          lastFileTime, prop, conf,
          cpc,      \* where the goroutine (at first the initialisation) is
          picked    \* the handle SetLogSysOut read
configVars == <<clock, file, edits, lastFileTime, prop, conf, cpc, picked>>
vars == <<loggerVars, configVars>>

Empty == [k \in Keys |-> Absent]

(* getValue: the property wins, even when it is blank.                     *)
GetValue(p, k) == IF p[k] = Absent THEN Env[k] ELSE p[k]

GetBoolean(p, k, def) ==
    CASE GetValue(p, k) = "true"  -> TRUE
      [] GetValue(p, k) = "false" -> FALSE
      [] OTHER                    -> def

Settings(p) == [Debug |-> GetBoolean(p, "debug", FALSE),
                LogSysOut |-> GetBoolean(p, "log_sys_out", TRUE)]
LevelOf(debug) == IF debug THEN "DEBUG" ELSE "INFO"

ConfigStarts ==
    /\ lastFileTime' = -1 /\ prop' = Empty /\ cpc' = "apply" /\ picked' = Nil
    /\ conf' = [Debug |-> FALSE, LogSysOut |-> FALSE]

Init ==
    /\ LoggerInit
    /\ clock = 1 /\ edits = 0
    /\ file \in [there : BOOLEAN, content : Contents, mtime : {1}, shared : {FALSE}]
    /\ lastFileTime = -1 /\ prop = Empty /\ cpc = "apply" /\ picked = Nil
    /\ conf = [Debug |-> FALSE, LogSysOut |-> FALSE]

-----------------------------------------------------------------------------
(* The file.  shared: another version was written within the same second.  *)

Written(content) == [there |-> TRUE, content |-> content, mtime |-> clock,
                     shared |-> file.mtime = clock]

Edit == /\ edits < MaxEdits /\ edits' = edits + 1
        /\ UNCHANGED <<loggerVars, clock, lastFileTime, prop, conf, cpc, picked>>

Replace == Edit /\ \E c \in Contents : file' = Written(c)

Delete == Edit /\ file.there /\ file' = [file EXCEPT !.there = FALSE]

(* SetValues opens with O_TRUNC and writes; what it writes comes later, as *)
(* Replace, or never.                                                      *)
Truncate == Edit /\ file.there /\ file' = Written(Empty)

Second == /\ clock < MaxClock /\ clock' = clock + 1
          /\ UNCHANGED <<loggerVars, file, edits, lastFileTime, prop, conf, cpc,
                         picked>>

-----------------------------------------------------------------------------
(* reload.  The modification time is taken first and stored before the     *)
(* file is read.                                                           *)

Stat_StoresNow ==
    /\ cpc = "wait"
    /\ \/ /\ file.there /\ file.mtime # lastFileTime
          /\ lastFileTime' = clock /\ cpc' = "load" /\ UNCHANGED prop
       \/ /\ ~file.there /\ lastFileTime = -1
          /\ cpc' = "create" /\ UNCHANGED <<lastFileTime, prop>>
       \/ /\ ~file.there /\ lastFileTime \notin {-1, 0}
          /\ lastFileTime' = 0 /\ prop' = Empty /\ cpc' = "apply"
    /\ UNCHANGED <<loggerVars, clock, file, edits, conf, picked>>

Stat ==
    /\ cpc = "wait"
    /\ \/ /\ file.there /\ file.mtime # lastFileTime
          /\ lastFileTime' = file.mtime /\ cpc' = "load" /\ UNCHANGED prop
       \/ /\ ~file.there /\ lastFileTime = -1
          /\ cpc' = "create" /\ UNCHANGED <<lastFileTime, prop>>
       \/ /\ ~file.there /\ lastFileTime \notin {-1, 0}
          /\ lastFileTime' = 0 /\ prop' = Empty /\ cpc' = "apply"
    /\ UNCHANGED <<loggerVars, clock, file, edits, conf, picked>>

(* os.Create truncates a file that appeared since the Stat.                *)
Create ==
    /\ cpc = "create"
    /\ file' = Written(Empty)
    /\ lastFileTime' = 0 /\ prop' = Empty /\ cpc' = "apply"
    /\ UNCHANGED <<loggerVars, clock, edits, conf, picked>>

CreateFails ==
    /\ cpc = "create" /\ failures < MaxFailures
    /\ failures' = failures + 1 /\ cpc' = "wait"
    /\ UNCHANGED <<day, files, logfile, fileOf, closed, output,
                   lastDataUnit, level, lpc, opened>>
    /\ UNCHANGED <<clock, file, edits, lastFileTime, prop, conf, picked>>

Loadable == file.there /\ file.content # Bad

Load ==
    /\ cpc = "load" /\ Loadable
    /\ prop' = file.content /\ cpc' = "apply"
    /\ UNCHANGED <<loggerVars, clock, file, edits, lastFileTime, conf, picked>>

(* MustLoadFile fails: the process exits, and is started again.            *)
ExitAndRestart ==
    /\ cpc = "load" /\ ~Loadable
    /\ LoggerStarts(day) /\ ConfigStarts
    /\ UNCHANGED <<disk, clock, file, edits>>

-----------------------------------------------------------------------------
(* apply: the fields one after the other, the logger in between.           *)

ApplyDebug ==
    /\ cpc = "apply"
    /\ conf' = [conf EXCEPT !.Debug = Settings(prop).Debug]
    /\ level' = LevelOf(Settings(prop).Debug) /\ cpc' = "applySysOut"
    /\ UNCHANGED <<day, files, logfile, fileOf, closed, output,
                   lastDataUnit, lpc, opened, failures>>
    /\ UNCHANGED <<clock, file, edits, lastFileTime, prop, picked>>

ApplyLogSysOut_OnOnly ==
    /\ cpc = "applySysOut"
    /\ conf' = [conf EXCEPT !.LogSysOut = @ \/ Settings(prop).LogSysOut]
    /\ cpc' = IF conf'.LogSysOut # conf.LogSysOut THEN "pick" ELSE "wait"
    /\ UNCHANGED <<loggerVars, clock, file, edits, lastFileTime, prop, picked>>

ApplyLogSysOut ==
    /\ cpc = "applySysOut"
    /\ conf' = [conf EXCEPT !.LogSysOut = Settings(prop).LogSysOut]
    /\ cpc' = IF conf'.LogSysOut # conf.LogSysOut THEN "pick" ELSE "wait"
    /\ UNCHANGED <<loggerVars, clock, file, edits, lastFileTime, prop, picked>>

(* SetLogSysOut reads the logger's file, and directs the output after.     *)
PickFile ==
    /\ cpc = "pick" /\ picked' = logfile /\ cpc' = "direct"
    /\ UNCHANGED <<loggerVars, clock, file, edits, lastFileTime, prop, conf>>

SetLogSysOut ==
    /\ cpc = "direct"
    /\ output' = Directed(picked, conf.LogSysOut, "SetLogSysOut")
    /\ picked' = Nil /\ cpc' = "wait"
    /\ UNCHANGED <<day, files, logfile, fileOf, closed,
                   lastDataUnit, level, lpc, opened, failures>>
    /\ UNCHANGED <<clock, file, edits, lastFileTime, prop, conf>>

-----------------------------------------------------------------------------

Reload == \/ Stat \/ Create \/ CreateFails \/ Load \/ ExitAndRestart
          \/ ApplyDebug \/ ApplyLogSysOut \/ PickFile \/ SetLogSysOut
LoggerStep == (Process \/ NextDay) /\ UNCHANGED configVars

Next == \/ Reload \/ LoggerStep
        \/ Replace \/ Delete \/ Truncate \/ Second

(* Both goroutines loop for as long as the process lives.                  *)
Fairness == WF_vars(Reload) /\ WF_vars(Process /\ UNCHANGED configVars)

Spec == Init /\ [][Next]_vars /\ Fairness

-----------------------------------------------------------------------------

TypeOK ==
    /\ LoggerTypeOK
    /\ clock \in 1..MaxClock /\ edits \in 0..MaxEdits
    /\ file \in [there : BOOLEAN, content : Contents \cup {Empty},
                 mtime : 1..MaxClock, shared : BOOLEAN]
    /\ lastFileTime \in {-1} \cup 0..MaxClock
    /\ prop \in (Contents \ {Bad}) \cup {Empty}
    /\ conf \in [Debug : BOOLEAN, LogSysOut : BOOLEAN]
    /\ cpc \in {"wait", "create", "load", "apply", "applySysOut", "pick", "direct"}
    /\ picked \in Handles \cup {Nil}

(* Outside of an apply the settings, the logger's level and the way the    *)
(* output was directed all come from one version of the file: none is left *)
(* from the version before, after any number of reloads and restarts.      *)
SettingsAgree ==
    cpc \in {"wait", "create", "load"} =>
        /\ conf = Settings(prop)
        /\ level = LevelOf(conf.Debug)
        /\ output.by = "SetLogSysOut" => output.stdout = conf.LogSysOut

(* A version of the file that shares its second with no other and can be   *)
(* parsed, or the absence of a file, ends up in the settings, whatever was *)
(* changed or removed between a Stat and the reading, and through every    *)
(* restart.                                                                *)
FileInEffect ==
    conf = IF file.there THEN Settings(file.content) ELSE Settings(Empty)
FileTakesEffect ==
    <>[]((file.there /\ (file.shared \/ file.content = Bad)) \/ FileInEffect)
=============================================================================
