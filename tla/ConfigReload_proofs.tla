------------------------ MODULE ConfigReload_proofs ------------------------
(***************************************************************************)
(* Theorems about ConfigReload, for every property file, environment,      *)
(* number of days, of seconds, of edits and of failed openings: the type   *)
(* invariant; that the settings, the logger's level and the direction of   *)
(* its output come from one version of the file (SettingsAgree); that the  *)
(* logger's goroutine keeps its file (OpenFileKept) and that the output    *)
(* goes where openFile put it (OutputIsOpenFile).                          *)
(*                                                                         *)
(* Each invariant needs what holds while a goroutine is in the middle: the *)
(* apply stores its fields one after the other, and process closes, opens, *)
(* stores and directs in four steps.                                       *)
(***************************************************************************)
EXTENDS ConfigReload, TLAPS

USE LoggerAssumption, ConfigAssumption DEF Nil

(* TypeOK, in the parts the steps below take apart: the goroutine of       *)
(* reload, the file it watches, and the two halves of the logger.          *)
DiskType == day \in 0..MaxDay /\ files \subseteq Int /\ failures \in 0..MaxFailures
HandleType ==
    /\ fileOf \in Seq(0..MaxDay) /\ closed \subseteq Handles
    /\ logfile \in Handles \cup {Nil} /\ opened \in Handles \cup {Nil}
    /\ output \in [file : Handles \cup {Nil}, stdout : BOOLEAN,
                   by : {"boot", "openFile", "SetLogSysOut"}]
    /\ picked \in Handles \cup {Nil}
LoggerType ==
    /\ lastDataUnit \in 0..MaxDay /\ level \in {"INFO", "DEBUG"}
    /\ lpc \in {"idle", "open", "store", "output"}
FileType ==
    /\ clock \in 1..MaxClock /\ edits \in 0..MaxEdits
    /\ file \in [there : BOOLEAN, content : Contents \cup {Empty},
                 mtime : 1..MaxClock, shared : BOOLEAN]
ConfType ==
    /\ lastFileTime \in {-1} \cup 0..MaxClock
    /\ prop \in (Contents \ {Bad}) \cup {Empty}
    /\ conf \in [Debug : BOOLEAN, LogSysOut : BOOLEAN]
    /\ cpc \in {"wait", "create", "load", "apply", "applySysOut", "pick", "direct"}
Types == DiskType /\ HandleType /\ LoggerType /\ FileType /\ ConfType

LEMMA TypesIsTypeOK == Types <=> TypeOK
BY DEF Types, DiskType, HandleType, LoggerType, FileType, ConfType, TypeOK,
       LoggerTypeOK

(* GetBoolean parses to a boolean whatever the text, so Settings has the   *)
(* type of conf.                                                           *)
LEMMA SettingsType ==
    ASSUME NEW p
    PROVE  /\ Settings(p) \in [Debug : BOOLEAN, LogSysOut : BOOLEAN]
           /\ LevelOf(Settings(p).Debug) \in {"INFO", "DEBUG"}
BY DEF Settings, GetBoolean, LevelOf

(* What Replace, Truncate and Create write is a file.                      *)
LEMMA WrittenType ==
    ASSUME FileType, NEW c \in Contents \cup {Empty}
    PROVE  Written(c) \in [there : BOOLEAN, content : Contents \cup {Empty},
                           mtime : 1..MaxClock, shared : BOOLEAN]
BY DEF FileType, Written

LEMMA FirstFile ==
    ASSUME NEW texts, NEW wider, texts \subseteq wider, NEW times, NEW t \in times,
           NEW f \in [there : BOOLEAN, content : texts, mtime : {t}, shared : {FALSE}]
    PROVE  f \in [there : BOOLEAN, content : wider, mtime : times, shared : BOOLEAN]
OBVIOUS

LEMMA InitTypes == Init => Types
<1> SUFFICES ASSUME Init PROVE Types OBVIOUS
<1>1. DiskType /\ LoggerType BY DEF Init, LoggerInit, DiskType, LoggerType
<1>2. HandleType BY DEF Init, LoggerInit, HandleType, Handles, Boot
<1>3. file \in [there : BOOLEAN, content : Contents \cup {Empty},
              mtime : 1..MaxClock, shared : BOOLEAN]
  BY FirstFile, 1 \in 1..MaxClock, Contents \subseteq Contents \cup {Empty} DEF Init
<1>4. FileType BY <1>3 DEF Init, FileType
<1>5. ConfType BY DEF Init, ConfType
<1>6. QED BY <1>1, <1>2, <1>4, <1>5 DEF Types

(* The types that a step leaves alone because it leaves the variables.     *)
LEMMA HandlesKept ==
    ASSUME HandleType, UNCHANGED <<fileOf, closed, logfile, opened, output, picked>>
    PROVE  HandleType'
BY DEF HandleType, Handles

-----------------------------------------------------------------------------
(* The steps of the logger's goroutine.                                    *)

LEMMA RotateTypes == ASSUME Types, Rotate, UNCHANGED configVars PROVE Types'
<1>1. DiskType' BY DEF Types, DiskType, Rotate, ClearOldLog
<1>2. HandleType' BY DEF Types, HandleType, Handles, Rotate, configVars
<1>3. LoggerType' BY DEF Types, DiskType, LoggerType, Rotate
<1>4. FileType' /\ ConfType' BY DEF Types, FileType, ConfType, configVars
<1>5. QED BY <1>1, <1>2, <1>3, <1>4 DEF Types

LEMMA OpenFileTypes == ASSUME Types, OpenFile, UNCHANGED configVars PROVE Types'
<1>1. DiskType' BY DEF Types, DiskType, OpenFile
<1>2. fileOf' \in Seq(0..MaxDay) /\ Len(fileOf') = Len(fileOf) + 1
      BY DEF Types, DiskType, HandleType, OpenFile
<1>3. Handles' = 1..(Len(fileOf) + 1) /\ Handles \subseteq Handles'
      BY <1>2 DEF Types, HandleType, Handles
<1>4. opened' \in Handles' /\ closed' \subseteq Handles' /\ output'.file \in Handles' \cup {Nil}
      BY <1>3 DEF Types, HandleType, OpenFile, Handles
<1>8. HandleType'
      BY <1>2, <1>3, <1>4 DEF Types, HandleType, OpenFile, configVars
<1>5. LoggerType' BY DEF Types, LoggerType, OpenFile
<1>6. FileType' /\ ConfType' BY DEF Types, FileType, ConfType, configVars
<1>7. QED BY <1>1, <1>8, <1>5, <1>6 DEF Types

LEMMA LoggerStepTypes == ASSUME Types, LoggerStep PROVE Types'
<1>1. CASE Rotate BY <1>1, RotateTypes DEF LoggerStep
<1>2. CASE OpenFile BY <1>2, OpenFileTypes DEF LoggerStep
<1>3. CASE OpenFails
  BY <1>3, HandlesKept DEF LoggerStep, configVars, OpenFails, Types, DiskType,
     LoggerType, FileType, ConfType
<1>4. CASE StoreFile
  <2>1. HandleType' BY <1>4 DEF LoggerStep, configVars, StoreFile, Types, HandleType,
                               Handles
  <2>2. QED BY <1>4, <2>1 DEF LoggerStep, configVars, StoreFile, Types, DiskType,
                            LoggerType, FileType, ConfType
<1>5. CASE DirectOutput
  <2>1. HandleType' BY <1>5 DEF LoggerStep, configVars, DirectOutput, Directed, Types,
                               HandleType, Handles
  <2>2. QED BY <1>5, <2>1 DEF LoggerStep, configVars, DirectOutput, Types, DiskType,
                            LoggerType, FileType, ConfType
<1>6. CASE NextDay
  BY <1>6, HandlesKept DEF LoggerStep, configVars, NextDay, Types, DiskType,
     LoggerType, FileType, ConfType
<1>7. QED BY <1>1, <1>2, <1>3, <1>4, <1>5, <1>6 DEF LoggerStep, Process

-----------------------------------------------------------------------------
(* The file, and the goroutine of reload.                                  *)

LEMMA EditTypes ==
    ASSUME Types, Replace \/ Delete \/ Truncate \/ Second
    PROVE  Types'
<1>1. HandleType'
  BY HandlesKept DEF Types, Replace, Delete, Truncate, Second, Edit, loggerVars
<1>2. DiskType' /\ LoggerType'
  BY DEF Types, DiskType, LoggerType, Replace, Delete, Truncate, Second, Edit, loggerVars
<1>3. ConfType' BY DEF Types, ConfType, Replace, Delete, Truncate, Second, Edit
<1>4. FileType'
  <2>1. CASE Replace BY <2>1, WrittenType DEF Types, FileType, Replace, Edit
  <2>2. CASE Delete
    <3>1. file' \in [there : BOOLEAN, content : Contents \cup {Empty},
                     mtime : 1..MaxClock, shared : BOOLEAN]
      BY <2>2 DEF Types, FileType, Delete
    <3>2. QED BY <2>2, <3>1 DEF Types, FileType, Delete, Edit
  <2>3. CASE Truncate BY <2>3, WrittenType DEF Types, FileType, Truncate, Edit
  <2>4. CASE Second BY <2>4 DEF Types, FileType, Second
  <2>5. QED BY <2>1, <2>2, <2>3, <2>4
<1>5. QED BY <1>1, <1>2, <1>3, <1>4 DEF Types

LEMMA ReloadTypes == ASSUME Types, Reload PROVE Types'
<1> USE DEF Types
<1>1. CASE Stat
  <2>1. HandleType' /\ DiskType' /\ LoggerType'
    BY <1>1, HandlesKept DEF Stat, loggerVars, DiskType, LoggerType
  <2>2. FileType' /\ ConfType' BY <1>1 DEF Stat, FileType, ConfType
  <2>3. QED BY <2>1, <2>2
<1>2. CASE Create
  <2>1. HandleType' /\ DiskType' /\ LoggerType'
    BY <1>2, HandlesKept DEF Create, loggerVars, DiskType, LoggerType
  <2>2. FileType' /\ ConfType' BY <1>2, WrittenType DEF Create, FileType, ConfType
  <2>3. QED BY <2>1, <2>2
<1>3. CASE CreateFails
  BY <1>3, HandlesKept DEF CreateFails, DiskType, LoggerType, FileType, ConfType
<1>4. CASE Load
  <2>1. HandleType' /\ DiskType' /\ LoggerType'
    BY <1>4, HandlesKept DEF Load, loggerVars, DiskType, LoggerType
  <2>2. FileType' /\ ConfType' BY <1>4 DEF Load, Loadable, FileType, ConfType
  <2>3. QED BY <2>1, <2>2
<1>5. CASE ExitAndRestart
  <2>1. HandleType'
    BY <1>5 DEF ExitAndRestart, LoggerStarts, ConfigStarts, HandleType, Handles, Boot
  <2>2. QED
    BY <1>5, <2>1 DEF ExitAndRestart, LoggerStarts, ConfigStarts, disk, DiskType,
       LoggerType, FileType, ConfType
<1>6. CASE ApplyDebug
  BY <1>6, HandlesKept, SettingsType DEF ApplyDebug, DiskType, LoggerType, FileType,
     ConfType
<1>7. CASE ApplyLogSysOut
  <2>1. HandleType' /\ DiskType' /\ LoggerType' /\ FileType'
    BY <1>7, HandlesKept DEF ApplyLogSysOut, loggerVars, DiskType, LoggerType, FileType
  <2>2. ConfType' BY <1>7, SettingsType DEF ApplyLogSysOut, ConfType
  <2>3. QED BY <2>1, <2>2
<1>8. CASE PickFile
  BY <1>8 DEF PickFile, loggerVars, HandleType, Handles, DiskType, LoggerType,
     FileType, ConfType
<1>9. CASE SetLogSysOut
  <2>1. HandleType' BY <1>9 DEF SetLogSysOut, Directed, HandleType, Handles, ConfType
  <2>2. QED BY <1>9, <2>1 DEF SetLogSysOut, DiskType, LoggerType, FileType, ConfType
<1>10. QED
  BY <1>1, <1>2, <1>3, <1>4, <1>5, <1>6, <1>7, <1>8, <1>9 DEF Reload

LEMMA TypesStep == Types /\ [Next]_vars => Types'
<1>1. ASSUME Types, UNCHANGED vars PROVE Types'
  BY <1>1, HandlesKept DEF vars, loggerVars, configVars, Types, DiskType,
     LoggerType, FileType, ConfType
<1>2. QED BY <1>1, LoggerStepTypes, EditTypes, ReloadTypes DEF Next

(* TypeOK: every handle a field holds is one that was opened, and what     *)
(* every step stores in the settings and in the file has its type.         *)
THEOREM TypeInvariance == Spec => []TypeOK
BY InitTypes, TypesStep, TypesIsTypeOK, PTL DEF Spec

-----------------------------------------------------------------------------
(* The logger's file.  Kept(h): h was not closed, its file is in the       *)
(* directory and belongs to the day the file was opened for, or a later    *)
(* one; so clearOldLog, which runs in the pass that compares the days,     *)
(* never finds it expired unless the pass closes it.                       *)
Kept(h) == h \notin closed /\ fileOf[h] \in files /\ fileOf[h] >= lastDataUnit

FileInv ==
    /\ lastDataUnit <= day
    /\ lpc \in {"idle", "output"} /\ logfile # Nil => Kept(logfile)
    /\ lpc = "output" => logfile # Nil
    /\ lpc \in {"open", "store"} => logfile = Nil
    /\ lpc = "store" => opened # Nil /\ Kept(opened)

LEMMA FileInvIsOpenFileKept == FileInv => OpenFileKept
BY DEF FileInv, OpenFileKept, Kept

LEMMA InitFileInv == Init => FileInv
BY DEF Init, LoggerInit, FileInv

(* A file of today or a later day is not expired.                          *)
LEMMA ClearOldLogKeeps ==
    ASSUME day \in Nat, NEW f \in files, f \in Int, f >= day
    PROVE  f \in ClearOldLog(files)
BY DEF ClearOldLog, Expired

LEMMA RotateFileInv == ASSUME Types, FileInv, Rotate PROVE FileInv'
<1> USE DEF Types, DiskType, HandleType, LoggerType, Handles
<1>1. CASE lastDataUnit # day \/ logfile = Nil
  <2>1. lastDataUnit' = day /\ day' = day /\ lpc' = "open" /\ logfile' = Nil
    BY <1>1 DEF Rotate, FileInv
  <2>2. QED BY <2>1 DEF FileInv
<1>2. CASE lastDataUnit = day /\ logfile # Nil
  <2>1. /\ UNCHANGED <<day, logfile, fileOf, closed, opened, lastDataUnit, lpc>>
        /\ lpc = "idle" /\ files' \in {files, ClearOldLog(files)}
    BY <1>2 DEF Rotate
  <2>2. Kept(logfile) BY <1>2, <2>1 DEF FileInv
  <2>3. fileOf[logfile] \in files' 
    BY <1>2, <2>1, <2>2, ClearOldLogKeeps DEF Kept
  <2>4. Kept(logfile)' BY <2>1, <2>2, <2>3 DEF Kept
  <2>5. QED BY <2>1, <2>4, <1>2 DEF FileInv
<1>3. QED BY <1>1, <1>2

LEMMA OpenFileFileInv == ASSUME Types, FileInv, OpenFile PROVE FileInv'
<1> USE DEF Types, DiskType, HandleType, LoggerType, Handles
<1>1. lpc' = "store" /\ logfile' = Nil /\ UNCHANGED <<day, lastDataUnit, closed>>
  BY DEF OpenFile, FileInv
<1>2. /\ opened' = Len(fileOf) + 1 /\ opened' \notin closed
      /\ fileOf'[opened'] = day /\ day \in files'
  BY DEF OpenFile
<1>3. Kept(opened)' BY <1>1, <1>2 DEF Kept, FileInv
<1>4. QED BY <1>1, <1>2, <1>3 DEF FileInv

(* The steps of the logger's goroutine that open, close and remove nothing *)
(* keep the file where it is; so does every step of the other goroutine    *)
(* but the exit, after which the logger has no file.                       *)
LEMMA LoggerStepFileInv == ASSUME Types, FileInv, LoggerStep PROVE FileInv'
<1>1. CASE Rotate BY <1>1, RotateFileInv
<1>2. CASE OpenFile BY <1>2, OpenFileFileInv
<1>3. CASE OpenFails BY <1>3 DEF OpenFails, FileInv
<1>4. CASE StoreFile BY <1>4 DEF StoreFile, FileInv, Kept
<1>5. CASE DirectOutput BY <1>5 DEF DirectOutput, FileInv, Kept
<1>6. CASE NextDay
  BY <1>6 DEF NextDay, FileInv, Kept, Types, DiskType, LoggerType
<1>7. QED BY <1>1, <1>2, <1>3, <1>4, <1>5, <1>6 DEF LoggerStep, Process

LEMMA FileInvUnchanged ==
    ASSUME FileInv,
           UNCHANGED <<day, files, logfile, fileOf, closed, lastDataUnit, lpc, opened>>
    PROVE  FileInv'
BY DEF FileInv, Kept

LEMMA OtherStepFileInv ==
    ASSUME Types, FileInv, Reload \/ Replace \/ Delete \/ Truncate \/ Second
    PROVE  FileInv'
<1>1. CASE ExitAndRestart
  BY <1>1 DEF ExitAndRestart, LoggerStarts, disk, FileInv, Types, DiskType
<1>2. CASE ~ExitAndRestart
  BY <1>2, FileInvUnchanged DEF Reload, Stat, Create, CreateFails, Load, ApplyDebug,
     ApplyLogSysOut, PickFile, SetLogSysOut, Replace, Delete, Truncate, Second, Edit,
     loggerVars
<1>3. QED BY <1>1, <1>2

(* OpenFileKept: between two passes the open file is neither closed nor    *)
(* removed, whatever days pass and wherever the process exits.             *)
THEOREM OpenFileKeptHolds == Spec => []OpenFileKept
<1>1. Init => Types /\ FileInv BY InitTypes, InitFileInv
<1>2. (Types /\ FileInv) /\ [Next]_vars => (Types /\ FileInv)'
  <2>1. ASSUME Types, FileInv, UNCHANGED vars PROVE FileInv'
    BY <2>1, FileInvUnchanged DEF vars, loggerVars
  <2>2. QED BY <2>1, TypesStep, LoggerStepFileInv, OtherStepFileInv DEF Next
<1>3. QED BY <1>1, <1>2, FileInvIsOpenFileKept, PTL DEF Spec

-----------------------------------------------------------------------------
(* Where openFile directed the output.                                     *)

LEMMA OutputKept ==
    ASSUME OutputIsOpenFile, UNCHANGED <<output, logfile, closed>>,
           lpc' = "idle" => lpc = "idle", failures' \in {failures, failures + 1}, Types
    PROVE  OutputIsOpenFile'
BY DEF OutputIsOpenFile, Lost, Types, DiskType

LEMMA LoggerStepOutput ==
    ASSUME Types, FileInv, OutputIsOpenFile, LoggerStep PROVE OutputIsOpenFile'
<1> USE DEF Types, DiskType
<1>1. CASE Rotate
  <2>1. CASE lastDataUnit # day \/ logfile = Nil
    BY <1>1, <2>1 DEF Rotate, OutputIsOpenFile
  <2>2. CASE lastDataUnit = day /\ logfile # Nil
    BY <1>1, <2>2, OutputKept DEF Rotate
  <2>3. QED BY <2>1, <2>2
<1>2. CASE OpenFile BY <1>2 DEF OpenFile, OutputIsOpenFile
<1>3. CASE OpenFails BY <1>3 DEF OpenFails, FileInv, OutputIsOpenFile
<1>4. CASE StoreFile BY <1>4 DEF StoreFile, OutputIsOpenFile
<1>5. CASE DirectOutput
  BY <1>5 DEF DirectOutput, Directed, Lost, FileInv, Kept, OutputIsOpenFile
<1>6. CASE NextDay BY <1>6, OutputKept DEF NextDay
<1>7. QED BY <1>1, <1>2, <1>3, <1>4, <1>5, <1>6 DEF LoggerStep, Process

LEMMA OtherStepOutput ==
    ASSUME Types, OutputIsOpenFile, Reload \/ Replace \/ Delete \/ Truncate \/ Second
    PROVE  OutputIsOpenFile'
<1>1. CASE ExitAndRestart
  <2>1. output'.by = "boot" BY <1>1 DEF ExitAndRestart, LoggerStarts, Boot
  <2>2. QED BY <2>1 DEF OutputIsOpenFile
<1>2. CASE SetLogSysOut
  <2>1. output'.by = "SetLogSysOut" BY <1>2 DEF SetLogSysOut, Directed
  <2>2. QED BY <2>1 DEF OutputIsOpenFile
<1>3. CASE ~ExitAndRestart /\ ~SetLogSysOut
  <2>1. UNCHANGED <<output, logfile, closed, lpc>> /\ failures' \in {failures, failures + 1}
    BY <1>3 DEF Reload, Stat, Create, CreateFails, Load, ApplyDebug, ApplyLogSysOut,
       PickFile, Replace, Delete, Truncate, Second, Edit, loggerVars
  <2>2. QED BY <2>1, OutputKept DEF Types, DiskType
<1>4. QED BY <1>1, <1>2, <1>3

(* OutputIsOpenFile: where openFile spoke last, messages go to the open    *)
(* file, unless an opening failed after it.                                *)
THEOREM OutputIsOpenFileHolds == Spec => []OutputIsOpenFile
<1> DEFINE Inv == Types /\ FileInv /\ OutputIsOpenFile
<1>1. Init => Inv
  BY InitTypes, InitFileInv DEF Init, LoggerInit, Boot, OutputIsOpenFile
<1>2. Inv /\ [Next]_vars => Inv'
  <2>1. ASSUME Types, FileInv, OutputIsOpenFile, UNCHANGED vars
        PROVE  FileInv' /\ OutputIsOpenFile'
    BY <2>1, FileInvUnchanged, OutputKept DEF vars, loggerVars, Types, DiskType
  <2>2. QED
    BY <2>1, TypesStep, LoggerStepFileInv, OtherStepFileInv, LoggerStepOutput,
       OtherStepOutput DEF Next
<1>3. QED BY <1>1, <1>2, PTL DEF Spec

-----------------------------------------------------------------------------
(* The settings.  Each field is stored in a step of its own, with the      *)
(* logger in between: what agrees depends on where the apply is.           *)
Directs == output.by = "SetLogSysOut" => output.stdout = conf.LogSysOut
SettingsInv ==
    /\ cpc \in {"wait", "create", "load"} => conf = Settings(prop)
    /\ cpc \in {"pick", "direct"} => conf = Settings(prop)
    /\ cpc = "applySysOut" => conf.Debug = Settings(prop).Debug
    /\ cpc # "apply" => level = LevelOf(conf.Debug)
    /\ cpc \notin {"pick", "direct"} => Directs

LEMMA SettingsInvIsSettingsAgree == SettingsInv => SettingsAgree
BY DEF SettingsInv, SettingsAgree, Directs

(* The logger sets neither the settings nor its level, and when it directs *)
(* the output it is openFile that spoke last.                              *)
LEMMA LoggerStepSettings ==
    ASSUME SettingsInv, LoggerStep PROVE SettingsInv'
<1>1. UNCHANGED <<conf, prop, cpc, level>>
  BY DEF LoggerStep, configVars, Process, Rotate, OpenFile, OpenFails, StoreFile,
     DirectOutput, NextDay
<1>2. output' = output \/ output'.by = "openFile"
  BY DEF LoggerStep, Process, Rotate, OpenFile, OpenFails, StoreFile, DirectOutput,
     NextDay, Directed
<1>3. QED BY <1>1, <1>2 DEF SettingsInv, Directs

LEMMA OtherStepSettings ==
    ASSUME Types, SettingsInv, Reload \/ Replace \/ Delete \/ Truncate \/ Second
    PROVE  SettingsInv'
<1>1. CASE Stat BY <1>1 DEF Stat, loggerVars, SettingsInv, Directs
<1>2. CASE Create BY <1>2 DEF Create, loggerVars, SettingsInv, Directs
<1>3. CASE CreateFails BY <1>3 DEF CreateFails, SettingsInv, Directs
<1>4. CASE Load BY <1>4 DEF Load, loggerVars, SettingsInv, Directs
<1>5. CASE ExitAndRestart
  BY <1>5 DEF ExitAndRestart, LoggerStarts, ConfigStarts, Boot, SettingsInv, Directs
<1>6. CASE ApplyDebug
  <2>1. /\ conf'.Debug = Settings(prop).Debug /\ conf'.LogSysOut = conf.LogSysOut
        /\ level' = LevelOf(conf'.Debug)
    BY <1>6 DEF ApplyDebug, Types, ConfType
  <2>2. QED BY <1>6, <2>1 DEF ApplyDebug, SettingsInv, Directs
<1>7. CASE ApplyLogSysOut
  <2>1. /\ conf'.Debug = conf.Debug /\ conf'.LogSysOut = Settings(prop).LogSysOut
        /\ conf' \in [Debug : BOOLEAN, LogSysOut : BOOLEAN]
    BY <1>7, SettingsType DEF ApplyLogSysOut, Types, ConfType
  <2>2. conf' = Settings(prop)
    BY <1>7, <2>1, SettingsType DEF ApplyLogSysOut, SettingsInv
  <2>3. QED
    BY <1>7, <2>1, <2>2 DEF ApplyLogSysOut, loggerVars, SettingsInv, Directs
<1>8. CASE PickFile BY <1>8 DEF PickFile, loggerVars, SettingsInv
<1>9. CASE SetLogSysOut BY <1>9 DEF SetLogSysOut, Directed, SettingsInv, Directs
<1>10. CASE Replace \/ Delete \/ Truncate \/ Second
  BY <1>10 DEF Replace, Delete, Truncate, Second, Edit, loggerVars, SettingsInv, Directs
<1>11. QED
  BY <1>1, <1>2, <1>3, <1>4, <1>5, <1>6, <1>7, <1>8, <1>9, <1>10 DEF Reload

(* SettingsAgree: outside of an apply the settings, the logger's level and *)
(* its output agree with one version of the file.                          *)
THEOREM SettingsAgreeHolds == Spec => []SettingsAgree
<1>1. Init => Types /\ SettingsInv
  BY InitTypes DEF Init, LoggerInit, Boot, SettingsInv, Directs
<1>2. (Types /\ SettingsInv) /\ [Next]_vars => (Types /\ SettingsInv)'
  <2>1. ASSUME SettingsInv, UNCHANGED vars PROVE SettingsInv'
    BY <2>1 DEF vars, loggerVars, configVars, SettingsInv, Directs
  <2>2. QED BY <2>1, TypesStep, LoggerStepSettings, OtherStepSettings DEF Next
<1>3. QED BY <1>1, <1>2, SettingsInvIsSettingsAgree, PTL DEF Spec
=============================================================================
