SPECIFICATION Spec
CONSTANTS
    Keys <- MCKeys
    Env <- MCEnv
    Contents <- MCContents
    OldFiles <- MCOldFiles
    Absent = Absent
    Bad = Bad
    MaxDay = 2
    KeepDays = 1
    MaxFailures = 1
    MaxClock = 2
    MaxEdits = 2
INVARIANTS
    TypeOK
    SettingsAgree
    OpenFileKept
    OutputIsOpenFile
PROPERTIES
    FileTakesEffect
