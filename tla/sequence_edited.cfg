\* Small files, sound or not, one edit at any moment.
SPECIFICATION FileFairSpec
CONSTANTS
    Files <- EditedFiles
    Events = {"go"}
    NoStep = NoStep
    NoEvent = NoEvent
    NoFile = NoFile
    NoBlob = NoBlob
    InitStep = "init"
    MaxEdits = 1
INVARIANTS
    StandsOnStep
PROPERTIES
    ForwardFlowsEnd
CHECK_DEADLOCK FALSE  \* the game ends
