\* Small contents, sound or not, and two updates, each to any other.
SPECIFICATION FairSpec
CONSTANTS
    Contents <- EditedContents
    Kind <- KindOf
    Cap <- CapOf
    NoFlow = NoFlow
    NoMail = NoMail
    MaxUpdates = 2
    MaxWrong = 1
INVARIANTS
    FlowFits
PROPERTIES
    StaysFit
    GameEnds
CHECK_DEADLOCK FALSE  \* the game ends
