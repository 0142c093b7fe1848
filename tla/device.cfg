\* Kills at any point; two writes that throw or are cut by a kill.
SPECIFICATION Spec
CHECK_DEADLOCK FALSE  \* the game ends
CONSTANTS
    Prep <- DevPrep
    Steps <- DevSteps
    Transitions <- DevTransitions
    Choices <- DevChoices
    Responses <- DevResponses
    StartPercent = 40
    PointEntree = "point-entree"
    PointValide = "point-acces-valide"
    PointRefus = "point-acces-refus"
    NoStep = "none"
    NoEvent = "no-event"
    NoBlob = NoBlob
    Truncated = Truncated
    InitStep = "init"
    Drafts = {"", "x"}
    MaxMoves = 5
    MaxKeys = 1
    MaxKills = 2
    MaxFailures = 2
INVARIANTS
    SessionsCoherent
    HalvesAgree
    NoDriftFromDisk
PROPERTIES
    CommitsSurvive
    FinishedStaysFinished
