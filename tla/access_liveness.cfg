\* One frame per direction in flight, two faults; a team at the entry-point screen gets its verdict.
SPECIFICATION FairSpec
CHECK_DEADLOCK FALSE  \* the game ends at the epilogue
CONSTANTS
    Prep <- ShortPrep
    Steps <- ShortSteps
    Transitions <- FullTransitions
    Choices <- FullChoices
    Responses <- FullResponses
    StartPercent = 0
    PointEntree = "point-entree"
    PointValide = "point-acces-valide"
    PointRefus = "point-acces-refus"
    NoStep = "none"
    NoEvent = "no-event"
    a1 = a1
    a2 = a2
    g1 = g1
    g2 = g2
    t1 = t1
    t2 = t2
    NoTeam = NoTeam
    NoCode = NoCode
    Assaut <- OneAssaut
    Gms <- OneGm
    Teams = {t1}
    Team <- TeamOfOne
    Codes = {}
    MaxInFlight = 1
    MaxFaults = 2
PROPERTIES
    EntryResolved
