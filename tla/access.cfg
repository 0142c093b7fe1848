\* An installation of a team beside one without a team, one GM who rules and sends codes, one fault.
SPECIFICATION Spec
CHECK_DEADLOCK FALSE  \* the game ends at the epilogue
CONSTANTS
    Prep <- ShortPrep
    Steps <- ShortSteps
    Transitions <- FullTransitions
    Choices <- FullChoices
    Responses <- FullResponses
    StartPercent = 0
    PointEntree = "point-entree"
    PointValide = "point-acces-valide"
    PointRefus = "point-acces-refus"
    NoStep = "none"
    NoEvent = "no-event"
    a1 = a1
    a2 = a2
    g1 = g1
    g2 = g2
    t1 = t1
    t2 = t2
    NoTeam = NoTeam
    NoCode = NoCode
    Assaut <- TwoAssaut
    Gms <- OneGm
    Teams = {t1}
    Team <- TeamOfOneOfTwo
    Codes = {c1}
    MaxInFlight = 1
    MaxFaults = 1
INVARIANTS
    GateEarned
    ValidOnlyIfApproved
    VerdictsTraced
    CodeFromGm
PROPERTIES
    GateSpec
