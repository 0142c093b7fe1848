\* Two tablets, one of whose clocks is ahead, one team code, one fault.
SPECIFICATION Spec
CHECK_DEADLOCK FALSE  \* the game ends
CONSTANTS
    Prologue <- Connexion
    Variants = {"A"}
    DefaultVariant = "A"
    Parcours <- OneEnigme
    Kind <- KindOfOne
    Points <- PointsOfOne
    Cap <- NoCap
    Unauthored = {}
    Mails = {}
    Trap = {}
    NoMail = "no-mail"
    NoTeam = NoTeam
    NoFlow = NoFlow
    NoRow = NoRow
    d1 = d1
    d2 = d2
    t1 = t1
    t2 = t2
    Tablets = {d1, d2}
    Players = {d1}
    Teams = {t1}
    Skew <- OneAhead
    MaxMistakes = 0
    MaxPending = 3
    MaxInFlight = 1
    MaxFaults = 1
INVARIANTS
    TeamsTyped
    RowCurrent
    ScoreNotPaidTwice
    LogPushedOnce
PROPERTIES
    RegisterSpec
