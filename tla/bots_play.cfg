\* Variant A as shipped, with double taps and timers racing taps, and its report.
SPECIFICATION PlaySpec
CHECK_DEADLOCK FALSE  \* the final screen has no way out
CONSTANTS
    Prologue <- JsonPrologue
    Variants <- JsonVariants
    DefaultVariant = "A"
    Parcours <- JsonParcours
    Kind <- JsonKind
    Points <- JsonPoints
    Cap <- JsonCap
    Unauthored <- JsonUnauthored
    Mails <- JsonMails
    Trap <- JsonTrap
    NoMail = "no-mail"
    NoOne = NoOne
    MaxSlips = 4
INVARIANTS
    NoEnigmeSkipped
    CapRespected
    ScoreIsLogged
    LogClosedAtEnd
    AnswerAsShown
    Figures
