\* One form whose request may outlive its wait; four typos, a restart.
SPECIFICATION FairSpec
CONSTANTS
    Gms = {g1}
    Codes = {c1, c2}
    Blank = Blank
    NoEntry = NoEntry
    MaxAttempts = 2
    Lockout = 2
    Slots = {1}
    MaxTypos = 4
    MaxRestarts = 1
INVARIANTS
    Ceiling
    SuccessWiped
PROPERTIES
    GmGetsThrough
