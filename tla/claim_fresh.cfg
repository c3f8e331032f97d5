SPECIFICATION Spec
CONSTANTS
    Device = {d1}
    Write = {w1}
    Default = Default
    Picked = Picked
    Torn = Torn
    None = None
    InPlace = FALSE
    LocalOnly = TRUE
    Account = {a1}
    Main = Main
    Call = {c1}
    MaxClock = 1
PROPERTIES
    NewLocalDatabaseIsFresh
