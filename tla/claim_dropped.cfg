SPECIFICATION Spec
CONSTANTS
    Device = {d1}
    Write = {w1, w2}
    Default = Default
    Picked = Picked
    Torn = Torn
    None = None
    InPlace = TRUE
    LocalOnly = FALSE
    Account = {a1}
    Main = Main
    Call = {c1, c2}
    MaxClock = 1
INVARIANTS
    InFlightHasLatest
