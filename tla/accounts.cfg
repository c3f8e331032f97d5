SPECIFICATION ASpec
CONSTANTS
    Device = {d1}
    Write = {w1}
    Default = Default
    Picked = Picked
    Torn = Torn
    None = None
    InPlace = TRUE
    LocalOnly = FALSE
    Account = {a1, a2}
    Main = Main
    Call = {c1, c2}
    MaxClock = 1
SYMMETRY Symmetry
INVARIANTS
    AccountsSeparate
PROPERTIES
    PutsInOrder
