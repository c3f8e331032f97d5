SPECIFICATION HSpec
CONSTANTS
    Device = {d1}
    Write = {w1}
    Default = Default
    Picked = Picked
    Torn = Torn
    None = None
    InPlace = TRUE
    LocalOnly = FALSE
    Account = {a1}
    Main = Main
    Call = {c1, c2}
    MaxClock = 2
SYMMETRY Symmetry
INVARIANTS
    TypeOK
    OneUploader
    DownloadOffline
    UnsyncedIsFlagged
    OverwritesOnlyStored
PROPERTIES
    KeepsCopies
