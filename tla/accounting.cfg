SPECIFICATION AccountingSpec
CONSTANTS
    Wine = {w1, w2}
    Shelf = {1, 2}
    Index = {1}
    ShelfName <- SameName
    Size = {s1, s2}
    Standard = s1
    NoSize = NoSize
    None = None
    MaxQuantity = 4
    MaxPick = 2
    MaxOps = 3
SYMMETRY Symmetry
INVARIANTS
    AccountingTypeOK
    CountsAgree
PROPERTIES
    TakesOnlyNamed
    PlacesWithinBottles
    RemovalsFit
