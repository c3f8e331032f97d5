SPECIFICATION LocSpec
CONSTANTS
    Name <- SomeNames
    Shelf = {1, 2}
    Index = {"1", "2"}
    MaxQuantity = 2
INVARIANTS
    ReadsBack
    CountsSpots
    ShelvesShowAll
