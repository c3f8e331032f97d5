SPECIFICATION CHSpec
CONSTANTS
    Wine = {w1}
    Op = {o1, o2, o3}
    None = None
SYMMETRY Symmetry
INVARIANTS
    StoreTypeOK
    ForeignKeys
    OwnedIsVisible
    WishlistShown
PROPERTIES
    KeepsLists
