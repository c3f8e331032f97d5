SPECIFICATION CHSpec
CONSTANTS
    Wine = {w1}
    Op = {o1, o2}
    None = None
INVARIANTS
    ErasesUnreferenced
