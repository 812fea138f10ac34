SPECIFICATION Spec
CONSTANTS
    Spellings <- MCSpellings
    Lower <- MCLower
    MinCounts = {1, 2}
    MaxSizes = {2, 3}
    MaxOccurs = 2
    Weights = {0, 1, 2}
    EmbedSize = 2
    LoadSizes = {1, 2}
    Asked = {0, 1, 2, 3}
CHECK_DEADLOCK FALSE
INVARIANTS
    WordsByFrequency
    BestFirst
    ServedVectorsAreWhole
    LoadedOneOff
