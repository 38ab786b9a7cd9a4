SPECIFICATION Spec
CONSTANTS
    Floats <- MCFloats
    Names <- MCNames
    NotFinite = "nan"
    Huge = 99
    MaxStages = 4
    MaxName = 6
    MaxViews = 2
    Savers = {s1, s2}
    Readers = {r1}
    Bundles <- MCBundles
    NoBundle = NoBundle
    MaxFiles = 3
    MaxSaves = 2
SYMMETRY SavedSymmetry
CHECK_DEADLOCK FALSE
INVARIANTS
    PublishedIsWhole
    LoadsAsSaved
