SPECIFICATION Spec
CONSTANTS
    Registries <- MCRegistries
    GpuOrdinals = {0, 1}
    ThreadCounts = {1, 2}
    Handles = {h1, h2, h3, h4, h5}
    Pools = {p1, p2, p3}
    NoPool = NoPool
SYMMETRY Symmetry
INVARIANTS FreedInTime PolicyHonoured
