\* Walks of holes of up to 4 edges; two components make a soup.
SPECIFICATION FairSpec
CONSTANTS
    Meshes <- MCMeshes
    DropShare = 2
    MaxLoop = 4
    SoupAt = 1
    TinyFaces = 1
    MaxRounds = 2
INVARIANTS
    ReadyToSimplify
    HolesFilled
    BakedWhole
    WorkerKeepsItsOwn
PROPERTY
    ExportReturns
