\* Three jobs compete for two places in the table and one permit, with one
\* download; the runs with lines of output are those of DemoJobs_liveness.
CONSTANTS
    Requests = {r1, r2, r3}
    Readers = {g1}
    MaxJobs = 2
    MaxRunning = 1
    TimeoutSet = TRUE
    MaxLines = 0
SPECIFICATION Spec
CHECK_DEADLOCK FALSE
SYMMETRY Symmetry
INVARIANTS
    PermitsAccounted
    UnfinishedIsStored
    FilesAreWhole
PROPERTY
    BoardSpec
