\* Two jobs and one permit.  A deadline may pass at any time or never.
CONSTANTS
    Requests = {r1, r2}
    Readers = {}
    MaxJobs = 2
    MaxRunning = 1
    TimeoutSet = TRUE
    MaxLines = 1
SPECIFICATION SpecServer
CHECK_DEADLOCK FALSE
PROPERTY
    StartedJobsFinish
    ExitIsNoticed
