\* Expected violation: a Canceling orchestration is not resumed after a restart.
CONSTANTS
    r1 = r1
    r2 = r2
    Runtimes <- MCRuntimes
    Targets <- MCRuntimes
    NotifEnabled = TRUE
    FaultKinds = {"crash"}
    MaxFaults = 1
    MaxRequests = 1
SPECIFICATION FairSpec
PROPERTY EventuallyFinished
CHECK_DEADLOCK FALSE
