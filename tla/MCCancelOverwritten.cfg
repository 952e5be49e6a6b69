\* Expected violation: a cancel request is overwritten.
CONSTANTS
    r1 = r1
    r2 = r2
    Runtimes <- MCRuntimes
    Targets <- MCRuntimes
    NotifEnabled = TRUE
    FaultKinds = {}
    MaxFaults = 0
    MaxRequests = 2
SPECIFICATION FairSpec
PROPERTY CancelHonoured
CHECK_DEADLOCK FALSE
