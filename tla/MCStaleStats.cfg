\* Expected violation: the loop ends on statistics read before a retry.
CONSTANTS
    r1 = r1
    r2 = r2
    Runtimes <- MCRuntimes
    Targets <- MCRuntimes
    NotifEnabled = TRUE
    FaultKinds = {}
    MaxFaults = 0
    MaxRequests = 1
SPECIFICATION FairSpec
INVARIANT QuiescentWhenDone
CHECK_DEADLOCK FALSE
