\* Expected violation: the cancel notification is never sent.
CONSTANTS
    r1 = r1
    r2 = r2
    Runtimes <- MCRuntimes
    Targets <- MCRuntimes
    NotifEnabled = TRUE
    FaultKinds = {}
    MaxFaults = 0
    MaxRequests = 1
SPECIFICATION FairSpec
INVARIANT CancelNotified
CHECK_DEADLOCK FALSE
