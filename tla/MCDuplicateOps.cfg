\* Expected violation: operations created twice after a failed Update.
CONSTANTS
    r1 = r1
    r2 = r2
    Runtimes <- MCRuntimes
    Targets <- MCRuntimes
    NotifEnabled = TRUE
    FaultKinds = {"storeError"}
    MaxFaults = 1
    MaxRequests = 2
SPECIFICATION FairSpec
INVARIANT AtMostOneActiveOp
CHECK_DEADLOCK FALSE
