\* Retries, cancels, fleet changes and temporary notification failures.
CONSTANTS
    r1 = r1
    r2 = r2
    Runtimes <- MCRuntimes
    Targets <- MCRuntimes
    NotifEnabled = TRUE
    FaultKinds = {"notifError", "fleetChange"}
    MaxFaults = 2
    MaxRequests = 2
SPECIFICATION FairSpec
INVARIANT TypeOK
INVARIANT AtMostOneActiveOp
INVARIANT CanceledMeansQuiescent
PROPERTY EventuallyFinished
CHECK_DEADLOCK FALSE
