\* Every fault kind, two faults per behaviour: crashes and restarts, failed
\* store writes, notification and resolver errors.
CONSTANTS
    r1 = r1
    r2 = r2
    Runtimes <- MCRuntimes
    Targets <- MCRuntimes
    NotifEnabled = TRUE
    FaultKinds = {"crash", "storeError", "notifError", "resolveError"}
    MaxFaults = 2
    MaxRequests = 2
SPECIFICATION FairSpec
PROPERTY CanceledStaysCanceled
CHECK_DEADLOCK FALSE
