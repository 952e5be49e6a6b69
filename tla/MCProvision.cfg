\* Three overlapping Provision calls, one or two parameter sets, one storage failure.
SPECIFICATION Spec
CONSTANTS
    r1 = r1  r2 = r2  r3 = r3  i1 = i1  i2 = i2  g1 = g1  p1 = p1  p2 = p2
    Requests = {r1, r2, r3}
    GAs = {g1}
    OnlySingleTrial = TRUE
    Checks = {"ok", "noContext", "invalid"}

CHECK_DEADLOCK FALSE
CONSTANTS Instances = {i1}  Params = {p1, p2}  MaxFaults = 1
PROPERTY ImplementsService
