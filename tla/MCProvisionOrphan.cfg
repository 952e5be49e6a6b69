\* Two identical concurrent calls and a retry: the retry gets the orphan operation.
SPECIFICATION Spec
CONSTANTS
    r1 = r1  r2 = r2  r3 = r3  i1 = i1  i2 = i2  g1 = g1  p1 = p1  p2 = p2
    Requests = {r1, r2, r3}
    GAs = {g1}
    OnlySingleTrial = TRUE
    Checks = {"ok"}
SYMMETRY MCSymmetry
CHECK_DEADLOCK FALSE
CONSTANTS Instances = {i1}  Params = {p1}  MaxFaults = 0
INVARIANT AcceptedIsQueued
