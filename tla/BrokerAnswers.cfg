CONSTANTS
    o1 = o1  o2 = o2  r1 = r1  r2 = r2  r3 = r3  r4 = r4
    Operations = {o1, o2}
    Requests = {r1, r2, r4}
    Contents = {"a", "b", "blank"}
    Blank = {"blank"}
    OpOf <- MCOpOf
    Capacity = 1
    MayCorrupt = TRUE
    MaxRestarts = 1
SPECIFICATION Spec
INVARIANTS TypeOK OneLeader ClaimsReleased
PROPERTIES NoRerun OneResult Settles
