CONSTANTS
    o1 = o1  o2 = o2  r1 = r1  r2 = r2  r3 = r3  r4 = r4
    Operations = {o1}
    Requests = {r1, r2}
    Contents = {"a", "blank"}
    Blank = {"blank"}
    OpOf <- MCOpOf
    Capacity = 1
    MayCorrupt = FALSE
    MaxRestarts = 0
SPECIFICATION Spec
INVARIANTS CompletionRecorded
