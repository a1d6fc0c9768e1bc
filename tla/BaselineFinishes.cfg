CONSTANTS
    Workers = {w1, w2}
    Verdicts = {"logOver", "nonzero", "malformed", "unmet", "ok"}
    RepairMode = FALSE
    MayCancel = FALSE
    MayTimeOutJoin = FALSE
    CallsMayFail = FALSE
    MaxEpoch = 1
    MaxVersion = 4
    MaxMessages = 2
    MaxFaults = 0
SPECIFICATION FairSpec
PROPERTIES Finishes
