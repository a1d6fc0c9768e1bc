CONSTANTS
    Workers = {w1, w2}
    Verdicts = {"nonzero", "ok"}
    RepairMode = TRUE
    MayCancel = TRUE
    MayTimeOutJoin = TRUE
    CallsMayFail = TRUE
    MaxEpoch = 2
    MaxVersion = 3
    MaxMessages = 2
    MaxFaults = 1
SPECIFICATION Spec
SYMMETRY Interchangeable
INVARIANTS TypeOK EvidenceClosed OneEpochLedger RowsAgree
PROPERTIES StaleWorkerHarmless OutcomePromised NoOperationAfterCancel
CONSTRAINT OneTrouble
