\* Two workers, four deliveries, so that a redelivered parent asks for a second
\* Approval while the child is at work, or the child is taken over.  Both patches
\* only edit, so that a worktree is clean after its commit and work goes on.
CONSTANTS
    w1 = w1
    w2 = w2
    edit = edit
    create = create
    Workers = {w1, w2}
    Patches = {edit, create}
    Creating = {}
    Verdicts = {"nonzero", "ok"}
    MayCancel = TRUE
    MaxDeliveries = 4
    MaxFaults = 1
SPECIFICATION Spec
SYMMETRY Interchangeable
INVARIANTS TypeOK ApprovedBytesOnly OneQuestion RowsAgree EvidenceClosed
PROPERTIES RepairPromised StaleWorkerHarmless CancelHolds
