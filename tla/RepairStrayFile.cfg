\* A patch that edits one file and creates another.
CONSTANTS
    w1 = w1
    w2 = w2
    edit = edit
    create = create
    Workers = {w1}
    Patches = {edit, create}
    Creating = {create}
    Verdicts = {"ok"}
    MayCancel = FALSE
    MaxDeliveries = 2
    MaxFaults = 0
SPECIFICATION Spec
INVARIANT RunsTheCommit
