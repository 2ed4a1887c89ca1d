SPECIFICATION Spec
CONSTANTS
    op1 = op1
    op2 = op2
    startup = startup
    r1 = r1
    r2 = r2
    Ops <- OpTasks
    Probers <- NoTasks
    Readers <- ReaderTasks
    Action <- Actions
    MaxObs = 4
INVARIANTS SettledSnapshotIsSettled
CHECK_DEADLOCK FALSE
