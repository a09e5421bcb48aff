SPECIFICATION WideSpec
CONSTANTS
    r1 = r1
    r2 = r2
    r3 = r3
    Rows <- ThreeRows
    Targets <- AllTargets
    Groups <- StaffGroup
    Linked <- StaffGrantsPayroll
    Conflict <- PayrollAgainstAudit
    Outside = {"staff"}
    Payloads <- PayrollBodies
    Requests = {q1, q2}
    MaxInFlight = 2
    MaxHours = 1
    MaxClock = 1
    Faults = {"refused", "lost", "read", "crash"}
    MaxFaults = 1
    NoRow = NoRow
    NoGroup = NoGroup
SYMMETRY Alike
INVARIANTS
    ApprovalRespected
PROPERTIES
    PromiseKept
    AloneSyncReconciles
