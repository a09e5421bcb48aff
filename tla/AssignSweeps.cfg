SPECIFICATION FairSpec
CONSTANTS
    Rows = {r1, r2}
    Targets <- AllTargets
    Groups <- StaffGroup
    Linked <- StaffGrantsPayroll
    Conflict <- PayrollAgainstAudit
    Outside = {"audit"}
    Payloads <- TimedBodies
    Requests = {q1}
    MaxInFlight = 1
    MaxHours = 1
    MaxClock = 1
    Faults = {"refused", "lost", "read", "crash"}
    MaxFaults = 1
    NoRow = NoRow
    NoGroup = NoGroup
INVARIANTS
    SodExclusion
    NoOrphanAccess
PROPERTIES
    ExpiredAccessRemoved
    ScheduledAccessStarts
