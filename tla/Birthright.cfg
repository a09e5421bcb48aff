SPECIFICATION WideSpec
CONSTANTS
    Depts = {d1, d2}
    NoDept = NoDept
    d1 = d1
    d2 = d2
    Rules <- SomeRules
    FirstRule <- First
    FirstDynamic = {"ACTIVE"}
    p1 = p1
    p2 = p2
    t1 = t1
    t2 = t2
    g = g
    Policies = {p1, p2}
    Direct <- Plain
    UsesPackage = {p1}
    UsesRole = {p2}
    Packages <- Items
    RoleItems = {t2}
    Group = g
    ByHand = {t1}
    Slots = {1, 2, 3, 4, 5, 6}
    Requests = {q1}
    MaxInFlight = 2
    MaxClock = 1
    MaxMoves = 2
    MaxEdits = 2
    FaultLimit <- Limits
INVARIANTS
    AloneReconciled
    AloneAccessBacked
PROPERTIES
    AloneAppliedIsReconciled
    MovesSettle
CHECK_DEADLOCK FALSE
