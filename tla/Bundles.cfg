SPECIFICATION WideSpec
CONSTANTS
    Packages = {p1}
    Roles = {r1, r2}
    Items = {group, app}
    HighRisk = {group}
    OfApps = {app}
    Users = {u1}
    Terms = {"nobody", "workflow"}
    Admins = {q1, q2}
    MaxRows = 2
    MaxEdits = 4
    MaxInFlight = 2
    FaultLimit <- Limits
INVARIANTS
    AlonePackagesSound
    MappedOnce
    HighRiskRouted
PROPERTIES
SYMMETRY Symmetric
CHECK_DEADLOCK FALSE
