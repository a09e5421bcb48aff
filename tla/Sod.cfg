SPECIFICATION WideSpec
CONSTANTS
    tx = tx
    ty = ty
    Policies = {p1, p2}
    Targets = {tx, ty}
    ReadLive = {ty}
    Shapes <- Sides
    Settings <- Tells
    Admins = {q1}
    Worker = w
    MaxRows = 2
    MaxExceptions = 2
    MaxRequests = 2
    MaxEdits = 3
    MaxInFlight = 2
    FaultLimit <- Limits
INVARIANTS
    AloneGrantsTraceable
    AloneNoted
PROPERTIES
    LapseEndsItsOwn
    LapsedEnds
CHECK_DEADLOCK FALSE
