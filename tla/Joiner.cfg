SPECIFICATION WideSpec
CONSTANTS
    Kind <- EntraAndAD
    Requests = {q1}
    Delays = {0, 1}
    MaxClock = 2
    MaxEdits = 1
    MaxInFlight = 2
    FaultLimit <- Limits
    NoUser = NoUser
    Types = {"PU", "TU"}
    Asked = {1, 2}
    Callers = {"q1", "q2"}
INVARIANTS
    AloneAccountsMatch
    PrivilegedSound
PROPERTIES
    JoinersGoOn
CHECK_DEADLOCK FALSE
