SPECIFICATION WideSpec
CONSTANTS
    Accounts = {entra, okta}
    Primary = entra
    Linked = {}
    Grants = {g}
    Groups = {}
    Owned = {}
    Requests = {q}
    LeaverRows = {l1}
    ReturnRows = {r1}
    Policies <- OnePolicy
    Ops = {"account", "person", "scheduled", "sync", "csv", "start", "approve", "deny", "return", "date", "deletion"}
    MaxEdits = 1
    MaxInFlight = 1
    Faults = {"refused"}
    MaxFaults = 1
    NoRow = NoRow
    NoAccount = NoAccount
INVARIANTS
    LockedOut
    DeletedIsGone
PROPERTIES
    AloneOnlyLeaversLose
    AloneLeaverRuns
    AloneDeletionCompletes
CHECK_DEADLOCK FALSE
