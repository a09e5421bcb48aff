SPECIFICATION ImportsSpec
CONSTANTS
    People = {p1, p2}
    Departments = {d1, d2}
    Admins = {q1}
    Importer = w
    MaxUploads = 1
    MostEdits = 3
    MostInFlight = 2
    LimitOn <- OneOfEach
INVARIANTS
    AloneAccessFollows
PROPERTIES
    HrIsApplied
    LeaversLose
CHECK_DEADLOCK FALSE
