SPECIFICATION ImportsSpec
CONSTANTS
    People = {p1}
    Departments = {d1, d2}
    Admins = {q1}
    Importer = w
    MaxUploads = 1
    MostEdits = 4
    MostInFlight = 1
    LimitOn <- OneOfEach
PROPERTIES
    TerminatedDisables
CHECK_DEADLOCK FALSE
