SPECIFICATION WideSpec
CONSTANTS
    ann = ann
    bob = bob
    adm = adm
    Users <- People
    Admins <- OneAdmin
    Definitions <- SerialDefinitions
    MaxEdits = 2
    MaxInFlight = 1
INVARIANTS
    QuorumRespected
    AloneStagesAgree
    AloneSubjectFollows
CHECK_DEADLOCK FALSE
