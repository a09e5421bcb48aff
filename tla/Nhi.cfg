SPECIFICATION NhiSpec
CONSTANTS
    Apps = {a1, a2}
    People = {u1}
    Governors = {q1, q2}
    Syncer = w
    Tastes <- AllOrOwned
    MaxCampaigns = 2
    MostEdits = 4
    MostInFlight = 2
    LimitOn <- OneOfEach
INVARIANTS
    AloneReviewsGoOn
    AloneRisksNoted
PROPERTIES
    AloneLeaversLeaveNothing
    RowsCatchUp
CHECK_DEADLOCK FALSE
