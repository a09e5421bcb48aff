SPECIFICATION WideSpec
CONSTANTS
    c1 = c1
    c2 = c2
    c3 = c3
    q1 = q1
    q2 = q2
    Campaigns <- ThreeCampaigns
    Grants = {g1, g2}
    Requests <- TwoRequests
    Bodies <- MixedBodies
    Engine = {"ACTIVE"}
    Edits = {"due", "repeat", "once", "unschedule"}
    MaxCampaigns = 3
    MaxChains = 1
    MaxEdits = 1
    MaxInFlight = 1
    MaxClock = 1
    Faults = {"refused", "gone"}
    MaxFaults = 1
    NoCampaign = NoCampaign
    NoGrant = NoGrant
INVARIANTS
    ClosedMeansDecided
    UnrefusedRevocationsReal
    AloneRecurs
PROPERTIES
    AloneOverdueCloses
