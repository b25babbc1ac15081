SPECIFICATION FairSpec
CONSTANTS
    j1 = j1
    j2 = j2
    dev = dev
    adm = adm
    q1 = q1
    q2 = q2
    None = None
    Jobs <- TwoJobs
    Users = {dev, adm}
    Maker <- MakerOfTwo
    Role <- RoleOfTwo
    Reqs = {q1, q2}
    Targets = {"Production", "Archived"}
    MaxOps = 2
    MaxTroubles = 1
INVARIANTS
    RowsResolve
    OneProduction
PROPERTIES
    RowsGoLast
    ArchivedNeedsAdmin
    StagesConverge
