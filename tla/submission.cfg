SPECIFICATION Spec
CONSTANTS
    v1 = v1
    d1 = d1
    d2 = d2
    ann = ann
    bob = bob
    q1 = q1
    q2 = q2
    plain = plain
    reserved = reserved
    None = None
    Users = {ann, bob}
    Admins = {}
    Versions = {v1}
    Datasets = {d1, d2}
    FirstData = d1
    FirstOwner = ann
    Params = {plain, reserved}
    Reserved = {reserved}
    Names <- OneName
    Reqs = {q1, q2}
    Cap = 2
    RateLimit = 2
    MaxOps = 3
    MaxFaults = 1
SYMMETRY Places
CHECK_DEADLOCK FALSE
INVARIANTS
    CapExceededByOverlap
    TwinsOverlap
    OneExperiment
    SubmissionSeesDataset
    DeletionSeesJobs
    JobsHaveRuns
