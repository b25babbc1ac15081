SPECIFICATION FairSpec
CONSTANTS
    Jobs <- OneJob
    Gpu <- GpuOfOne
    TrainJobs <- OneJob
    Reporting <- OneJob
    Overrunning <- OneJob
    Priorities = {0}
    Reqs = {r1}
    PhysicalGpus = 1
    ExternalLoads = {0}
    MaxFaults = 1
    MaxCrashes = 1
PROPERTIES
    DispatchedEnds
    SecretsReclaimed
