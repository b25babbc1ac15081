SPECIFICATION FairSpec
CONSTANTS
    Jobs <- TwoJobs
    Gpu <- GpuOfTwo
    TrainJobs <- OneJob
    Reporting = {}
    Overrunning <- OneJob
    Priorities = {0}
    Reqs = {}
    PhysicalGpus = 2
    ExternalLoads = {0}
    MaxFaults = 1
    MaxCrashes = 1
PROPERTIES
    StallsBehindSpoilt
    ImplementsStateMachine
