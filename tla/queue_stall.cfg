SPECIFICATION FairSpec
CONSTANTS
    Jobs <- OneJob
    Gpu <- GpuOfOne
    TrainJobs <- OneJob
    Reporting <- OneJob
    Overrunning <- OneJob
    Priorities = {0}
    Reqs = {}
    PhysicalGpus = 1
    ExternalLoads = {0}
    MaxFaults = 1
    MaxCrashes = 0
PROPERTIES
    QueuedIsDispatched
