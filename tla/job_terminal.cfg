SPECIFICATION Spec
CONSTANTS
    Jobs <- OneJob
    Gpu <- GpuOfOne
    TrainJobs <- OneJob
    Reporting <- OneJob
    Overrunning <- OneJob
    Priorities = {0}
    Reqs = {r1}
    PhysicalGpus = 1
    ExternalLoads = {0}
    MaxFaults = 0
    MaxCrashes = 0
PROPERTIES
    StatusMovesAreLegal
