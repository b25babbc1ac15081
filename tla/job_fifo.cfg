SPECIFICATION Spec
CONSTANTS
    Jobs <- TwoJobs
    Gpu <- GpuOfTwo
    TrainJobs = {}
    Reporting = {}
    Overrunning = {}
    Priorities = {0, 1}
    Reqs = {r1}
    PhysicalGpus = 2
    ExternalLoads = {0, 1}
    MaxFaults = 0
    MaxCrashes = 0
INVARIANTS
    PassBudget
PROPERTIES
    StrictFifo
    ImplementsSessions
