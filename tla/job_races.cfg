SPECIFICATION Spec
CONSTANTS
    Jobs <- OneJob
    Gpu <- GpuOfOne
    TrainJobs <- OneJob
    Reporting <- OneJob
    Overrunning <- OneJob
    Priorities = {0, 1}
    Reqs = {r1, r2}
    PhysicalGpus = 1
    ExternalLoads = {0}
    MaxFaults = 1
    MaxCrashes = 1
SYMMETRY ReqSymmetry
INVARIANTS
    RunningPodsAreCommitted
    SecretMatchesRow
    OneModelPerJob
    TerminalHasNoToken
    EndedRunsAreClosed
    PodsOfEndedJobs
PROPERTIES
    OnlyCancelRaces
