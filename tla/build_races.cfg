SPECIFICATION Spec
CONSTANTS
    d1 = d1
    d2 = d2
    d3 = d3
    t1 = t1
    t2 = t2
    None = None
    Builds <- TwoBuilds
    Tags = {t1, t2}
    Digests = {d1, d2}
    Vulnerable = {d2}
    Unlabelled = {}
    Cap = 2
    KeepN = 1
    Troubled <- OneBuild
    MaxFaults = 0
    MaxCrashes = 0
INVARIANTS
    NoVulnerableVersion
    SameTagOnlyByRace
PROPERTIES
    VersionsAreFinal
    ImageIsKept
    OnlyCancelMovesEnded
