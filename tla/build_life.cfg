SPECIFICATION FairSpec
CONSTANTS
    d1 = d1
    d2 = d2
    d3 = d3
    t1 = t1
    t2 = t2
    None = None
    Builds <- OneBuild
    Troubled <- OneBuild
    Tags = {t1}
    Digests = {d1, d2, d3}
    Vulnerable = {d2}
    Unlabelled = {d3}
    Cap = 2
    KeepN = 1
    MaxFaults = 2
    MaxCrashes = 1
INVARIANTS
    SecretsAreCleaned
PROPERTIES
    BuildsEnd
