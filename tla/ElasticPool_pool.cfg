SPECIFICATION FairSpec
CONSTANTS
    Server = {s1, s2}
    MaxVersion = 2
    MaxFaults = 3
INVARIANTS ExposedServesPolicy
PROPERTY HealthyBecomesReady
