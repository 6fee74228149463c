SPECIFICATION Spec
CONSTANTS
    Workloads <- MCWorkloads
    Samples <- MCSamples
    NoSample = NoSample
    Spoiled = Spoiled
    MaxFaults = 4
INVARIANTS
    ValuesRight
    RetryRecovers
    PlanCovers
    
CHECK_DEADLOCK FALSE
