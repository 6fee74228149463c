SPECIFICATION Spec
CONSTANTS
    Workloads <- MCWorkloads
    Samples <- MCSamples
    NoSample = NoSample
    Spoiled = Spoiled
    MaxFaults = 0
INVARIANT InBoundsWritable
CHECK_DEADLOCK FALSE
