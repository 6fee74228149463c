CONSTANTS
    Callers = {poller, user}
    Nobody = Nobody
    Poller = poller
    Keys = {"serial", "tcp"}
    NoKey = NoKey
    SerialKeys = {"serial"}
    NoVal = NoVal
    WordSize = 8
    Gap = 1
    Groups = {"slow"}
    Plan <- MBPlan
    Free = {"limit"}
    Blocks = {"block"}
    WriteOnly = {"reset"}
    Loads <- MBLoads
    Adjusted <- MBAdjusted
    Initial <- MBInitial
    MaxOpenFailures = 2
    MaxFaults = 2
SPECIFICATION FairAtomicSpec
INVARIANTS
    ModbusTypeOK
    ConfirmedMeansWritten
    CacheHonest
    RightPort
    FreshPortPerRange
    GapsKept
PROPERTIES
    WritesAreAtomic
    CallsReturn
