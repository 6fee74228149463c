CONSTANTS
    Users = {"page", "command"}
    Main = "main"
    Mains <- CSMains
    DefaultMain <- CSMain
    SOCs = {40, 80, 95}
    Currents = {50, 60}
    Workloads <- CSWorkloads
    None = None
SPECIFICATION FairSpec
CHECK_DEADLOCK FALSE
INVARIANTS
    UsableServed
    Durable
PROPERTIES
    OnlyItsChange
    Restarts
