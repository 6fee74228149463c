CONSTANTS
    Places = {"a", "b"}
    NoKey = NoKey
    Loads <- MQLoads
    Telemetry = {"limit"}
    Storm = {"target"}
    Values = {0, 1}
    NoVal = NoVal
    Handlers = {handler}
    Sync = sync
    MaxClients = 3
    MaxUpdates = 1
SPECIFICATION FairSpec
INVARIANTS
    LastHonest
    EntitiesMatch
    NoStrayClient
PROPERTIES
    
    Recovers
    Converges
