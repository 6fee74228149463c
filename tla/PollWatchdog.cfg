CONSTANTS
    Configs <- WDConfigs
    Floor = 5
    Period = 1
    MaxFast = 1
    MaxSlow = 2
    Others = {"web"}
    MaxChanges = 1
    MaxFaults = 1
    None = None
SPECIFICATION FairSpec
INVARIANTS
    Punctual
PROPERTIES
    RestartJustified
    OutageRestarts
    
