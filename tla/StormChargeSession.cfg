CONSTANTS
    SlotWords = 2
    Val <- MCVal
    NoVal = NoVal
    StormSlots <- MCStorm
    Requests <- MCRequests
    InitialRegs <- MCOffOn
    PanelEdits <- SlotEdits
    MaxFaults = 3
SPECIFICATION FairSpec
INVARIANTS
    TypeOK
    WriteAhead
    IdleMeansRestored
    ChargingMeansApplied
    NoTornSchedule
    FinalPhaseMatchesReason
    NoImmortalSession
PROPERTIES
    SessionEnds
    PersistedRestoreIsFinal
    ImplementsUndoLog
