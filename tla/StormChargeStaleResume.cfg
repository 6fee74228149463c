CONSTANTS
    SlotWords = 2
    Val <- MCVal
    NoVal = NoVal
    StormSlots <- MCStorm
    Requests <- MCRequests
    InitialRegs <- MCOff
    PanelEdits <- NoEdits
    MaxFaults = 2
SPECIFICATION Spec
INVARIANTS LinkLossHandled
