CONSTANTS
    SlotWords = 1
    Val <- GVal
    NoVal = NoVal
    StormSlots <- GStorm
    Requests <- GRequests
    InitialRegs <- GOwner
    PanelEdits <- SlotEdit
    MaxFaults = 0
    Users = {u1, u2}
    NoUser = NoUser
    UserEdits <- CurrentEdit
SPECIFICATION GuardSpec
PROPERTIES ManualChangesRejected
