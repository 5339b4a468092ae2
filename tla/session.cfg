SPECIFICATION Spec
CONSTANTS
    UdpCap = 2
    SidMod = 3
    EvModes <- MCEvModes
    EvMeasures = TRUE
    SeModes <- MCSeModes
    SeMode0 = "AC_three_phase"
    Lossy = TRUE
    NetFaults = TRUE
    EvQuits = TRUE
    SeQuits = FALSE
INVARIANTS
    TypeOK
    InStep
    OneConnection
    SafeToDisconnect
    CurrentIntoClosedContactor
    SourceConfined
    ModesAgree
PROPERTIES
    SessionNeverFails
    ImplementsDialogue
