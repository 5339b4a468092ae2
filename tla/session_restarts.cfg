SPECIFICATION FairSpec
CONSTANTS
    UdpCap = 1
    SidMod = 2
    EvModes <- MCDcModes
    EvMeasures = FALSE
    SeModes <- MCSeModes
    SeMode0 = "AC_three_phase"
    Lossy = TRUE
    NetFaults = TRUE
    EvQuits = TRUE
    SeQuits = TRUE
INVARIANTS
    SafeToDisconnect
PROPERTIES
    PowerWithdrawn
