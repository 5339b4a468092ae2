SPECIFICATION FairSpec
CONSTANTS
    UdpCap = 1
    SidMod = 3
    EvModes <- MCEvModes
    EvMeasures = FALSE
    SeModes <- MCSeModes
    SeMode0 = "AC_three_phase"
    Lossy = FALSE
    NetFaults = FALSE
    EvQuits = FALSE
    SeQuits = FALSE
PROPERTIES
    StopEndsSession
    SessionCharges
    StationReleased
