SPECIFICATION Spec
CONSTANTS
    UdpCap = 1
    SidMod = 2
    EvModes <- MCEvModes
    EvMeasures = FALSE
    SeModes <- MCSeModes
    SeMode0 = "AC_three_phase"
    Lossy = FALSE
    NetFaults = FALSE
    EvQuits = FALSE
    SeQuits = FALSE
INVARIANTS
    SeccSurvives
