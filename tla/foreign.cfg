SPECIFICATION ForeignSpec
CONSTANTS
    UdpCap = 1
    SidMod = 2
    EvModes <- MCEvModes
    EvMeasures = TRUE
    SeModes <- MCSeModes
    SeMode0 = "AC_three_phase"
    Lossy = FALSE
    NetFaults = TRUE
    EvQuits = FALSE
    SeQuits = FALSE
    MaxForeign = 1
INVARIANTS
    SourceOnlyForPower
    PilotInPowerStates
    NoCurrentThroughOpenContactor
PROPERTIES
    PilotWithdrawn
    StationFreed
