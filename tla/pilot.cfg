SPECIFICATION Spec
CONSTANTS
    MaxCommands = 3
    MaxWaiting = 2
INVARIANTS
    TypeOK
    PwmInStep
    PilotKnown
PROPERTIES
    Initialised
    LevelReturns
    PwmWithdrawn
