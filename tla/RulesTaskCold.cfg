CONSTANTS
    MaxModules = 2
    Relay <- MCRelay
    Layouts <- MCLayouts
    VoltageReplies <- MCVoltageReplies
    TemperatureReplies <- ColdReplies
    LoadedRules <- MCLoadedRules
    RuleWrites <- NoWrites
    RelayWrites <- NoWrites
    DefaultWrites <- NoWrites
SPECIFICATION Spec
INVARIANTS
    ColdCellTrips
