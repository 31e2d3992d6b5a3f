CONSTANTS
    MaxModules = 2
    Relay <- MCRelay
    Layouts <- MCLayouts
    VoltageReplies <- MCVoltageReplies
    TemperatureReplies <- MCTemperatureReplies
    LoadedRules <- MCLoadedRules
    RuleWrites <- NoWrites
    RelayWrites <- NoWrites
    DefaultWrites <- NoWrites
SPECIFICATION Spec
INVARIANTS
    NothingTripsBeforeReplies
