CONSTANTS
    MaxModules = 2
    QueueCapacity = 6
    Relay <- MCRelay
    Layouts <- MCLayouts
    IdentifyIds = {1}
    Voltages <- MCVoltages
    MaxLag = 1
    BypassFrom = 4100
    LoadedRules <- MCLoadedRules
    RuleWrites <- MCRuleWrites
    RelayWrites <- MCRelayWrites
    DefaultWrites <- MCDefaultWrites
SPECIFICATION Spec
INVARIANTS
    TypeOK
    ReadingsCatchUp
    ProtectsInTime
PROPERTIES
    SchedulerAsSpecified
