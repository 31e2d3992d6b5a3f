CONSTANTS
    MaxModules = 2
    Relay <- MCRelay
    Layouts <- MCLayouts
    VoltageReplies <- MCVoltageReplies
    TemperatureReplies <- MCTemperatureReplies
    LoadedRules <- MCLoadedRules
    RuleWrites <- MCRuleWrites
    RelayWrites <- MCRelayWrites
    DefaultWrites <- MCDefaultWrites
SPECIFICATION FairSpec
INVARIANTS
    TypeOK
    PinsFollowRelays
    FirstRuleDecides
    EveryExcessTrips
PROPERTIES
    NoChatter
    CalmReleases
