CONSTANTS
    MaxModules = 16
    QueueCapacity = 6
    Sizes <- MCSizes
    IdentifyIds <- MCIdentifyIds
    BypassSets <- MCBypassSets
SPECIFICATION Spec
PROPERTIES
    GlobalConfigReachesModules
