CONSTANTS
    RELAY_RULES = 2
    Configurations <- MCConfigurations
    Limits <- MCLimits
    RelayStates <- MCRelayStates
    Defaults <- MCDefaults
    MaxTorn = 1
SPECIFICATION Spec
PROPERTIES
    DefaultsSurviveRestart
