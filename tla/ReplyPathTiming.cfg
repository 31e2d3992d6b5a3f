CONSTANTS
    MaxModules = 2
    Present = 1
    Requests <- MCRequests
    Limits <- MCLimits
    Modulus = 3
    IdentifyIds = {1}
    ReplyCapacity = 2
    MaxInFlight = 2
    MaxRequests = 4
    MaxFaults = 1
SPECIFICATION Spec
INVARIANTS
    CrcTellsDamage
