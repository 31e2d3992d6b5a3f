CONSTANTS
    MaxModules = 16
    QueueCapacity = 6
    Sizes <- MCSizes
    IdentifyIds <- MCIdentifyIds
    BypassSets <- MCBypassSets
SPECIFICATION FairSpec
INVARIANTS
    TypeOK
    NoRequestRefused
    SweepUninterrupted
    PollsDoNotOverlap
    QueueMatchesConfig
    ScheduleInv
PROPERTIES
    TimingOnTime
    SweepComplete
    StartsWhenQuiet
    SweepsAndPollsWhenQuiet
