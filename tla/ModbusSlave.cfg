CONSTANTS
    Scripts <- MCScripts
    Garbled <- MCGarbled
    MaxIn = 9
    MaxRx = 20
    ByteTime = 1
    T35 = 3
    Wrap = 40
    MaxLag = 1
    Pause = 6
    MaxFaults = 4
    Faulty <- MCFaulty
SPECIFICATION FairSpec
INVARIANTS
    TypeOK
    AnswersTheLastRequest
PROPERTIES
    RequestsInOrderOnce
    FramesEndInSilence
    RequestsServedInTime
    FramesKeptApart
    BytesAreRead
