SPECIFICATION FairSpec
CONSTANTS
    Commands = {1, 2}
    None = none
    Payload <- MCPayload
    Reply <- MCReply
    Noise <- MCNoise
    SumAs = 2
    RxMax = 8
    MaxFlush = 2
    MaxFaults = 3
    SlowDevice = FALSE
    LenAtRisk = FALSE
INVARIANTS
    TypeOK
PROPERTIES
    ImplementsRpc
    NothingLostUnprovoked
    GetsThrough
