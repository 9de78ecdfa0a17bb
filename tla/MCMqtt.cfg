SPECIFICATION Spec
CONSTANTS
    PulseTicks = 1
    MaxLag = 0
    Inputs <- AllInputs
    MaxCmds = 2
    MaxLoss = 2
INVARIANTS
    TypeOK
    EchoAccounting
    AtMostOnce
    OnlineTruthful
PROPERTIES
    DeadLinkNoticed
    EchoesDieOut
    StatusConverges
